---------------------------- MODULE SchedulerProofs ----------------------------
(***************************************************************************)
(* Proofs about TaskletScheduler without nesting, for any number of        *)
(* tasklets.  There the main tasklet runs the only loop of                 *)
(* ScheduleManager::Run: what has to be shown is that control never gets   *)
(* anywhere else, whatever is suspended, killed or fails.                  *)
(***************************************************************************)
EXTENDS TaskletChannels, WalkLemmas, SequenceTheorems

Q == INSTANCE RunQueueProofs

--------------------------------------------------------------------------------
(* What the operators of the run queue do to the fields that are not links. *)

LEMMA RunQueueAssumptions ==
    Main \in Tasklets /\ Q!IsFiniteSet(Tasklets) /\ NULL \notin Tasklets /\ NULL \notin Channels
BY MainAssumption, TaskletsAssumption, NullAssumption DEF IsFiniteSet, Q!IsFiniteSet

(* RunQueueProofs has operators of its own, which are those of RunQueueOps. *)
LEMMA SameMarks ==
    /\ QueueType = Q!QueueType /\ RescheduleType = Q!RescheduleType
    /\ \A x, t : Unblock(x, t) = Q!Unblock(x, t) /\ IsLinked(x, t) = Q!IsLinked(x, t)
    /\ \A x, t, r : SetReschedule(x, t, r) = Q!SetReschedule(x, t, r)
    /\ \A x, t, c : Block(x, t, c) = Q!Block(x, t, c)
    /\ \A x, t : SetCurrentTasklet(x, t) = Q!SetCurrentTasklet(x, t)
BY DEF QueueType, Q!QueueType, RescheduleType, Q!RescheduleType, Unblock, Q!Unblock,
       IsLinked, Q!IsLinked, SetReschedule, Q!SetReschedule, Block, Q!Block,
       SetCurrentTasklet, Q!SetCurrentTasklet

LEMMA SameInserts ==
    /\ \A x, t : InsertTasklet(x, t) = Q!InsertTasklet(x, t)
    /\ \A x, t : InsertTaskletToRunNext(x, t) = Q!InsertTaskletToRunNext(x, t)
    /\ \A x, t : RemoveTasklet(x, t) = Q!RemoveTasklet(x, t)
BY DEF InsertTasklet, Q!InsertTasklet, InsertTaskletToRunNext, Q!InsertTaskletToRunNext,
       RemoveTasklet, Q!RemoveTasklet, SetIfAny, Q!SetIfAny, Unblock, Q!Unblock,
       IsLinked, Q!IsLinked, SetReschedule, Q!SetReschedule

LEMMA SameMoves ==
    /\ \A x, t : DropFromQueue(x, t) = Q!DropFromQueue(x, t)
    /\ \A x, t : InsertBehindFront(x, t) = Q!InsertBehindFront(x, t)
    /\ \A x, t : MoveToRunNext(x, t) = Q!MoveToRunNext(x, t)
    /\ \A x, t, p : ReturnToRunner(x, t, p) = Q!ReturnToRunner(x, t, p)
<1>1. \A x, t : DropFromQueue(x, t) = Q!DropFromQueue(x, t)
  BY SameInserts DEF DropFromQueue, Q!DropFromQueue
<1>2. \A x, t : InsertBehindFront(x, t) = Q!InsertBehindFront(x, t)
  BY SameInserts DEF InsertBehindFront, Q!InsertBehindFront
<1>3. \A x, t : MoveToRunNext(x, t) = Q!MoveToRunNext(x, t)
  BY SameInserts, SameMarks DEF MoveToRunNext, Q!MoveToRunNext
<1>4. \A x, t : ReinsertAsAsked(x, t) = Q!ReinsertAsAsked(x, t)
  BY SameInserts, SameMarks, <1>2 DEF ReinsertAsAsked, Q!ReinsertAsAsked
<1>5. \A x, t, p : ReturnToRunner(x, t, p) = Q!ReturnToRunner(x, t, p)
  BY SameMarks, <1>1, <1>4 DEF ReturnToRunner, Q!ReturnToRunner
<1>. QED
  BY <1>1, <1>2, <1>3, <1>5

(* A good queue, and what its list says. *)
LEMMA GoodQueue ==
    ASSUME NEW x, Q!Good(x)
    PROVE  /\ x \in QueueType /\ x.current \in Tasklets /\ ~x.nullDeref
           /\ x.scheduled[Main]
           /\ x.next[Main] # NULL => x.next[Main] \in Tasklets \ {Main} /\ x.scheduled[x.next[Main]]
           /\ \A t \in Tasklets \ {Main} : x.scheduled[t] => IsLinked(x, t)
<1>1. x \in Q!QueueType /\ x.current \in Tasklets /\ Q!WellFormed(x)
  BY DEF Q!Good
<1>2. /\ x.scheduled[Main]
      /\ \A t \in Tasklets : x.scheduled[t] /\ t # Main => Q!IsLinked(x, t)
      /\ \A t \in Tasklets : x.scheduled[t] /\ x.next[t] # NULL =>
            x.next[t] \in Tasklets \ {Main, t} /\ x.scheduled[x.next[t]]
  BY <1>1, Q!ListFacts, RunQueueAssumptions
<1>3. ~x.nullDeref
  BY <1>1 DEF Q!WellFormed
<1>. QED
  BY <1>1, <1>2, <1>3, SameMarks, MainAssumption

(* The main tasklet is followed by someone if anyone else is queued. *)
LEMMA SomeoneIsNext ==
    ASSUME NEW x, Q!Good(x), NEW u \in Tasklets \ {Main}, x.scheduled[u]
    PROVE  x.next[Main] # NULL
<1>1. PICK s \in [0..x.count -> Tasklets] : Q!Lists(s, x)
  BY DEF Q!Good, Q!WellFormed
<1>2. x.count \in Nat
  BY DEF Q!Good, Q!WellFormed
<1>3. PICK i \in 0..x.count : s[i] = u
  BY <1>1 DEF Q!Lists
<1>4. s[0] = Main /\ 0 \in 0..x.count /\ 1 \in 0..x.count
  BY <1>1, <1>2, <1>3 DEF Q!Lists
<1>5. x.next[s[0]] = s[1]
  <2>1. \A j \in 0..x.count : x.next[s[j]] = IF j = x.count THEN NULL ELSE s[j+1]
    BY <1>1 DEF Q!Lists
  <2>. QED
    BY <2>1, <1>4, <1>2
<1>. QED
  BY <1>1, <1>4, <1>5, NullAssumption

(* y is x, with the same current tasklet, and t marked, blocked, queued...  *)
Flagged(x, y, t, r) ==
    /\ Q!Good(y) /\ y.current = x.current
    /\ y.scheduled = x.scheduled /\ y.blockedOn = x.blockedOn
    /\ \A u \in Tasklets : y.reschedule[u] = IF u = t THEN r ELSE x.reschedule[u]

Freed(x, y, t, c) ==
    /\ Q!Good(y) /\ y.current = x.current
    /\ y.scheduled = x.scheduled /\ y.reschedule = x.reschedule
    /\ \A u \in Tasklets : y.blockedOn[u] = IF u = t THEN c ELSE x.blockedOn[u]

Inserted(x, y, t) ==
    /\ Q!Good(y) /\ y.current = x.current
    /\ \A u \in Tasklets : y.scheduled[u] <=> u = t \/ x.scheduled[u]
    /\ \A u \in Tasklets :
          y.reschedule[u] = IF u = t /\ x.scheduled[t] THEN "BACK" ELSE x.reschedule[u]
    /\ \A u \in Tasklets :
          y.blockedOn[u] = IF u = t /\ ~x.scheduled[t] THEN NULL ELSE x.blockedOn[u]

Removed(x, y, t) ==
    /\ Q!Good(y) /\ y.current = x.current
    /\ \A u \in Tasklets : y.scheduled[u] <=> u # t /\ x.scheduled[u]
    /\ y.reschedule = x.reschedule /\ y.blockedOn = x.blockedOn

Moved(x, y, t) ==
    /\ Q!Good(y) /\ y.current = x.current
    /\ \A u \in Tasklets : y.scheduled[u] <=> u = t \/ x.scheduled[u]
    /\ \A u \in Tasklets :
          y.reschedule[u] = IF u = x.current THEN "FRONT_PLUS_ONE" ELSE x.reschedule[u]
    /\ \A u \in Tasklets : y.blockedOn[u] = IF u = t THEN NULL ELSE x.blockedOn[u]

(* t has given control back to main. *)
CameBack(x, y, t) ==
    /\ Q!Good(y) /\ y.current = Main
    /\ \A u \in Tasklets :
          y.scheduled[u] <=> IF u = t THEN x.reschedule[t] # "NONE" ELSE x.scheduled[u]
    /\ \A u \in Tasklets : y.reschedule[u] = IF u = t THEN "NONE" ELSE x.reschedule[u]
    /\ \A u \in Tasklets :
          \/ y.blockedOn[u] = x.blockedOn[u]
          \/ /\ y.blockedOn[u] = NULL /\ u # Main
             /\ IF u = t THEN x.reschedule[t] # "NONE" ELSE x.scheduled[u]

LEMMA MarksFlag ==
    ASSUME NEW x, Q!Good(x), NEW t \in Tasklets, NEW r \in RescheduleType
    PROVE  Flagged(x, SetReschedule(x, t, r), t, r)
<1>1. Q!Good(SetReschedule(x, t, r))
  BY SameMarks, RunQueueAssumptions, Q!MarksKeepTheList
<1>. QED
  BY <1>1, GoodQueue DEF Flagged, SetReschedule, QueueType

LEMMA BlocksFree ==
    ASSUME NEW x, Q!Good(x), NEW t \in Tasklets
    PROVE  /\ Freed(x, Unblock(x, t), t, NULL)
           /\ \A c \in Channels : Freed(x, Block(x, t, c), t, c)
<1>1. Q!Good(Unblock(x, t)) /\ \A c \in Channels : Q!Good(Block(x, t, c))
  BY SameMarks, RunQueueAssumptions, Q!MarksKeepTheList
<1>2. x \in QueueType
  BY GoodQueue
<1>3. Freed(x, Unblock(x, t), t, NULL)
  BY <1>1, <1>2 DEF Freed, Unblock, QueueType
<1>4. ASSUME NEW c \in Channels PROVE Freed(x, Block(x, t, c), t, c)
  BY <1>1, <1>2 DEF Freed, Block, QueueType
<1>. QED
  BY <1>3, <1>4

LEMMA SetsCurrent ==
    ASSUME NEW x, Q!Good(x), NEW t \in Tasklets
    PROVE  LET y == SetCurrentTasklet(x, t)
           IN  /\ Q!Good(y) /\ y.current = t /\ y.scheduled = x.scheduled
               /\ y.reschedule = x.reschedule /\ y.blockedOn = x.blockedOn
               /\ \A u : y.next[u] = x.next[u] /\ IsLinked(y, u) = IsLinked(x, u)
<1>1. Q!Good(SetCurrentTasklet(x, t))
  BY SameMarks, RunQueueAssumptions, Q!MarksKeepTheList
<1>. QED
  BY <1>1, GoodQueue DEF SetCurrentTasklet, QueueType, IsLinked

LEMMA InsertsInsert ==
    ASSUME NEW x, Q!Good(x), NEW t \in Tasklets
    PROVE  /\ Inserted(x, InsertTasklet(x, t), t)
           /\ x.scheduled[x.current] => Inserted(x, InsertTaskletToRunNext(x, t), t)
<1>1. /\ Q!Good(InsertTasklet(x, t)) /\ InsertTasklet(x, t).current = x.current
      /\ x.scheduled[x.current] =>
            /\ Q!Good(InsertTaskletToRunNext(x, t))
            /\ InsertTaskletToRunNext(x, t).current = x.current
  BY SameInserts, RunQueueAssumptions, Q!InsertKeepsTheList, Q!InsertToRunNextKeepsTheList
<1>2. x \in QueueType /\ x.tail # NULL
  <2>1. x.tail \in Tasklets
    BY RunQueueAssumptions, Q!ListFacts DEF Q!Good
  <2>. QED
    BY <2>1, GoodQueue, NullAssumption
<1>3. CASE x.scheduled[t]
  <2>1. Flagged(x, SetReschedule(x, t, "BACK"), t, "BACK")
    BY MarksFlag DEF RescheduleType
  <2>. QED
    BY <1>3, <2>1 DEF Flagged, Inserted, InsertTasklet, InsertTaskletToRunNext
<1>4. CASE ~x.scheduled[t]
  <2>1. ASSUME NEW y, Q!Good(y), y.current = x.current,
               y.scheduled = [x.scheduled EXCEPT ![t] = TRUE], y.reschedule = x.reschedule,
               y.blockedOn = [x.blockedOn EXCEPT ![t] = NULL]
        PROVE  Inserted(x, y, t)
    <3>1. x.scheduled \in [Tasklets -> BOOLEAN] /\ x.blockedOn \in [Tasklets -> Channels \cup {NULL}]
      BY <1>2 DEF QueueType
    <3>2. \A u \in Tasklets : y.scheduled[u] <=> u = t \/ x.scheduled[u]
      BY <2>1, <3>1
    <3>3. \A u \in Tasklets :
             y.blockedOn[u] = IF u = t /\ ~x.scheduled[t] THEN NULL ELSE x.blockedOn[u]
      BY <1>4, <2>1, <3>1
    <3>4. \A u \in Tasklets :
             y.reschedule[u] = IF u = t /\ x.scheduled[t] THEN "BACK" ELSE x.reschedule[u]
      BY <1>4, <2>1
    <3>. QED
      BY <2>1, <3>2, <3>3, <3>4 DEF Inserted
  <2>2. Inserted(x, InsertTasklet(x, t), t)
    <3>. DEFINE y == InsertTasklet(x, t)
    <3>1. /\ y.scheduled = [x.scheduled EXCEPT ![t] = TRUE] /\ y.reschedule = x.reschedule
          /\ y.blockedOn = [x.blockedOn EXCEPT ![t] = NULL]
      BY <1>2, <1>4 DEF InsertTasklet, Unblock, QueueType
    <3>2. Q!Good(y) /\ y.current = x.current
      BY <1>1
    <3>. HIDE DEF y
    <3>3. Inserted(x, y, t)
      BY <2>1, <3>1, <3>2
    <3>. QED
      BY <3>3 DEF y
  <2>3. ASSUME x.scheduled[x.current] PROVE Inserted(x, InsertTaskletToRunNext(x, t), t)
    <3>. DEFINE y == InsertTaskletToRunNext(x, t)
    <3>1. /\ y.scheduled = [x.scheduled EXCEPT ![t] = TRUE] /\ y.reschedule = x.reschedule
          /\ y.blockedOn = [x.blockedOn EXCEPT ![t] = NULL]
      BY <1>2, <1>4 DEF InsertTaskletToRunNext, Unblock, QueueType
    <3>2. Q!Good(y) /\ y.current = x.current
      BY <1>1, <2>3
    <3>. HIDE DEF y
    <3>3. Inserted(x, y, t)
      BY <2>1, <3>1, <3>2
    <3>. QED
      BY <3>3 DEF y
  <2>. QED
    BY <2>2, <2>3
<1>. QED
  BY <1>3, <1>4

LEMMA RemoveRemoves ==
    ASSUME NEW x, Q!Good(x), NEW t \in Tasklets \ {Main}
    PROVE  Removed(x, RemoveTasklet(x, t), t)
<1>. DEFINE y == RemoveTasklet(x, t)
<1>1. /\ Q!Good(y) /\ y.current = x.current /\ y.reschedule = x.reschedule
      /\ \A u \in Tasklets : y.scheduled[u] <=> (u # t /\ x.scheduled[u])
  BY SameInserts, RunQueueAssumptions, Q!RemoveKeepsTheList
<1>2. y.blockedOn = x.blockedOn
  BY GoodQueue DEF RemoveTasklet, QueueType
<1>. QED
  BY <1>1, <1>2 DEF Removed

LEMMA MoveMoves ==
    ASSUME NEW x, Q!Good(x), NEW t \in Tasklets \ {Main}, t # x.current, x.scheduled[x.current]
    PROVE  Moved(x, MoveToRunNext(x, t), t)
<1>. DEFINE out == IF x.scheduled[t] THEN RemoveTasklet(x, t) ELSE x
            in == InsertTaskletToRunNext(out, t)
            y == SetReschedule(in, x.current, "FRONT_PLUS_ONE")
<1>1. Removed(x, out, t)
  <2>1. CASE x.scheduled[t]
    BY <2>1, RemoveRemoves
  <2>2. CASE ~x.scheduled[t]
    BY <2>2, GoodQueue DEF Removed, QueueType
  <2>. QED
    BY <2>1, <2>2
<1>. HIDE DEF out
<1>2. Inserted(out, in, t)
  <2>1. Q!Good(out) /\ out.scheduled[out.current]
    BY <1>1 DEF Removed, Q!Good
  <2>. QED
    BY <2>1, InsertsInsert
<1>. HIDE DEF in
<1>3. Flagged(in, y, x.current, "FRONT_PLUS_ONE")
  <2>1. Q!Good(in) /\ x.current \in Tasklets
    BY <1>2 DEF Inserted, Q!Good
  <2>. QED
    BY <2>1, MarksFlag DEF RescheduleType
<1>4. y = MoveToRunNext(x, t)
  BY DEF out, in, MoveToRunNext
<1>. HIDE DEF y
<1>5. Moved(x, y, t)
  <2>1. /\ \A u \in Tasklets : y.scheduled[u] <=> u = t \/ x.scheduled[u]
        /\ \A u \in Tasklets : y.blockedOn[u] = IF u = t THEN NULL ELSE x.blockedOn[u]
        /\ \A u \in Tasklets :
              y.reschedule[u] = IF u = x.current THEN "FRONT_PLUS_ONE" ELSE x.reschedule[u]
    BY <1>1, <1>2, <1>3 DEF Removed, Inserted, Flagged
  <2>2. Q!Good(y) /\ y.current = x.current
    BY <1>1, <1>2, <1>3 DEF Removed, Inserted, Flagged
  <2>. QED
    BY <2>1, <2>2 DEF Moved
<1>. QED
  BY <1>4, <1>5

LEMMA ReturnComesBack ==
    ASSUME NEW x, Q!Good(x), NEW t \in Tasklets \ {Main}, x.scheduled[t],
           x.reschedule[t] = "FRONT_PLUS_ONE" => \E u \in Tasklets \ {Main, t} : x.scheduled[u]
    PROVE  /\ CameBack(x, ReturnToRunner(x, t, Main), t)
           /\ x.reschedule[t] = "FRONT_PLUS_ONE" => DropFromQueue(x, t).next[Main] # NULL
<1>. DEFINE c == SetCurrentTasklet(x, Main)
            d == DropFromQueue(c, t)
            y == ReturnToRunner(x, t, Main)
<1>1. /\ Q!Good(c) /\ c.current = Main /\ c.scheduled = x.scheduled
      /\ c.reschedule = x.reschedule /\ c.blockedOn = x.blockedOn
  BY SetsCurrent, MainAssumption
<1>. HIDE DEF c
<1>2. ASSUME NEW z, Q!Good(z), z.scheduled[t] PROVE Removed(z, DropFromQueue(z, t), t)
  <2>. DEFINE e == DropFromQueue(z, t)
  <2>1. /\ Q!Good(e) /\ e.current = z.current /\ e.reschedule = z.reschedule
        /\ \A u \in Tasklets : e.scheduled[u] <=> (u # t /\ z.scheduled[u])
    BY <1>2, SameMoves, RunQueueAssumptions, Q!DropKeepsTheList
  <2>2. e.blockedOn = z.blockedOn
    BY <1>2, GoodQueue DEF DropFromQueue, RemoveTasklet, QueueType
  <2>. QED
    BY <2>1, <2>2 DEF Removed
<1>3. Removed(c, d, t) /\ Removed(x, DropFromQueue(x, t), t)
  BY <1>1, <1>2
<1>4. ASSUME x.reschedule[t] = "FRONT_PLUS_ONE"
      PROVE  /\ DropFromQueue(x, t).next[Main] # NULL /\ d.next[Main] # NULL
             /\ d.scheduled[Main] /\ d.current = Main
  <2>1. PICK u \in Tasklets \ {Main, t} : x.scheduled[u]
    BY <1>4
  <2>2. d.scheduled[u] /\ DropFromQueue(x, t).scheduled[u] /\ Q!Good(d) /\ Q!Good(DropFromQueue(x, t))
    BY <1>1, <1>3, <2>1 DEF Removed
  <2>. QED
    BY <1>1, <1>3, <2>1, <2>2, SomeoneIsNext, GoodQueue DEF Removed
<1>. HIDE DEF d
<1>5. y = ReinsertAsAsked(d, t)
  BY MainAssumption, NullAssumption DEF y, c, d, ReturnToRunner
<1>. HIDE DEF y
<1>6. /\ Q!Good(d) /\ d.current = Main /\ d.reschedule = x.reschedule /\ d.blockedOn = x.blockedOn
      /\ \A u \in Tasklets : d.scheduled[u] <=> u # t /\ x.scheduled[u]
  BY <1>1, <1>3 DEF Removed
<1>7. x.reschedule[t] \in RescheduleType
  BY GoodQueue DEF QueueType
<1>8. ASSUME x.reschedule[t] = "NONE" PROVE CameBack(x, y, t)
  BY <1>5, <1>6, <1>8 DEF ReinsertAsAsked, CameBack
<1>9. ASSUME x.reschedule[t] = "BACK" PROVE CameBack(x, y, t)
  <2>1. Inserted(d, InsertTasklet(d, t), t)
    BY <1>6, InsertsInsert
  <2>2. y = SetReschedule(InsertTasklet(d, t), t, "NONE")
    BY <1>5, <1>6, <1>9 DEF ReinsertAsAsked
  <2>3. Flagged(InsertTasklet(d, t), y, t, "NONE")
    BY <2>1, <2>2, MarksFlag DEF Inserted, RescheduleType
  <2>4. \A u \in Tasklets : y.scheduled[u] <=> u = t \/ x.scheduled[u]
    BY <1>6, <2>1, <2>3 DEF Inserted, Flagged
  <2>5. \A u \in Tasklets : y.reschedule[u] = IF u = t THEN "NONE" ELSE x.reschedule[u]
    BY <1>6, <2>1, <2>3 DEF Inserted, Flagged
  <2>6. \A u \in Tasklets : y.blockedOn[u] = x.blockedOn[u] \/ (y.blockedOn[u] = NULL /\ u = t)
    BY <1>6, <2>1, <2>3 DEF Inserted, Flagged
  <2>7. Q!Good(y) /\ y.current = Main
    BY <1>6, <2>1, <2>3 DEF Inserted, Flagged
  <2>. QED
    BY <1>9, <2>4, <2>5, <2>6, <2>7 DEF CameBack
<1>10. ASSUME x.reschedule[t] = "FRONT_PLUS_ONE" PROVE CameBack(x, y, t)
  <2>. DEFINE front == d.next[Main]
              e == RemoveTasklet(d, front)
              f == InsertTaskletToRunNext(e, t)
              g == InsertTaskletToRunNext(f, front)
  <2>1. front \in Tasklets \ {Main, t} /\ d.scheduled[front] /\ x.scheduled[front]
    BY <1>4, <1>6, <1>10, GoodQueue
  <2>2. y = SetReschedule(g, t, "NONE")
    BY <1>4, <1>5, <1>6, <1>10 DEF ReinsertAsAsked, InsertBehindFront
  <2>. HIDE DEF front
  <2>3. Removed(d, e, front)
    BY <1>6, <2>1, RemoveRemoves
  <2>. HIDE DEF e
  <2>4. Inserted(e, f, t)
    BY <1>4, <1>6, <1>10, <2>1, <2>3, InsertsInsert, MainAssumption DEF Removed
  <2>. HIDE DEF f
  <2>5. Inserted(f, g, front)
    <3>1. Q!Good(f) /\ f.current = Main /\ f.scheduled[Main]
      BY <1>6, <2>3, <2>4, GoodQueue DEF Removed, Inserted
    <3>. QED
      BY <2>1, <3>1, InsertsInsert
  <2>. HIDE DEF g
  <2>6. Flagged(g, y, t, "NONE")
    BY <2>2, <2>5, MarksFlag DEF Inserted, RescheduleType
  <2>7. \A u \in Tasklets : y.scheduled[u] <=> u = t \/ x.scheduled[u]
    BY <1>6, <2>1, <2>3, <2>4, <2>5, <2>6 DEF Removed, Inserted, Flagged
  <2>8. \A u \in Tasklets : y.reschedule[u] = IF u = t THEN "NONE" ELSE x.reschedule[u]
    <3>1. ~d.scheduled[t] /\ ~e.scheduled[t] /\ ~f.scheduled[front]
      BY <1>6, <2>1, <2>3, <2>4 DEF Removed, Inserted
    <3>. QED
      BY <1>6, <2>1, <2>3, <2>4, <2>5, <2>6, <3>1 DEF Removed, Inserted, Flagged
  <2>9. \A u \in Tasklets :
           y.blockedOn[u] = x.blockedOn[u] \/ (y.blockedOn[u] = NULL /\ u \in {t, front})
    BY <1>6, <2>3, <2>4, <2>5, <2>6 DEF Removed, Inserted, Flagged
  <2>10. Q!Good(y) /\ y.current = Main
    BY <1>6, <2>3, <2>4, <2>5, <2>6 DEF Removed, Inserted, Flagged
  <2>. QED
    BY <1>10, <2>1, <2>7, <2>8, <2>9, <2>10 DEF CameBack
<1>11. CameBack(x, y, t)
  BY <1>7, <1>8, <1>9, <1>10 DEF RescheduleType
<1>. QED
  BY <1>4, <1>11 DEF y

--------------------------------------------------------------------------------
(* The hypotheses.                                                          *)

AllOps == MainOps \cup TaskletOps

NoTrap == "switch_trap" \notin AllOps

NoThrow == AllOps \cap {"throw", "throw_queued", "throw_pending"} = {}

(* The calls that keep the loop on the main tasklet, and nobody from being  *)
(* taken out of the queue while it runs.  A tasklet that asks to come back  *)
(* behind the one it runs must be able to give control away.                *)
Flat ==
    /\ ~Nested
    /\ TaskletOps \cap {"run_scheduler", "run_n_tasklets", "run_for_time", "switch",
                        "remove_running", "clear", "unblock_all"} = {}
    /\ MainOps \cap {"switch", "remove_running"} = {}
    /\ NoTrap \/ TaskletOps \cap {"run", "kill", "throw"} = {}

--------------------------------------------------------------------------------
(* The stacks.  C is the set of channels in use.                            *)

(* The loop waits at its head, or for the tasklet it has switched to. *)
RunFrames ==
    [k : {"Run"}, base : {Main}, end : {NULL}, until : BOOLEAN, done : BOOLEAN,
     pc : {"head"}, sw : {NULL}]
    \cup [k : {"Run"}, base : {Main}, end : {NULL}, until : BOOLEAN, done : BOOLEAN,
          pc : {"in", "out"}, sw : Tasklets \ {Main}]

YieldFrames(t) ==
    [k : {"Yield"}, t : {t}, pc : {"head"}, sw : {NULL}]
    \cup [k : {"Yield"}, t : {t}, pc : {"in", "out"}, sw : {Main}]

Switching(t) == IF t = Main THEN RunFrames ELSE YieldFrames(t)

PlainFrames(C) ==
    [k : {"Yield.main"}, t : {Main}]
    \cup [k : {"Kill"}, t : Tasklets, c : C \cup {NULL}]
    \cup [k : {"Send", "Send.delivered", "Receive", "Receive.taken"}, t : Tasklets, c : C]
    \cup [k : {"Clear"}, todo : Seq(C) \ {<<>>}, senders : BOOLEAN, failed : BOOLEAN]

LimitedFrames == [k : {"RunNTasklets", "RunTaskletsForTime"}, t : {NULL}]

(* What is left to do for the callers of Run and Yield. *)
Rests(C, t) ==
    Seq(PlainFrames(C)) \cup (IF t = Main THEN {<<f>> : f \in LimitedFrames} ELSE {})

(* t's code is suspended in the middle of Run or Yield. *)
Switches(C, t, s) ==
    /\ s \in Seq(Switching(t) \cup PlainFrames(C) \cup LimitedFrames)
    /\ s # <<>> /\ Head(s) \in Switching(t) /\ Tail(s) \in Rests(C, t)

Stacks(C) ==
    /\ stack = [t \in Tasklets |-> stack[t]]
    /\ \A t \in Tasklets : stack[t] \in Rests(C, t) \/ Switches(C, t, stack[t])

Has(s, k) == \E i \in DOMAIN s : s[i].k = k

LEMMA PutOnTop ==
    ASSUME NEW S, NEW r \in Seq(S), NEW f
    PROVE  /\ <<f>> \o r # <<>> /\ Head(<<f>> \o r) = f /\ Tail(<<f>> \o r) = r
           /\ \A k : Has(<<f>> \o r, k) <=> f.k = k \/ Has(r, k)
           /\ f \in S => <<f>> \o r \in Seq(S)
<1>. DEFINE T == S \cup {f}
            s == <<f>> \o r
<1>1. <<f>> \in Seq(T) /\ Len(<<f>>) = 1 /\ r \in Seq(T) /\ Len(r) \in Nat
  <2>1. r \in Seq(T)
    BY SeqMonotonic
  <2>. QED
    BY <2>1
<1>2. /\ s \in Seq(T) /\ Len(s) = Len(r) + 1
      /\ \A i \in 1..(Len(r) + 1) : s[i] = IF i <= 1 THEN f ELSE r[i - 1]
  <2>1. /\ s \in Seq(T) /\ Len(s) = Len(<<f>>) + Len(r)
        /\ \A i \in 1..(Len(<<f>>) + Len(r)) :
              s[i] = IF i <= Len(<<f>>) THEN <<f>>[i] ELSE r[i - Len(<<f>>)]
    BY <1>1, ConcatProperties
  <2>. QED
    BY <1>1, <2>1
<1>. HIDE DEF s
<1>3. s # <<>> /\ Head(s) = f
  BY <1>1, <1>2
<1>4. Tail(s) = r
  <2>1. Tail(s) \in Seq(T) /\ Len(Tail(s)) = Len(s) - 1
        /\ \A i \in 1..Len(Tail(s)) : Tail(s)[i] = s[i + 1]
    BY <1>2, <1>3, HeadTailProperties
  <2>2. Len(Tail(s)) = Len(r) /\ \A i \in 1..Len(Tail(s)) : Tail(s)[i] = r[i]
    BY <1>1, <1>2, <2>1
  <2>. QED
    BY <1>1, <2>1, <2>2, SeqEqual
<1>5. ASSUME NEW k PROVE Has(s, k) <=> f.k = k \/ Has(r, k)
  <2>1. DOMAIN s = 1..(Len(r) + 1) /\ DOMAIN r = 1..Len(r)
    BY <1>1, <1>2
  <2>2. ASSUME NEW i \in DOMAIN r PROVE i + 1 \in DOMAIN s /\ s[i + 1] = r[i]
    BY <1>1, <1>2, <2>1
  <2>3. 1 \in DOMAIN s /\ s[1] = f
    BY <1>1, <1>2, <2>1
  <2>4. ASSUME NEW i \in DOMAIN s, i # 1 PROVE i - 1 \in DOMAIN r /\ s[i] = r[i - 1]
    BY <1>1, <1>2, <2>1, <2>4
  <2>. QED
    BY <2>2, <2>3, <2>4 DEF Has
<1>6. f \in S => s \in Seq(S)
  <2>1. f \in S => T = S
    OBVIOUS
  <2>. QED
    BY <1>2, <2>1
<1>. QED
  BY <1>3, <1>4, <1>5, <1>6 DEF s

(* A sequence is its first element put on top of the others. *)
LEMMA TopAndTail ==
    ASSUME NEW S, NEW s \in Seq(S), s # <<>>
    PROVE  /\ Head(s) \in S /\ Tail(s) \in Seq(S) /\ s = <<Head(s)>> \o Tail(s)
           /\ \A k : Has(s, k) <=> Head(s).k = k \/ Has(Tail(s), k)
<1>1. /\ Head(s) \in S /\ Tail(s) \in Seq(S) /\ Len(Tail(s)) = Len(s) - 1
      /\ \A i \in 1..Len(Tail(s)) : Tail(s)[i] = s[i+1]
  BY HeadTailProperties
<1>. DEFINE z == <<Head(s)>> \o Tail(s)
<1>2. /\ z \in Seq(S) /\ Len(z) = Len(<<Head(s)>>) + Len(Tail(s))
      /\ \A i \in 1..(Len(<<Head(s)>>) + Len(Tail(s))) :
            z[i] = IF i <= Len(<<Head(s)>>) THEN <<Head(s)>>[i] ELSE Tail(s)[i - Len(<<Head(s)>>)]
  BY <1>1, ConcatProperties
<1>3. Len(s) \in Nat \ {0} /\ Head(s) = s[1]
  BY EmptySeq
<1>4. s = z
  <2>1. Len(<<Head(s)>>) = 1 /\ <<Head(s)>>[1] = Head(s)
    OBVIOUS
  <2>2. Len(z) = Len(s) /\ \A i \in 1..Len(s) : z[i] = s[i]
    BY <1>1, <1>2, <1>3, <2>1
  <2>. QED
    BY <1>2, <2>2, SeqEqual
<1>. QED
  BY <1>1, <1>4, PutOnTop

LEMMA PlainKinds ==
    ASSUME NEW C, NEW f \in PlainFrames(C)
    PROVE  f.k \notin {"Run", "Yield", "RunNTasklets", "RunTaskletsForTime", "Switch", "Switch.yield"}
BY DEF PlainFrames

LEMMA PlainRests ==
    ASSUME NEW C, NEW t, NEW r \in Seq(PlainFrames(C))
    PROVE  r \in Rests(C, t) /\ ~Has(r, "RunNTasklets") /\ ~Has(r, "RunTaskletsForTime")
<1>1. \A i \in DOMAIN r : r[i] \in PlainFrames(C)
  OBVIOUS
<1>. QED
  BY <1>1, PlainKinds DEF Rests, Has

LEMMA EmptyStack ==
    ASSUME NEW C, NEW t
    PROVE  <<>> \in Seq(PlainFrames(C)) /\ <<>> \in Rests(C, t) /\ \A k : ~Has(<<>>, k)
BY DEF Rests, Has

(* What is on top of the rest of a call, and below. *)
LEMMA TopOfRest ==
    ASSUME NEW C, NEW t, NEW r \in Rests(C, t), r # <<>>
    PROVE  /\ Head(r) \in PlainFrames(C) \/ (t = Main /\ Head(r) \in LimitedFrames)
           /\ Head(r).k \notin {"Run", "Yield", "Switch", "Switch.yield"}
           /\ Tail(r) \in Seq(PlainFrames(C)) /\ Tail(r) \in Rests(C, t)
           /\ \A k : Has(r, k) <=> Head(r).k = k \/ Has(Tail(r), k)
<1>1. CASE r \in Seq(PlainFrames(C))
  <2>1. /\ Head(r) \in PlainFrames(C) /\ Tail(r) \in Seq(PlainFrames(C))
        /\ \A k : Has(r, k) <=> Head(r).k = k \/ Has(Tail(r), k)
    BY <1>1, TopAndTail
  <2>. QED
    BY <2>1, PlainKinds, PlainRests
<1>2. CASE t = Main /\ \E f \in LimitedFrames : r = <<f>>
  <2>1. PICK f \in LimitedFrames : r = <<f>>
    BY <1>2
  <2>2. Tail(r) = <<>> /\ Head(r) = f /\ r \in Seq({f})
    BY <2>1
  <2>3. \A k : Has(r, k) <=> Head(r).k = k \/ Has(Tail(r), k)
    BY <2>2, TopAndTail
  <2>4. f.k \notin {"Run", "Yield", "Switch", "Switch.yield"}
    BY DEF LimitedFrames
  <2>. QED
    BY <1>2, <2>1, <2>2, <2>3, <2>4, EmptyStack
<1>. QED
  BY <1>1, <1>2 DEF Rests

LEMMA RestsAreSequences ==
    ASSUME NEW C, NEW t, NEW r \in Rests(C, t)
    PROVE  r \in Seq(PlainFrames(C) \cup LimitedFrames)
<1>1. CASE r \in Seq(PlainFrames(C))
  BY <1>1, SeqMonotonic
<1>2. CASE \E f \in LimitedFrames : r = <<f>>
  BY <1>2
<1>. QED
  BY <1>1, <1>2 DEF Rests

(* A frame of Run or Yield on top of the rest of a call. *)
LEMMA SwitchOnTop ==
    ASSUME NEW C, NEW t, NEW f \in Switching(t), NEW r \in Rests(C, t)
    PROVE  LET s == <<f>> \o r
           IN  /\ Switches(C, t, s) /\ s # <<>> /\ Head(s) = f /\ Tail(s) = r
               /\ Has(s, "RunNTasklets") <=> Has(r, "RunNTasklets")
               /\ Has(s, "RunTaskletsForTime") <=> Has(r, "RunTaskletsForTime")
<1>. DEFINE S == Switching(t) \cup PlainFrames(C) \cup LimitedFrames
            s == <<f>> \o r
<1>1. r \in Seq(S) /\ f \in S
  <2>1. r \in Seq(PlainFrames(C) \cup LimitedFrames)
    BY RestsAreSequences
  <2>2. PlainFrames(C) \cup LimitedFrames \subseteq S /\ f \in S
    OBVIOUS
  <2>. HIDE DEF S
  <2>. QED
    BY <2>1, <2>2, SeqMonotonic
<1>. HIDE DEF S
<1>2. /\ s # <<>> /\ Head(s) = f /\ Tail(s) = r /\ s \in Seq(S)
      /\ \A k : Has(s, k) <=> f.k = k \/ Has(r, k)
  BY <1>1, PutOnTop
<1>3. f.k \in {"Run", "Yield"}
  BY DEF Switching, RunFrames, YieldFrames
<1>. HIDE DEF s
<1>4. Switches(C, t, s) /\ (Has(s, "RunNTasklets") <=> Has(r, "RunNTasklets"))
      /\ (Has(s, "RunTaskletsForTime") <=> Has(r, "RunTaskletsForTime"))
  BY <1>2, <1>3 DEF Switches, S
<1>. QED
  BY <1>2, <1>4 DEF s

LEMMA TopOfSwitch ==
    ASSUME NEW C, NEW t, NEW s, Switches(C, t, s)
    PROVE  /\ s # <<>> /\ Head(s) \in Switching(t) /\ Tail(s) \in Rests(C, t)
           /\ Has(s, "RunNTasklets") <=> Has(Tail(s), "RunNTasklets")
           /\ Has(s, "RunTaskletsForTime") <=> Has(Tail(s), "RunTaskletsForTime")
<1>1. \A k : Has(s, k) <=> Head(s).k = k \/ Has(Tail(s), k)
  BY TopAndTail DEF Switches
<1>2. s # <<>> /\ Head(s) \in Switching(t) /\ Tail(s) \in Rests(C, t)
  BY DEF Switches
<1>3. Head(s).k \in {"Run", "Yield"}
  BY <1>2 DEF Switching, RunFrames, YieldFrames
<1>. QED
  BY <1>1, <1>2, <1>3

--------------------------------------------------------------------------------
(* The inductive invariant. *)

QueueFits(C, x) == Q!Good(x) /\ \A t \in Tasklets : x.blockedOn[t] \in C \cup {NULL}

TaskletsFit(x) ==
    /\ x \in [Tasklets -> TaskletType]
    /\ x[Main].exc = "none"
    /\ NoThrow => \A t \in Tasklets : x[t].exc # "Error"

(* A tasklet that has begun came from the main tasklet, and dies into it. *)
GreenletsFit(g) ==
    /\ g \in [Tasklets -> GreenletType]
    /\ g[Main].state = "started"
    /\ \A t \in Tasklets \ {Main} : g[t].state \in {"started", "dead"} => g[t].parent = Main

ManagerFits(m) == m \in ManagerType /\ (NoTrap => m.trap = 0)

ChannelsFit(h) == h \in [Channels -> ChannelType(Tasklets)]

Outcomes == {"none", "ok"} \cup Errors

Types(C) ==
    /\ QueueFits(C, q) /\ TaskletsFit(tk) /\ GreenletsFit(gl)
    /\ ManagerFits(mgr) /\ ChannelsFit(ch)
    /\ active \in Tasklets /\ ret \in Outcomes

TopIs(t, k, pc) == stack[t] # <<>> /\ Head(stack[t]).k = k /\ Head(stack[t]).pc = pc

AtRun(pc) == TopIs(Main, "Run", pc)
AtYield(t, pc) == TopIs(t, "Yield", pc)

(* The main tasklet has switched to Target, and not done with it yet. *)
RunsOne == AtRun("in") \/ AtRun("out")

Target == Head(stack[Main]).sw

(* Who is neither running nor main is in the middle of Yield, or in no call. *)
Suspended ==
    \A t \in Tasklets \ {active, Main} : stack[t] # <<>> => AtYield(t, "in")

(* The main tasklet is the one that runs the others. *)
Runs ==
    /\ active # Main =>
          AtRun("in") /\ Target = active /\ q.current = active /\ gl[active].state = "started"
    /\ active = Main /\ ~RunsOne => q.current = Main
    /\ RunsOne => q.current \in {Main, Target} /\ q.scheduled[Target] /\ tk[Target].parent = Main
    /\ AtRun("out") /\ ret = "Error" => q.current = Main \/ tk[Target].remove

(* A tasklet that is to come back behind the one it runs is on its way to   *)
(* the loop, and someone else is queued.                                    *)
ComesBackSecond(t) ==
    /\ NoTrap
    /\ \E u \in Tasklets \ {Main, t} : q.scheduled[u]
    /\ \/ active = t /\ AtYield(t, "head")
       \/ active = Main /\ RunsOne /\ Target = t /\ q.current = Main /\ ret = "ok"

Marks ==
    \A t \in Tasklets \ {Main} : q.reschedule[t] = "FRONT_PLUS_ONE" => ComesBackSecond(t)

Control(C) == Types(C) /\ Stacks(C) /\ Suspended /\ Runs /\ Marks /\ LimitsMatchTheCall

(* No exception but TaskletExit waits for a tasklet that has died.          *)
Calm == active = Main /\ AtRun("in") => tk[q.current].exc # "Error"

Limited == {"RunNTasklets", "RunTaskletsForTime"}

--------------------------------------------------------------------------------
(* Steps that stay on one greenlet: calls, returns, and the code between. *)

(* A call is made, or returns: its stack is not in the middle of a switch. *)
LEMMA Here ==
    ASSUME NEW C, Control(C), stack[active] \in Rests(C, active)
    PROVE  /\ q.current = active
           /\ \A t \in Tasklets \ {Main} : q.reschedule[t] # "FRONT_PLUS_ONE"
           /\ active # Main => q.scheduled[active] /\ gl[active].state = "started"
<1>1. \A pc : ~TopIs(active, "Run", pc) /\ ~TopIs(active, "Yield", pc)
  BY TopOfRest DEF TopIs
<1>2. active = Main => ~RunsOne
  BY <1>1 DEF RunsOne, AtRun
<1>3. q.current = active
  BY <1>2 DEF Control, Runs
<1>4. \A t \in Tasklets \ {Main} : ~ComesBackSecond(t)
  BY <1>1, <1>2 DEF ComesBackSecond, AtYield
<1>5. active # Main => q.scheduled[active] /\ gl[active].state = "started"
  BY DEF Control, Runs, RunsOne
<1>. QED
  BY <1>3, <1>4, <1>5 DEF Control, Marks

(* The running greenlet has called Run or Yield. *)
AtHead(C) == Switches(C, active, stack'[active]) /\ Head(stack'[active]).pc = "head"

(* Only what is suspended on the running greenlet changes. *)
Stays(C) ==
    /\ active' = active
    /\ stack' = [stack EXCEPT ![active] = stack'[active]]
    /\ stack'[active] \in Rests(C, active) \/ AtHead(C)

SameLimits == \A k \in Limited : Has(stack'[active], k) <=> Has(stack[active], k)

(* What a call that stays may do to the rest. *)
QueueStays(C, x) ==
    /\ QueueFits(C, x) /\ x.current = q.current
    /\ active # Main => x.scheduled[active]

Unmarked(x) == \A t \in Tasklets \ {Main} : x.reschedule[t] # "FRONT_PLUS_ONE"

MarksItself(x) ==
    /\ NoTrap
    /\ \A t \in Tasklets \ {Main, active} : x.reschedule[t] # "FRONT_PLUS_ONE"
    /\ \E u \in Tasklets \ {Main, active} : x.scheduled[u]

TaskletsStay(x) == TaskletsFit(x) /\ \A t \in Tasklets : x[t].parent = tk[t].parent

GreenletsStay(g) == GreenletsFit(g) /\ (active # Main => g[active].state = "started")

LEMMA StayingKeepsControl ==
    ASSUME NEW C, Control(C), stack[active] \in Rests(C, active), Stays(C),
           QueueStays(C, q'), Unmarked(q') \/ (MarksItself(q') /\ AtHead(C)),
           TaskletsStay(tk'), GreenletsStay(gl'), ManagerFits(mgr'), ChannelsFit(ch'),
           ret' \in Outcomes, LimitsMatchTheCall'
    PROVE  Control(C)'
<1>. USE DEF Control
<1>1. active \in Tasklets /\ active' = active
  BY DEF Types, Stays
<1>2. /\ stack' = [t \in Tasklets |-> stack'[t]]
      /\ \A t \in Tasklets : t # active => stack'[t] = stack[t]
  BY DEF Stacks, Stays
<1>3. q.current = active /\ (active # Main => q.scheduled[active])
  BY Here
<1>4. Types(C)'
  BY <1>1 DEF Types, QueueStays, TaskletsStay, GreenletsStay
<1>5. Stacks(C)'
  <2>1. stack'[active] \in Rests(C, active) \/ Switches(C, active, stack'[active])
    BY DEF Stays, AtHead
  <2>2. \A t \in Tasklets : stack'[t] \in Rests(C, t) \/ Switches(C, t, stack'[t])
    BY <1>2, <2>1 DEF Stacks
  <2>. QED
    BY <1>2, <2>2 DEF Stacks
<1>6. Suspended'
  BY <1>1, <1>2 DEF Suspended, AtYield, TopIs
<1>7. active = Main => ~RunsOne'
  <2>1. stack'[active] \in Rests(C, active) /\ stack'[active] # <<>> =>
           Head(stack'[active]).k \notin {"Run", "Yield"}
    BY TopOfRest
  <2>2. AtHead(C) => Head(stack'[active]).pc = "head"
    BY DEF AtHead
  <2>. QED
    BY <2>1, <2>2 DEF RunsOne, AtRun, TopIs, Stays
<1>8. active # Main => stack'[Main] = stack[Main]
  BY <1>2, MainAssumption
<1>9. Runs'
  <2>1. CASE active = Main
    <3>1. active' = Main /\ ~RunsOne'
      BY <1>1, <1>7, <2>1
    <3>2. q'.current = Main
      BY <1>3, <2>1 DEF QueueStays
    <3>. QED
      BY <3>1, <3>2 DEF Runs, RunsOne
  <2>2. CASE active # Main
    <3>1. /\ AtRun("in")' /\ Target' = active /\ ~AtRun("out")' /\ q'.current = active
          /\ gl'[active].state = "started" /\ q'.scheduled[active] /\ tk'[active].parent = Main
      BY <1>1, <1>3, <1>8, <2>2
         DEF Runs, RunsOne, AtRun, TopIs, Target, QueueStays, GreenletsStay, TaskletsStay
    <3>. QED
      BY <1>1, <2>2, <3>1 DEF Runs, RunsOne
  <2>. QED
    BY <2>1, <2>2
<1>10. Marks'
  <2>1. CASE Unmarked(q')
    BY <2>1 DEF Unmarked, Marks
  <2>2. CASE MarksItself(q') /\ AtHead(C)
    <3>. SUFFICES ASSUME active # Main, q'.reschedule[active] = "FRONT_PLUS_ONE"
                  PROVE  ComesBackSecond(active)'
      BY <1>1, <2>2 DEF MarksItself, Marks
    <3>1. AtYield(active, "head")'
      <4>1. stack'[active] # <<>> /\ Head(stack'[active]) \in YieldFrames(active)
        BY <2>2 DEF AtHead, Switches, Switching
      <4>2. Head(stack'[active]).k = "Yield" /\ Head(stack'[active]).pc = "head"
        BY <2>2, <4>1 DEF AtHead, YieldFrames
      <4>. QED
        BY <1>1, <4>1, <4>2 DEF AtYield, TopIs
    <3>. QED
      BY <1>1, <2>2, <3>1 DEF ComesBackSecond, MarksItself
  <2>. QED
    BY <2>1, <2>2
<1>. QED
  BY <1>4, <1>5, <1>6, <1>9, <1>10

LEMMA LimitsStay ==
    ASSUME NEW C, Control(C), Stays(C), SameLimits,
           mgr'.runType = mgr.runType, mgr'.stop = mgr.stop
    PROVE  LimitsMatchTheCall'
<1>1. \A k \in Limited : Waiting(Main, k)' <=> Waiting(Main, k)
  <2>1. stack'[Main] = IF Main = active THEN stack'[active] ELSE stack[Main]
    BY MainAssumption DEF Stays, Control, Stacks
  <2>2. \A k \in Limited : Has(stack'[Main], k) <=> Has(stack[Main], k)
    BY <2>1 DEF SameLimits
  <2>. QED
    BY <2>2 DEF Waiting, Has
<1>. QED
  BY <1>1 DEF LimitsMatchTheCall, Control, Limited

LEMMA ContinueStays ==
    ASSUME NEW C, Control(C), NEW fs, NEW r \in Outcomes, Continue(fs, r),
           fs \in Rests(C, active) \/ (Switches(C, active, fs) /\ Head(fs).pc = "head")
    PROVE  Stays(C) /\ stack'[active] = fs /\ ret' \in Outcomes
<1>1. stack' = [stack EXCEPT ![active] = fs] /\ active' = active /\ ret' \in Outcomes
  BY DEF Continue, Outcomes
<1>2. stack'[active] = fs
  BY <1>1 DEF Control, Stacks, Types
<1>. QED
  BY <1>1, <1>2 DEF Stays, AtHead

(* The running greenlet's call is answered, with some of it left to do. *)
LEMMA AnswerStays ==
    ASSUME NEW C, Control(C), NEW conts \in Seq(PlainFrames(C)),
           stack[active] \in Seq(PlainFrames(C)), NEW r \in Outcomes, Answer(conts, r)
    PROVE  Stays(C) /\ SameLimits /\ ret' \in Outcomes
<1>1. conts \o stack[active] \in Seq(PlainFrames(C))
  BY ConcatProperties
<1>2. Stays(C) /\ stack'[active] = conts \o stack[active] /\ ret' \in Outcomes
  BY <1>1, PlainRests, ContinueStays DEF Answer
<1>. QED
  BY <1>1, <1>2, PlainRests DEF SameLimits, Limited

(* A call returns to what called it. *)
LEMMA ReturnStays ==
    ASSUME NEW C, Control(C), stack[active] \in Rests(C, active), stack[active] # <<>>,
           NEW r \in Outcomes, Return(r)
    PROVE  /\ Stays(C) /\ ret' \in Outcomes
           /\ Head(stack[active]).k \notin Limited => SameLimits
           /\ stack'[active] \in Seq(PlainFrames(C))
<1>1. /\ Tail(stack[active]) \in Rests(C, active) /\ Tail(stack[active]) \in Seq(PlainFrames(C))
      /\ \A k : Has(stack[active], k) <=> Head(stack[active]).k = k \/ Has(Tail(stack[active]), k)
  BY TopOfRest
<1>2. Stays(C) /\ stack'[active] = Tail(stack[active]) /\ ret' \in Outcomes
  BY <1>1, ContinueStays DEF Return
<1>. QED
  BY <1>1, <1>2 DEF SameLimits

LEMMA PushStays ==
    ASSUME NEW C, Control(C), NEW f \in Switching(active), f.pc = "head",
           NEW r \in Rests(C, active), Continue(<<f>> \o r, "none")
    PROVE  /\ Stays(C) /\ AtHead(C) /\ ret' \in Outcomes
           /\ \A k \in Limited : Has(stack'[active], k) <=> Has(r, k)
<1>. DEFINE s == <<f>> \o r
<1>1. /\ Switches(C, active, s) /\ Head(s) = f
      /\ \A k \in Limited : Has(s, k) <=> Has(r, k)
  BY SwitchOnTop DEF Limited
<1>. HIDE DEF s
<1>2. Stays(C) /\ stack'[active] = s /\ ret' \in Outcomes
  <2>1. Continue(s, "none")
    BY DEF s
  <2>. QED
    BY <1>1, <2>1, ContinueStays DEF Outcomes
<1>. QED
  BY <1>1, <1>2 DEF AtHead

LEMMA NewFrames ==
    /\ \A until \in BOOLEAN :
          RunFrame(Main, NULL, until) \in Switching(Main) /\ RunFrame(Main, NULL, until).pc = "head"
    /\ \A t \in Tasklets \ {Main} :
          YieldFrame(t) \in Switching(t) /\ YieldFrame(t).pc = "head"
    /\ \A C : Then("Yield.main", Main) \in PlainFrames(C)
    /\ Then("RunNTasklets", NULL) \in LimitedFrames
    /\ Then("RunTaskletsForTime", NULL) \in LimitedFrames
BY DEF RunFrame, YieldFrame, Switching, RunFrames, YieldFrames, Then, PlainFrames, LimitedFrames

(* Yield is called: control stays for now. *)
LEMMA YieldStays ==
    ASSUME NEW C, Control(C), NEW conts \in Seq(PlainFrames(C)),
           stack[active] \in Seq(PlainFrames(C)), NEW q0, NEW tk0, q0.current = active,
           Yield(q0, tk0, conts)
    PROVE  /\ Stays(C) /\ SameLimits /\ ret' \in Outcomes
           /\ q' = q0 /\ tk' = tk0 /\ gl' = gl
           /\ active # Main => AtHead(C)
<1>. DEFINE P == PlainFrames(C)
            below == conts \o stack[active]
<1>1. q' = q0 /\ tk' = tk0 /\ gl' = gl /\ active \in Tasklets
  BY DEF Yield, Control, Types
<1>2. below \in Seq(P)
  BY ConcatProperties
<1>3. CASE active # Main
  <2>. DEFINE f == YieldFrame(active)
  <2>1. f \in Switching(active) /\ f.pc = "head"
    BY <1>1, <1>3, NewFrames
  <2>2. Continue((<<f>> \o conts) \o stack[active], "none")
    BY <1>3 DEF Yield, Push
  <2>. HIDE DEF f
  <2>3. (<<f>> \o conts) \o stack[active] = <<f>> \o below
    <3>. DEFINE T == P \cup {f}
    <3>1. <<f>> \in Seq(T) /\ conts \in Seq(T) /\ stack[active] \in Seq(T)
      BY SeqMonotonic
    <3>2. \A a, b, c \in Seq(T) : (a \o b) \o c = a \o (b \o c)
      BY ConcatAssociative
    <3>. QED
      BY <3>1, <3>2, Zenon
  <2>4. /\ Stays(C) /\ AtHead(C) /\ ret' \in Outcomes
        /\ \A k \in Limited : Has(stack'[active], k) <=> Has(below, k)
    BY <1>2, <2>1, <2>2, <2>3, PlainRests, PushStays
  <2>. QED
    BY <1>1, <1>2, <2>4, PlainRests DEF SameLimits, Limited
<1>4. CASE active = Main /\ IsBlocked(q0, Main) /\ q0.next[Main] = NULL
  <2>1. Answer(conts, "Error")
    BY <1>4 DEF Yield
  <2>. QED
    BY <1>1, <1>4, <2>1, AnswerStays DEF Outcomes, Errors
<1>5. CASE active = Main /\ ~(IsBlocked(q0, Main) /\ q0.next[Main] = NULL)
  <2>. DEFINE f == RunFrame(Main, NULL, IsBlocked(q0, Main))
              wait == IF IsBlocked(q0, Main) THEN <<Then("Yield.main", Main)>> ELSE <<>>
  <2>1. f \in Switching(active) /\ f.pc = "head" /\ wait \in Seq(P)
    <3>1. IsBlocked(q0, Main) \in BOOLEAN
      BY DEF IsBlocked
    <3>2. Then("Yield.main", Main) \in P
      BY NewFrames
    <3>. QED
      BY <1>5, <3>1, <3>2, NewFrames
  <2>2. Continue(((<<f>> \o wait) \o conts) \o stack[active], "none")
    BY <1>5 DEF Yield, Push
  <2>. HIDE DEF f, wait
  <2>3. ((<<f>> \o wait) \o conts) \o stack[active] = <<f>> \o (wait \o below)
    <3>. DEFINE T == P \cup {f}
    <3>1. /\ <<f>> \in Seq(T) /\ conts \in Seq(T) /\ stack[active] \in Seq(T)
          /\ wait \in Seq(T) /\ below \in Seq(T)
      BY <1>2, <2>1, SeqMonotonic
    <3>. HIDE DEF T
    <3>2. <<f>> \o wait \in Seq(T)
      BY <3>1, ConcatProperties
    <3>3. \A a, b, c \in Seq(T) : (a \o b) \o c = a \o (b \o c)
      BY ConcatAssociative
    <3>4. ((<<f>> \o wait) \o conts) \o stack[active] = (<<f>> \o wait) \o below
      BY <3>1, <3>2, <3>3, Zenon
    <3>5. (<<f>> \o wait) \o below = <<f>> \o (wait \o below)
      BY <3>1, <3>3, Zenon
    <3>. QED
      BY <3>4, <3>5, Zenon
  <2>4. wait \o below \in Seq(P)
    BY <1>2, <2>1, ConcatProperties
  <2>5. /\ Stays(C) /\ AtHead(C) /\ ret' \in Outcomes
        /\ \A k \in Limited : Has(stack'[active], k) <=> Has(wait \o below, k)
    <3>. HIDE DEF P, below
    <3>1. wait \o below \in Rests(C, active)
      BY <2>4, PlainRests DEF P
    <3>2. Continue(<<f>> \o (wait \o below), "none")
      BY <2>2, <2>3
    <3>. QED
      BY <2>1, <3>1, <3>2, PushStays
  <2>. QED
    BY <1>1, <1>2, <2>4, <2>5, PlainRests DEF SameLimits, Limited
<1>. QED
  BY <1>3, <1>4, <1>5

LEMMA AnswerKeepsControl ==
    ASSUME NEW C, Control(C), NEW conts \in Seq(PlainFrames(C)),
           stack[active] \in Seq(PlainFrames(C)), NEW r \in Outcomes, Answer(conts, r),
           QueueStays(C, q'), Unmarked(q'), TaskletsStay(tk'), GreenletsStay(gl'),
           mgr' = mgr, ChannelsFit(ch')
    PROVE  Control(C)'
<1>1. Stays(C) /\ SameLimits /\ ret' \in Outcomes
  BY AnswerStays
<1>2. LimitsMatchTheCall' /\ ManagerFits(mgr')
  BY <1>1, LimitsStay DEF Control, Types
<1>. QED
  BY <1>1, <1>2, PlainRests, StayingKeepsControl

LEMMA ReturnKeepsControl ==
    ASSUME NEW C, Control(C), stack[active] \in Rests(C, active), stack[active] # <<>>,
           Head(stack[active]).k \notin Limited, NEW r \in Outcomes, Return(r),
           QueueStays(C, q'), Unmarked(q'), TaskletsStay(tk'), GreenletsStay(gl'),
           mgr' = mgr, ChannelsFit(ch')
    PROVE  Control(C)'
<1>1. Stays(C) /\ SameLimits /\ ret' \in Outcomes
  BY ReturnStays
<1>2. LimitsMatchTheCall' /\ ManagerFits(mgr')
  BY <1>1, LimitsStay DEF Control, Types
<1>. QED
  BY <1>1, <1>2, StayingKeepsControl

LEMMA YieldKeepsControl ==
    ASSUME NEW C, Control(C), NEW conts \in Seq(PlainFrames(C)),
           stack[active] \in Seq(PlainFrames(C)), NEW q0, NEW tk0, Yield(q0, tk0, conts),
           QueueStays(C, q0), Unmarked(q0) \/ MarksItself(q0), TaskletsStay(tk0),
           mgr' = mgr, ChannelsFit(ch')
    PROVE  Control(C)'
<1>1. stack[active] \in Rests(C, active)
  BY PlainRests
<1>2. q0.current = active
  BY <1>1, Here DEF QueueStays
<1>3. /\ Stays(C) /\ SameLimits /\ ret' \in Outcomes
      /\ q' = q0 /\ tk' = tk0 /\ gl' = gl
      /\ active # Main => AtHead(C)
  BY <1>2, YieldStays
<1>4. LimitsMatchTheCall' /\ ManagerFits(mgr')
  BY <1>3, LimitsStay DEF Control, Types
<1>5. Unmarked(q') \/ (MarksItself(q') /\ AtHead(C))
  <2>1. active = Main /\ MarksItself(q') => Unmarked(q')
    BY DEF MarksItself, Unmarked
  <2>. QED
    BY <1>3, <2>1
<1>6. GreenletsStay(gl')
  BY <1>1, <1>3, Here DEF GreenletsStay, Control, Types
<1>. QED
  BY <1>1, <1>3, <1>4, <1>5, <1>6, StayingKeepsControl

--------------------------------------------------------------------------------
(* Where the walks along the parents end. *)

LEMMA SizeOfTasklets == Cardinality(Tasklets) \in Nat \ {0}
BY TaskletsAssumption, MainAssumption, FS_CardinalityType, FS_EmptySet

(* Who switches to a dead greenlet lands on the main tasklet. *)
LEMMA LandsOnMain ==
    ASSUME NEW g, GreenletsFit(g), NEW t \in Tasklets,
           g[t].state = "dead" => g[t].parent = Main
    PROVE  Landing(g, t) = IF g[t].state = "dead" THEN Main ELSE t
<1>. DEFINE N == Cardinality(Tasklets)
            e == IF g[t].state = "dead" THEN Main ELSE t
            P(f) == f = [n \in 0..N |->
                           IF n = 0 THEN t
                           ELSE IF g[f[n-1]].state = "dead" THEN g[f[n-1]].parent ELSE f[n-1]]
            w == [n \in 0..N |-> IF n = 0 THEN t ELSE e]
            up == CHOOSE f : P(f)
<1>1. N \in Nat \ {0}
  BY SizeOfTasklets
<1>2. e \in Tasklets /\ g[e].state # "dead"
  BY MainAssumption DEF GreenletsFit
<1>. HIDE DEF N
<1>3. ASSUME NEW n \in 0..N
      PROVE  w[n] = IF n = 0 THEN t
                    ELSE IF g[w[n-1]].state = "dead" THEN g[w[n-1]].parent ELSE w[n-1]
  <2>1. CASE n = 0
    BY <2>1
  <2>2. CASE n # 0
    <3>1. n - 1 \in 0..N /\ w[n] = e /\ w[n-1] = IF n - 1 = 0 THEN t ELSE e
      BY <1>1, <2>2
    <3>2. CASE n - 1 = 0
      BY <2>2, <3>1, <3>2
    <3>3. CASE n - 1 # 0
      BY <1>2, <2>2, <3>1, <3>3
    <3>. QED
      BY <3>2, <3>3
  <2>. QED
    BY <2>1, <2>2
<1>4. P(w)
  BY <1>3
<1>5. P(up)
  BY <1>4
<1>6. w[N] = e /\ w[0] = t /\ N \in 0..N
  BY <1>1
<1>. HIDE DEF up, w
<1>7. GoAlike(0, N, up, w)
  <2>1. up[0] = w[0]
    BY <1>1, <1>5, <1>6
  <2>2. ASSUME NEW n \in (0 + 1)..N, up[n-1] = w[n-1] PROVE up[n] = w[n]
    <3>1. n \in 0..N /\ n # 0
      BY <1>1
    <3>2. up[n] = IF g[up[n-1]].state = "dead" THEN g[up[n-1]].parent ELSE up[n-1]
      BY <1>5, <3>1
    <3>3. w[n] = IF g[w[n-1]].state = "dead" THEN g[w[n-1]].parent ELSE w[n-1]
      BY <1>3, <3>1
    <3>. QED
      BY <2>2, <3>2, <3>3
  <2>. QED
    BY <2>1, <2>2 DEF GoAlike
<1>8. up[N] = w[N]
  BY <1>1, <1>6, <1>7, SameWalk
<1>9. Landing(g, t) = up[N]
  BY DEF Landing, up, N
<1>. QED
  BY <1>6, <1>8, <1>9

LEMMA MainIsTheAncestor ==
    ASSUME NEW t, tk[t].parent = Main
    PROVE  UnblockedAncestor(t) = Main
<1>. DEFINE N == Cardinality(Tasklets)
            P(f) == f = [n \in 0..N |->
                           IF n = 0 THEN tk[t].parent
                           ELSE IF f[n-1] = NULL \/ f[n-1] = Main THEN f[n-1]
                           ELSE IF IsBlocked(q, f[n-1]) THEN tk[f[n-1]].parent ELSE f[n-1]]
            w == [n \in 0..N |-> Main]
            up == CHOOSE f : P(f)
<1>1. N \in Nat \ {0}
  BY SizeOfTasklets
<1>. HIDE DEF N
<1>2. ASSUME NEW n \in 0..N
      PROVE  w[n] = IF n = 0 THEN tk[t].parent
                    ELSE IF w[n-1] = NULL \/ w[n-1] = Main THEN w[n-1]
                    ELSE IF IsBlocked(q, w[n-1]) THEN tk[w[n-1]].parent ELSE w[n-1]
  <2>1. n # 0 => n - 1 \in 0..N
    BY <1>1
  <2>. QED
    BY <2>1
<1>3. P(w)
  BY <1>2
<1>4. P(up)
  BY <1>3
<1>5. w[N] = Main /\ w[0] = Main /\ N \in 0..N
  BY <1>1
<1>6. \A n \in 0..N : w[n] = Main
  OBVIOUS
<1>. HIDE DEF up, w
<1>7. GoAlike(0, N, up, w)
  <2>1. up[0] = w[0]
    BY <1>1, <1>4, <1>5
  <2>2. ASSUME NEW n \in (0 + 1)..N, up[n-1] = w[n-1] PROVE up[n] = w[n]
    <3>1. n \in 0..N /\ n # 0 /\ n - 1 \in 0..N
      BY <1>1
    <3>2. up[n-1] = Main /\ w[n] = Main
      BY <1>6, <2>2, <3>1
    <3>3. up[n] = up[n-1]
      BY <1>4, <3>1, <3>2
    <3>. QED
      BY <3>2, <3>3
  <2>. QED
    BY <2>1, <2>2 DEF GoAlike
<1>8. up[N] = w[N]
  BY <1>1, <1>5, <1>7, SameWalk
<1>9. UnblockedAncestor(t) = up[N]
  BY DEF UnblockedAncestor, up, N
<1>. QED
  BY <1>5, <1>8, <1>9

--------------------------------------------------------------------------------
(* What the calls do to the queue, the tasklets and the greenlets. *)

Safe(C, x) == QueueStays(C, x) /\ Unmarked(x)

(* Before a call and before what is left of one, everything is in its place. *)
LEMMA InPlace ==
    ASSUME NEW C, Control(C), stack[active] \in Rests(C, active)
    PROVE  /\ q.current = active /\ active \in Tasklets
           /\ Safe(C, q) /\ TaskletsStay(tk) /\ GreenletsStay(gl)
           /\ ManagerFits(mgr) /\ ChannelsFit(ch)
BY Here DEF Control, Types, Safe, QueueStays, Unmarked, TaskletsStay, GreenletsStay

LEMMA SafeSteps ==
    ASSUME NEW C \in SUBSET Channels, Control(C), stack[active] \in Rests(C, active),
           NEW x, Safe(C, x), NEW t \in Tasklets
    PROVE  /\ Safe(C, Unblock(x, t))
           /\ \A c \in C : Safe(C, Block(x, t, c))
           /\ Safe(C, SetReschedule(x, t, "NONE")) /\ Safe(C, SetReschedule(x, t, "BACK"))
           /\ Safe(C, InsertTasklet(x, t)) /\ Safe(C, InsertTaskletToRunNext(x, t))
           /\ t \notin {Main, active} => Safe(C, RemoveTasklet(x, t))
<1>1. /\ Q!Good(x) /\ x.current = active /\ x.scheduled[active]
      /\ x.current = q.current
  BY InPlace, GoodQueue DEF Safe, QueueStays, QueueFits
<1>2. ASSUME NEW y, Q!Good(y), y.current = x.current,
             active # Main => y.scheduled[active],
             \A u \in Tasklets : y.blockedOn[u] \in {x.blockedOn[u], NULL} \cup C,
             \A u \in Tasklets : y.reschedule[u] \in {x.reschedule[u], "NONE", "BACK"}
      PROVE  Safe(C, y)
  <2>1. QueueStays(C, y)
    BY <1>1, <1>2 DEF Safe, QueueStays, QueueFits
  <2>2. Unmarked(y)
    BY <1>2 DEF Safe, Unmarked
  <2>. QED
    BY <2>1, <2>2 DEF Safe
<1>3. ASSUME NEW c \in C \cup {NULL}, NEW y, Freed(x, y, t, c) PROVE Safe(C, y)
  <2>1. \A u \in Tasklets : y.blockedOn[u] \in {x.blockedOn[u], NULL} \cup C
    BY <1>3 DEF Freed
  <2>. QED
    BY <1>1, <1>2, <1>3, <2>1 DEF Freed
<1>4. ASSUME NEW r \in {"NONE", "BACK"}, NEW y, Flagged(x, y, t, r) PROVE Safe(C, y)
  <2>1. \A u \in Tasklets : y.reschedule[u] \in {x.reschedule[u], "NONE", "BACK"}
    BY <1>4 DEF Flagged
  <2>. QED
    BY <1>1, <1>2, <1>4, <2>1 DEF Flagged
<1>5. ASSUME NEW y, Inserted(x, y, t) PROVE Safe(C, y)
  <2>1. \A u \in Tasklets : y.reschedule[u] \in {x.reschedule[u], "NONE", "BACK"}
    BY <1>5 DEF Inserted
  <2>2. \A u \in Tasklets : y.blockedOn[u] \in {x.blockedOn[u], NULL} \cup C
    BY <1>5 DEF Inserted
  <2>3. Q!Good(y) /\ y.current = x.current /\ y.scheduled[active]
    BY <1>1, <1>5, InPlace DEF Inserted
  <2>. QED
    BY <1>2, <2>1, <2>2, <2>3
<1>6. ASSUME t \notin {Main, active}, NEW y, Removed(x, y, t) PROVE Safe(C, y)
  <2>1. Q!Good(y) /\ y.current = x.current /\ y.scheduled[active]
    BY <1>1, <1>6, InPlace DEF Removed
  <2>. QED
    BY <1>2, <1>6, <2>1 DEF Removed
<1>7. Safe(C, Unblock(x, t)) /\ \A c \in C : Safe(C, Block(x, t, c))
  BY <1>1, <1>3, BlocksFree
<1>8. Safe(C, SetReschedule(x, t, "NONE")) /\ Safe(C, SetReschedule(x, t, "BACK"))
  <2>1. /\ Flagged(x, SetReschedule(x, t, "NONE"), t, "NONE")
        /\ Flagged(x, SetReschedule(x, t, "BACK"), t, "BACK")
    BY <1>1, MarksFlag DEF RescheduleType
  <2>. QED
    BY <1>4, <2>1
<1>9. Safe(C, InsertTasklet(x, t)) /\ Safe(C, InsertTaskletToRunNext(x, t))
  BY <1>1, <1>5, InsertsInsert
<1>10. t \notin {Main, active} => Safe(C, RemoveTasklet(x, t))
  BY <1>1, <1>6, RemoveRemoves
<1>. QED
  BY <1>7, <1>8, <1>9, <1>10

LEMMA SafeMove ==
    ASSUME NEW C, Control(C), stack[active] \in Rests(C, active),
           NEW x, Safe(C, x), NEW t \in Tasklets \ {Main, active}, NoTrap \/ active = Main
    PROVE  LET y == MoveToRunNext(x, t)
           IN  QueueStays(C, y) /\ (Unmarked(y) \/ MarksItself(y))
<1>1. Q!Good(x) /\ x.current = active /\ x.scheduled[active] /\ x.current = q.current
  BY InPlace, GoodQueue DEF Safe, QueueStays, QueueFits
<1>. DEFINE y == MoveToRunNext(x, t)
<1>2. Moved(x, y, t)
  BY <1>1, MoveMoves
<1>. HIDE DEF y
<1>3. QueueStays(C, y)
  <2>1. \A u \in Tasklets : y.blockedOn[u] \in C \cup {NULL}
    BY <1>2 DEF Moved, Safe, QueueStays, QueueFits
  <2>2. Q!Good(y) /\ y.current = q.current /\ y.scheduled[active]
    BY <1>1, <1>2, InPlace DEF Moved
  <2>. QED
    BY <2>1, <2>2 DEF QueueStays, QueueFits
<1>4. \A u \in Tasklets \ {Main, active} : y.reschedule[u] # "FRONT_PLUS_ONE"
  BY <1>1, <1>2 DEF Moved, Safe, Unmarked
<1>5. y.scheduled[t]
  BY <1>2 DEF Moved
<1>6. Unmarked(y) \/ MarksItself(y)
  BY <1>4, <1>5 DEF Unmarked, MarksItself
<1>. QED
  BY <1>3, <1>6 DEF y

(* One tasklet's fields change, but not its parent. *)
LEMMA TaskletStays ==
    ASSUME NEW x, TaskletsStay(x), NEW t \in Tasklets, NEW v \in TaskletType,
           v.parent = x[t].parent,
           \/ v.exc = "none" \/ v.exc = x[t].exc
           \/ t # Main /\ (v.exc = "TaskletExit" \/ ~NoThrow)
    PROVE  TaskletsStay([x EXCEPT ![t] = v])
<1>. DEFINE y == [x EXCEPT ![t] = v]
<1>1. y \in [Tasklets -> TaskletType] /\ \A u \in Tasklets : y[u] = IF u = t THEN v ELSE x[u]
  BY DEF TaskletsStay, TaskletsFit
<1>. HIDE DEF y
<1>2. TaskletsFit(y)
  BY <1>1, MainAssumption DEF TaskletsStay, TaskletsFit
<1>3. TaskletsStay(y)
  BY <1>1, <1>2 DEF TaskletsStay
<1>. QED
  BY <1>3 DEF y

--------------------------------------------------------------------------------
(* The calls of TaskletScheduler. *)

CalledBy(op) == op \in IF active = Main THEN MainOps ELSE TaskletOps

(* A call is made by Python code. *)
LEMMA CallIsMade ==
    ASSUME NEW C, Control(C), NEW op, Calls(op)
    PROVE  /\ stack[active] = <<>> /\ stack[active] \in Seq(PlainFrames(C))
           /\ stack[active] \in Rests(C, active)
           /\ CalledBy(op) /\ ret = "none"
           /\ q.current = active /\ active \in Tasklets
           /\ Safe(C, q) /\ TaskletsStay(tk) /\ GreenletsStay(gl)
           /\ ManagerFits(mgr) /\ ChannelsFit(ch)
<1>1. stack[active] = <<>> /\ ret = "none" /\ CalledBy(op)
  BY DEF Calls, Running, InPython, CalledBy
<1>2. stack[active] \in Seq(PlainFrames(C)) /\ stack[active] \in Rests(C, active)
  BY <1>1, EmptyStack
<1>. QED
  BY <1>1, <1>2, InPlace

LEMMA SimpleOutcomes == {"none", "ok", "Error", "TaskletExit"} \subseteq Outcomes
BY DEF Outcomes, Errors

LEMMA NoConts == \A C : <<>> \in Seq(PlainFrames(C))
BY EmptyStack

LEMMA ScheduleKeepsControl ==
    ASSUME NEW C \in SUBSET Channels, Control(C), Schedule
    PROVE  Control(C)'
<1>1. Calls("schedule")
  BY DEF Schedule
<1>. DEFINE q0 == SetReschedule(q, q.current, "BACK")
<1>2. Safe(C, q0)
  BY <1>1, CallIsMade, SafeSteps
<1>3. Yield(q0, tk, <<>>) /\ mgr' = mgr /\ ch' = ch
  BY DEF Schedule
<1>. HIDE DEF q0
<1>. QED
  BY <1>1, <1>2, <1>3, CallIsMade, NoConts, YieldKeepsControl DEF Safe

LEMMA ScheduleRemoveKeepsControl ==
    ASSUME NEW C \in SUBSET Channels, Control(C), ScheduleRemove
    PROVE  Control(C)'
<1>1. Calls("schedule_remove")
  BY DEF ScheduleRemove
<1>. DEFINE tk0 == [tk EXCEPT ![q.current].tagged = TRUE]
<1>2. TaskletsStay(tk0)
  <2>1. tk[q.current] \in TaskletType
    BY <1>1, CallIsMade DEF TaskletsStay, TaskletsFit
  <2>. DEFINE v == [tk[q.current] EXCEPT !.tagged = TRUE]
  <2>2. v \in TaskletType /\ v.parent = tk[q.current].parent /\ v.exc = tk[q.current].exc
    BY <2>1 DEF TaskletType
  <2>3. tk0 = [tk EXCEPT ![q.current] = v]
    OBVIOUS
  <2>. HIDE DEF v, tk0
  <2>. QED
    BY <1>1, <2>2, <2>3, CallIsMade, TaskletStays
<1>3. Yield(q, tk0, <<>>) /\ mgr' = mgr /\ ch' = ch
  BY DEF ScheduleRemove
<1>. HIDE DEF tk0
<1>. QED
  BY <1>1, <1>2, <1>3, CallIsMade, NoConts, YieldKeepsControl DEF Safe

(* Tasklet::Run without nesting, whoever calls it. *)
LEMMA RunTaskletKeepsControl ==
    ASSUME NEW C \in SUBSET Channels, Control(C), ~Nested,
           stack[active] \in Seq(PlainFrames(C)), NEW conts \in Seq(PlainFrames(C)),
           NEW t \in Tasklets \ {Main, active}, NoTrap \/ active = Main,
           NEW q0, Safe(C, q0), NEW tk0, TaskletsStay(tk0),
           RunTasklet(t, q0, tk0, conts), mgr' = mgr, ChannelsFit(ch')
    PROVE  Control(C)'
<1>1. stack[active] \in Rests(C, active)
  BY PlainRests
<1>2. CASE ~tk0[t].alive \/ IsBlocked(q0, t)
  <2>1. Answer(conts, "Error") /\ q' = q0 /\ tk' = tk0 /\ gl' = gl
    BY <1>2 DEF RunTasklet
  <2>. QED
    BY <1>1, <2>1, InPlace, AnswerKeepsControl, SimpleOutcomes DEF Safe
<1>3. CASE ~(~tk0[t].alive \/ IsBlocked(q0, t))
  <2>. DEFINE q1 == MoveToRunNext(q0, t)
  <2>1. Yield(q1, tk0, conts)
    BY <1>3 DEF RunTasklet
  <2>2. QueueStays(C, q1) /\ (Unmarked(q1) \/ MarksItself(q1))
    BY <1>1, SafeMove
  <2>. HIDE DEF q1
  <2>. QED
    BY <1>1, <2>1, <2>2, YieldKeepsControl
<1>. QED
  BY <1>2, <1>3

LEMMA FlatCalls ==
    ASSUME Flat, NEW op, CalledBy(op)
    PROVE  /\ op \notin {"switch", "remove_running"}
           /\ op \in {"run_scheduler", "run_n_tasklets", "run_for_time", "clear", "unblock_all"} => active = Main
           /\ op \in {"run", "kill", "throw"} => NoTrap \/ active = Main
           /\ op = "switch_trap" => ~NoTrap
           /\ op \in {"throw", "throw_queued", "throw_pending"} => ~NoThrow
BY DEF Flat, CalledBy, NoTrap, NoThrow, AllOps

LEMMA RunKeepsControl ==
    ASSUME NEW C \in SUBSET Channels, Control(C), Flat, NEW t \in Tasklets, Run(t)
    PROVE  Control(C)'
<1>1. Calls("run") /\ RunTasklet(t, q, tk, <<>>) /\ mgr' = mgr /\ ch' = ch
      /\ ~Nested /\ t \in Tasklets \ {Main, active}
  BY DEF Run, Flat
<1>2. NoTrap \/ active = Main
  BY <1>1, CallIsMade, FlatCalls
<1>. QED
  BY <1>1, <1>2, CallIsMade, NoConts, RunTaskletKeepsControl

(* A greenlet that is not running is replaced by one that has not begun. *)
LEMMA GreenletReplaced ==
    ASSUME NEW C, Control(C), stack[active] \in Rests(C, active),
           NEW t \in Tasklets, gl[t].state # "started",
           NEW g \in GreenletType, g.state \in {"unborn", "new"}
    PROVE  GreenletsStay(Replaced(t, g))
<1>. DEFINE y == Replaced(t, g)
<1>1. GreenletsFit(gl) /\ (active # Main => gl[active].state = "started")
  BY InPlace DEF GreenletsStay
<1>2. t # Main /\ (t = active => active = Main)
  BY <1>1 DEF GreenletsFit
<1>3. Landing(gl, t) \in Tasklets
  <2>1. gl[t].state = "dead" => gl[t].parent = Main
    BY <1>1, <1>2 DEF GreenletsFit
  <2>. QED
    BY <1>1, <2>1, LandsOnMain, MainAssumption
<1>4. \A u \in Tasklets :
        /\ y[u] \in GreenletType
        /\ u # t => y[u].state = gl[u].state /\ (gl[u].parent # t => y[u] = gl[u])
        /\ u = t => y[u] = g
  <2>. SUFFICES ASSUME NEW u \in Tasklets
                PROVE  /\ y[u] \in GreenletType
                       /\ u # t => y[u].state = gl[u].state /\ (gl[u].parent # t => y[u] = gl[u])
                       /\ u = t => y[u] = g
    OBVIOUS
  <2>1. gl[u] \in GreenletType
    BY <1>1 DEF GreenletsFit
  <2>2. y[u] = IF u = t THEN g
               ELSE IF gl[u].parent = t THEN [gl[u] EXCEPT !.parent = Landing(gl, t)]
               ELSE gl[u]
    BY DEF Replaced
  <2>3. [gl[u] EXCEPT !.parent = Landing(gl, t)] \in GreenletType
        /\ [gl[u] EXCEPT !.parent = Landing(gl, t)].state = gl[u].state
    BY <1>3, <2>1 DEF GreenletType
  <2>. HIDE DEF y
  <2>. QED
    BY <2>1, <2>2, <2>3
<1>5. y \in [Tasklets -> GreenletType]
  <2>1. y = [u \in Tasklets |-> y[u]]
    BY DEF Replaced
  <2>. HIDE DEF y
  <2>. QED
    BY <1>4, <2>1
<1>. HIDE DEF y
<1>6. y[Main].state = "started" /\ (active # Main => y[active].state = "started")
  BY <1>1, <1>2, <1>4, MainAssumption, InPlace DEF GreenletsFit
<1>7. ASSUME NEW u \in Tasklets \ {Main}, y[u].state \in {"started", "dead"}
      PROVE  y[u].parent = Main
  <2>1. u # t
    BY <1>4, <1>7
  <2>2. gl[u].state \in {"started", "dead"}
    BY <1>4, <1>7, <2>1
  <2>3. gl[u].parent = Main
    BY <1>1, <2>2 DEF GreenletsFit
  <2>. QED
    BY <1>2, <1>4, <2>1, <2>3
<1>8. GreenletsFit(y)
  BY <1>5, <1>6, <1>7 DEF GreenletsFit
<1>. QED
  BY <1>6, <1>8 DEF GreenletsStay, y

LEMMA NewGreenlets ==
    /\ Unborn \in GreenletType /\ Unborn.state = "unborn"
    /\ \A t \in Tasklets : LET g == [state |-> "new", parent |-> t]
                           IN  g \in GreenletType /\ g.state = "new"
BY DEF Unborn, GreenletType

LEMMA SetupKeepsControl ==
    ASSUME NEW C \in SUBSET Channels, Control(C), NEW t \in Tasklets, Setup(t)
    PROVE  Control(C)'
<1>1. Calls("setup") /\ Rebindable(t) /\ mgr' = mgr /\ ch' = ch
  BY DEF Setup
<1>2. gl[t].state # "started"
  BY <1>1 DEF Rebindable
<1>3. TaskletsStay(tk) /\ tk[t] \in TaskletType
  BY <1>1, CallIsMade DEF TaskletsStay, TaskletsFit
<1>4. CASE IsBlocked(q, t)
  <2>1. /\ gl' = Replaced(t, Unborn) /\ Answer(<<>>, "Error") /\ q' = q
        /\ tk' = [tk EXCEPT ![t].paused = TRUE, ![t].firstRun = TRUE]
    BY <1>4 DEF Setup
  <2>. DEFINE v == [tk[t] EXCEPT !.paused = TRUE, !.firstRun = TRUE]
  <2>2. v \in TaskletType /\ v.parent = tk[t].parent /\ v.exc = tk[t].exc
    BY <1>3 DEF TaskletType
  <2>3. tk' = [tk EXCEPT ![t] = v]
    BY <1>3, <2>1 DEF TaskletsStay, TaskletsFit
  <2>. HIDE DEF v
  <2>4. TaskletsStay(tk')
    BY <1>3, <2>2, <2>3, TaskletStays
  <2>5. GreenletsStay(gl')
    BY <1>1, <1>2, <2>1, CallIsMade, GreenletReplaced, NewGreenlets
  <2>. QED
    BY <1>1, <2>1, <2>4, <2>5, CallIsMade, NoConts, SimpleOutcomes, AnswerKeepsControl DEF Safe
<1>5. CASE ~IsBlocked(q, t)
  <2>1. /\ gl' = Rebirth(t) /\ Answer(<<>>, "ok") /\ q' = InsertTasklet(q, t)
        /\ tk' = [tk EXCEPT ![t].alive = TRUE, ![t].paused = FALSE, ![t].firstRun = TRUE]
    BY <1>5 DEF Setup
  <2>. DEFINE v == [tk[t] EXCEPT !.alive = TRUE, !.paused = FALSE, !.firstRun = TRUE]
  <2>2. v \in TaskletType /\ v.parent = tk[t].parent /\ v.exc = tk[t].exc
    BY <1>3 DEF TaskletType
  <2>3. tk' = [tk EXCEPT ![t] = v]
    BY <1>3, <2>1 DEF TaskletsStay, TaskletsFit
  <2>. HIDE DEF v
  <2>4. TaskletsStay(tk')
    BY <1>3, <2>2, <2>3, TaskletStays
  <2>5. GreenletsStay(gl')
    BY <1>1, <1>2, <2>1, CallIsMade, GreenletReplaced, NewGreenlets DEF Rebirth
  <2>6. Safe(C, q')
    BY <1>1, <2>1, CallIsMade, SafeSteps
  <2>. QED
    BY <1>1, <2>1, <2>4, <2>5, <2>6, CallIsMade, NoConts, SimpleOutcomes, AnswerKeepsControl
       DEF Safe
<1>. QED
  BY <1>4, <1>5

LEMMA BindKeepsControl ==
    ASSUME NEW C \in SUBSET Channels, Control(C), NEW t \in Tasklets, Bind(t)
    PROVE  Control(C)'
<1>1. /\ Calls("bind") /\ Rebindable(t) /\ mgr' = mgr /\ ch' = ch /\ q' = q
      /\ gl' = Rebirth(t) /\ Answer(<<>>, "ok")
      /\ tk' = [tk EXCEPT ![t].alive = TRUE, ![t].paused = TRUE, ![t].firstRun = TRUE]
  BY DEF Bind
<1>2. gl[t].state # "started"
  BY <1>1 DEF Rebindable
<1>3. TaskletsStay(tk) /\ tk[t] \in TaskletType
  BY <1>1, CallIsMade DEF TaskletsStay, TaskletsFit
<1>. DEFINE v == [tk[t] EXCEPT !.alive = TRUE, !.paused = TRUE, !.firstRun = TRUE]
<1>4. v \in TaskletType /\ v.parent = tk[t].parent /\ v.exc = tk[t].exc
  BY <1>3 DEF TaskletType
<1>5. tk' = [tk EXCEPT ![t] = v]
  BY <1>1, <1>3 DEF TaskletsStay, TaskletsFit
<1>. HIDE DEF v
<1>6. TaskletsStay(tk')
  BY <1>3, <1>4, <1>5, TaskletStays
<1>7. GreenletsStay(gl')
  BY <1>1, <1>2, CallIsMade, GreenletReplaced, NewGreenlets DEF Rebirth
<1>. QED
  BY <1>1, <1>6, <1>7, CallIsMade, NoConts, SimpleOutcomes, AnswerKeepsControl DEF Safe

LEMMA UnbindKeepsControl ==
    ASSUME NEW C \in SUBSET Channels, Control(C), NEW t \in Tasklets, Unbind(t)
    PROVE  Control(C)'
<1>1. Calls("unbind") /\ gl[t].state \in {"new", "dead"} /\ mgr' = mgr /\ ch' = ch /\ q' = q
  BY DEF Unbind
<1>2. CASE t = q.current \/ q.scheduled[t]
  <2>1. Answer(<<>>, "Error") /\ tk' = tk /\ gl' = gl
    BY <1>2 DEF Unbind
  <2>. QED
    BY <1>1, <2>1, CallIsMade, NoConts, SimpleOutcomes, AnswerKeepsControl DEF Safe
<1>3. CASE ~(t = q.current \/ q.scheduled[t])
  <2>1. /\ Answer(<<>>, "ok") /\ gl' = Replaced(t, Unborn)
        /\ tk' = [tk EXCEPT ![t].alive = FALSE]
    BY <1>3 DEF Unbind
  <2>2. TaskletsStay(tk) /\ tk[t] \in TaskletType
    BY <1>1, CallIsMade DEF TaskletsStay, TaskletsFit
  <2>. DEFINE v == [tk[t] EXCEPT !.alive = FALSE]
  <2>3. v \in TaskletType /\ v.parent = tk[t].parent /\ v.exc = tk[t].exc
    BY <2>2 DEF TaskletType
  <2>4. tk' = [tk EXCEPT ![t] = v]
    BY <2>1, <2>2
  <2>. HIDE DEF v
  <2>5. TaskletsStay(tk')
    BY <2>2, <2>3, <2>4, TaskletStays
  <2>6. GreenletsStay(gl')
    BY <1>1, <2>1, CallIsMade, GreenletReplaced, NewGreenlets
  <2>. QED
    BY <1>1, <2>1, <2>5, <2>6, CallIsMade, NoConts, SimpleOutcomes, AnswerKeepsControl DEF Safe
<1>. QED
  BY <1>2, <1>3

LEMMA InsertKeepsControl ==
    ASSUME NEW C \in SUBSET Channels, Control(C), NEW t \in Tasklets, Insert(t)
    PROVE  Control(C)'
<1>1. PICK op : Calls(op)
  BY DEF Insert
<1>2. mgr' = mgr /\ ch' = ch /\ gl' = gl
  BY DEF Insert
<1>3. CASE IsBlocked(q, t) \/ ~tk[t].alive
  <2>1. Answer(<<>>, "Error") /\ q' = q /\ tk' = tk
    BY <1>3 DEF Insert
  <2>. QED
    BY <1>1, <1>2, <2>1, CallIsMade, NoConts, SimpleOutcomes, AnswerKeepsControl DEF Safe
<1>4. CASE ~(IsBlocked(q, t) \/ ~tk[t].alive)
  <2>1. Answer(<<>>, "ok") /\ q' = InsertTasklet(q, t) /\ tk' = [tk EXCEPT ![t].paused = FALSE]
    BY <1>4 DEF Insert
  <2>2. TaskletsStay(tk) /\ tk[t] \in TaskletType
    BY <1>1, CallIsMade DEF TaskletsStay, TaskletsFit
  <2>. DEFINE v == [tk[t] EXCEPT !.paused = FALSE]
  <2>3. v \in TaskletType /\ v.parent = tk[t].parent /\ v.exc = tk[t].exc
    BY <2>2 DEF TaskletType
  <2>4. tk' = [tk EXCEPT ![t] = v]
    BY <2>1, <2>2
  <2>. HIDE DEF v
  <2>5. TaskletsStay(tk')
    BY <2>2, <2>3, <2>4, TaskletStays
  <2>6. Safe(C, q')
    BY <1>1, <2>1, CallIsMade, SafeSteps
  <2>. QED
    BY <1>1, <1>2, <2>1, <2>5, <2>6, CallIsMade, NoConts, SimpleOutcomes, AnswerKeepsControl
       DEF Safe
<1>. QED
  BY <1>3, <1>4

LEMMA RemoveKeepsControl ==
    ASSUME NEW C \in SUBSET Channels, Control(C), Flat, NEW t \in Tasklets, Remove(t)
    PROVE  Control(C)' /\ t \notin {Main, active}
<1>1. Calls("remove") /\ ~InARun(t)
  <2>1. Calls(IF InARun(t) THEN "remove_running" ELSE "remove")
    BY DEF Remove
  <2>2. ~Calls("remove_running")
    BY CallIsMade, FlatCalls
  <2>. QED
    BY <2>1, <2>2
<1>2. mgr' = mgr /\ ch' = ch /\ gl' = gl /\ Answer(<<>>, "ok")
  BY DEF Remove
<1>3. t \notin {Main, active}
  <2>1. t # active
    BY <1>1 DEF InARun
  <2>2. ASSUME active # Main PROVE InARun(Main)
    <3>1. AtRun("in") /\ (stack[Main] \in Rests(C, Main) \/ Switches(C, Main, stack[Main]))
      BY <2>2, MainAssumption DEF Control, Runs, Stacks
    <3>2. stack[Main] # <<>> /\ Head(stack[Main]).k = "Run"
      BY <2>2 DEF Control, Runs, AtRun, TopIs
    <3>3. stack[Main] \notin Rests(C, Main)
      BY <3>2, TopOfRest
    <3>4. stack[Main] \in Seq(Switching(Main) \cup PlainFrames(C) \cup LimitedFrames)
      BY <3>1, <3>3 DEF Switches
    <3>5. 1 \in DOMAIN stack[Main] /\ stack[Main][1] = Head(stack[Main])
      BY <3>2, <3>4
    <3>. QED
      BY <3>2, <3>5 DEF InARun
  <2>. QED
    BY <1>1, <2>1, <2>2
<1>4. CASE q.scheduled[t]
  <2>1. q' = RemoveTasklet(q, t) /\ tk' = [tk EXCEPT ![t].paused = TRUE]
    BY <1>4 DEF Remove
  <2>2. TaskletsStay(tk) /\ tk[t] \in TaskletType
    BY <1>1, CallIsMade DEF TaskletsStay, TaskletsFit
  <2>. DEFINE v == [tk[t] EXCEPT !.paused = TRUE]
  <2>3. v \in TaskletType /\ v.parent = tk[t].parent /\ v.exc = tk[t].exc
    BY <2>2 DEF TaskletType
  <2>4. tk' = [tk EXCEPT ![t] = v]
    BY <2>1, <2>2
  <2>. HIDE DEF v
  <2>5. TaskletsStay(tk')
    BY <2>2, <2>3, <2>4, TaskletStays
  <2>6. Safe(C, q')
    BY <1>1, <1>3, <2>1, CallIsMade, SafeSteps
  <2>7. Control(C)'
    BY <1>1, <1>2, <2>1, <2>5, <2>6, CallIsMade, NoConts, SimpleOutcomes, AnswerKeepsControl
       DEF Safe
  <2>. QED
    BY <1>3, <2>7
<1>5. CASE ~q.scheduled[t]
  <2>1. q' = q /\ tk' = tk
    BY <1>5 DEF Remove
  <2>2. Control(C)'
    BY <1>1, <1>2, <2>1, CallIsMade, NoConts, SimpleOutcomes, AnswerKeepsControl DEF Safe
  <2>. QED
    BY <1>3, <2>2
<1>. QED
  BY <1>4, <1>5

--------------------------------------------------------------------------------
(* Channels. *)

LEMMA UnlinkedIsASequence ==
    ASSUME NEW S, NEW s \in Seq(S), NEW t
    PROVE  Unlinked(s, t) \in Seq(S)
<1>1. CASE \A i \in DOMAIN s : s[i] # t
  BY <1>1 DEF Unlinked
<1>2. CASE \E i \in DOMAIN s : s[i] = t
  <2>. DEFINE k == CHOOSE i \in DOMAIN s : s[i] = t
              z == [i \in 1..(Len(s) - 1) |-> IF i < k THEN s[i] ELSE s[i+1]]
  <2>1. Unlinked(s, t) = z
    BY <1>2 DEF Unlinked
  <2>2. Len(s) - 1 \in Nat /\ k \in 1..Len(s) /\ \A i \in 1..Len(s) : s[i] \in S
    BY <1>2
  <2>. HIDE DEF k
  <2>3. \A i \in 1..(Len(s) - 1) : (IF i < k THEN s[i] ELSE s[i+1]) \in S
    <3>1. ASSUME NEW i \in 1..(Len(s) - 1) PROVE i \in 1..Len(s) /\ i + 1 \in 1..Len(s)
      BY <2>2
    <3>. QED
      BY <2>2, <3>1
  <2>4. z \in [1..(Len(s) - 1) -> S]
    BY <2>3
  <2>. QED
    BY <2>1, <2>2, <2>4, SeqDef
<1>. QED
  BY <1>1, <1>2

LEMMA ChannelKeepsItsType ==
    ASSUME NEW x \in ChannelType(Tasklets), NEW t \in Tasklets, NEW dir
    PROVE  /\ RemoveTaskletFromBlocked(x, t, dir) \in ChannelType(Tasklets)
           /\ UpdateCloseState(x) \in ChannelType(Tasklets)
           /\ AddTaskletToWaitingToSend(x, t) \in ChannelType(Tasklets)
           /\ AddTaskletToWaitingToReceive(x, t) \in ChannelType(Tasklets)
<1>. DEFINE New(r, s, n) == [x EXCEPT !.recv = r, !.send = s, !.balance = n]
<1>1. x.recv \in Seq(Tasklets) /\ x.send \in Seq(Tasklets)
  BY DEF ChannelType
<1>2. /\ Unlinked(x.recv, t) \in Seq(Tasklets) /\ Unlinked(x.send, t) \in Seq(Tasklets)
      /\ Append(x.recv, t) \in Seq(Tasklets) /\ Append(x.send, t) \in Seq(Tasklets)
  BY <1>1, UnlinkedIsASequence
<1>3. x.balance + 1 \in Int /\ x.balance - 1 \in Int
  BY DEF ChannelType
<1>4. \A r, s \in Seq(Tasklets), n \in Int : New(r, s, n) \in ChannelType(Tasklets)
  BY DEF ChannelType
<1>5. RemoveTaskletFromBlocked(x, t, dir) \in ChannelType(Tasklets)
  <2>. DEFINE b == CASE dir = "SENDER" -> x.balance - 1
                     [] dir = "RECEIVER" -> x.balance + 1
                     [] OTHER -> x.balance
  <2>1. b \in Int
    BY <1>3 DEF ChannelType
  <2>2. RemoveTaskletFromBlocked(x, t, dir) =
           New(Unlinked(x.recv, t), Unlinked(x.send, t), b)
    BY DEF RemoveTaskletFromBlocked, ChannelType
  <2>. HIDE DEF b, New
  <2>. QED
    BY <1>2, <1>4, <2>1, <2>2
<1>6. UpdateCloseState(x) \in ChannelType(Tasklets)
  BY DEF UpdateCloseState, ChannelType
<1>7. AddTaskletToWaitingToSend(x, t) \in ChannelType(Tasklets)
  <2>1. AddTaskletToWaitingToSend(x, t) =
           New(x.recv, Append(x.send, t), x.balance + 1)
    BY DEF AddTaskletToWaitingToSend, ChannelType
  <2>. HIDE DEF New
  <2>. QED
    BY <1>1, <1>2, <1>3, <1>4, <2>1
<1>8. AddTaskletToWaitingToReceive(x, t) \in ChannelType(Tasklets)
  <2>1. AddTaskletToWaitingToReceive(x, t) =
           New(Append(x.recv, t), x.send, x.balance - 1)
    BY DEF AddTaskletToWaitingToReceive, ChannelType
  <2>. HIDE DEF New
  <2>. QED
    BY <1>1, <1>2, <1>3, <1>4, <2>1
<1>. QED
  BY <1>5, <1>6, <1>7, <1>8

LEMMA ChannelStays ==
    ASSUME NEW h, ChannelsFit(h), NEW c \in Channels, NEW v \in ChannelType(Tasklets)
    PROVE  ChannelsFit([h EXCEPT ![c] = v])
BY DEF ChannelsFit

--------------------------------------------------------------------------------
(* Kill and throw. *)

LEMMA KillTaskletKeepsControl ==
    ASSUME NEW C \in SUBSET Channels, Control(C), ~Nested,
           stack[active] \in Seq(PlainFrames(C)), NEW conts \in Seq(PlainFrames(C)),
           NEW t \in Tasklets, t = Main => active = Main,
           NEW pending, pending \/ NoTrap \/ active = Main,
           KillTasklet(t, pending, conts), mgr' = mgr
    PROVE  Control(C)'
<1>. DEFINE c == q.blockedOn[t]
            quiet == SetReschedule(Unblock(q, t), t, "NONE")
<1>1. stack[active] \in Rests(C, active)
  BY PlainRests
<1>2. /\ q.current = active /\ Safe(C, q) /\ TaskletsStay(tk) /\ GreenletsStay(gl)
      /\ ManagerFits(mgr) /\ ChannelsFit(ch) /\ tk[t] \in TaskletType
  BY <1>1, InPlace DEF TaskletsStay, TaskletsFit
<1>3. c \in C \cup {NULL}
  BY <1>2 DEF Safe, QueueStays, QueueFits
<1>4. CASE ~tk[t].alive \/ tk[t].killPending
  <2>1. Answer(conts, "ok") /\ q' = q /\ tk' = tk /\ gl' = gl /\ ch' = ch
    BY <1>4 DEF KillTasklet
  <2>. QED
    BY <1>2, <2>1, SimpleOutcomes, AnswerKeepsControl DEF Safe
<1>5. CASE ~(~tk[t].alive \/ tk[t].killPending) /\ q.current = t
  <2>1. /\ Answer(conts, "TaskletExit") /\ q' = Unblock(q, t) /\ gl' = gl /\ ch' = ch
        /\ tk' = [tk EXCEPT ![t].exc = "none"]
    BY <1>5 DEF KillTasklet
  <2>. DEFINE v == [tk[t] EXCEPT !.exc = "none"]
  <2>2. v \in TaskletType /\ v.parent = tk[t].parent /\ v.exc = "none"
    BY <1>2 DEF TaskletType
  <2>3. tk' = [tk EXCEPT ![t] = v]
    BY <2>1
  <2>. HIDE DEF v
  <2>4. TaskletsStay(tk')
    BY <1>2, <2>2, <2>3, TaskletStays
  <2>5. Safe(C, q')
    BY <1>1, <1>2, <2>1, SafeSteps
  <2>. QED
    BY <1>2, <2>1, <2>4, <2>5, SimpleOutcomes, AnswerKeepsControl DEF Safe
<1>6. CASE ~(~tk[t].alive \/ tk[t].killPending) /\ q.current # t /\ pending
  <2>1. /\ Answer(conts, "ok") /\ gl' = gl
        /\ q' = SetReschedule(InsertTasklet(Unblock(q, t), t), t, "NONE")
        /\ tk' = [tk EXCEPT ![t].exc = "TaskletExit", ![t].killPending = TRUE,
                            ![t].dir = IF c = NULL THEN @ ELSE "NEITHER"]
        /\ ch' = IF c = NULL THEN ch
                 ELSE [ch EXCEPT ![c] = RemoveTaskletFromBlocked(@, t, tk[t].dir)]
    BY <1>6 DEF KillTasklet
  <2>. DEFINE v == [tk[t] EXCEPT !.exc = "TaskletExit", !.killPending = TRUE,
                                 !.dir = IF c = NULL THEN @ ELSE "NEITHER"]
  <2>2. v \in TaskletType /\ v.parent = tk[t].parent /\ v.exc = "TaskletExit"
    BY <1>2 DEF TaskletType, Errors, Direction
  <2>3. tk' = [tk EXCEPT ![t] = v]
    BY <1>2, <2>1 DEF TaskletsStay, TaskletsFit
  <2>4. t # Main
    BY <1>2, <1>6
  <2>5. ChannelsFit(ch')
    <3>1. CASE c = NULL
      BY <1>2, <2>1, <3>1
    <3>2. CASE c # NULL
      <4>1. c \in Channels
        BY <1>3, <3>2
      <4>. DEFINE w == RemoveTaskletFromBlocked(ch[c], t, tk[t].dir)
      <4>2. w \in ChannelType(Tasklets)
        BY <1>2, <4>1, ChannelKeepsItsType DEF ChannelsFit
      <4>3. ch' = [ch EXCEPT ![c] = w]
        BY <1>2, <2>1, <3>2 DEF ChannelsFit
      <4>. HIDE DEF w
      <4>. QED
        BY <1>2, <4>1, <4>2, <4>3, ChannelStays
    <3>. QED
      BY <3>1, <3>2
  <2>. HIDE DEF v, c
  <2>6. TaskletsStay(tk')
    BY <1>2, <2>2, <2>3, <2>4, TaskletStays
  <2>7. Safe(C, q')
    <3>1. Safe(C, Unblock(q, t))
      BY <1>1, <1>2, SafeSteps
    <3>2. Safe(C, InsertTasklet(Unblock(q, t), t))
      BY <1>1, <3>1, SafeSteps
    <3>. QED
      BY <1>1, <2>1, <3>2, SafeSteps
  <2>. QED
    BY <1>2, <2>1, <2>5, <2>6, <2>7, SimpleOutcomes, AnswerKeepsControl DEF Safe
<1>7. CASE ~(~tk[t].alive \/ tk[t].killPending) /\ q.current # t /\ ~pending
  <2>. DEFINE v == [tk[t] EXCEPT !.exc = "TaskletExit"]
              tk0 == [tk EXCEPT ![t].exc = "TaskletExit"]
              rest == <<RestoreBlocked(t, c)>> \o conts
  <2>1. RunTasklet(t, quiet, tk0, rest) /\ ch' = ch
    BY <1>7 DEF KillTasklet
  <2>2. v \in TaskletType /\ v.parent = tk[t].parent /\ v.exc = "TaskletExit"
    BY <1>2 DEF TaskletType, Errors
  <2>3. tk0 = [tk EXCEPT ![t] = v]
    BY <1>2 DEF TaskletsStay, TaskletsFit
  <2>4. t \notin {Main, active}
    BY <1>2, <1>7
  <2>5. rest \in Seq(PlainFrames(C))
    <3>1. RestoreBlocked(t, c) \in PlainFrames(C)
      BY <1>3 DEF RestoreBlocked, PlainFrames
    <3>. QED
      BY <3>1, PutOnTop
  <2>6. Safe(C, quiet)
    <3>1. Safe(C, Unblock(q, t))
      BY <1>1, <1>2, SafeSteps
    <3>. QED
      BY <1>1, <3>1, SafeSteps
  <2>. HIDE DEF v, tk0, rest, c, quiet
  <2>7. TaskletsStay(tk0)
    BY <1>2, <2>2, <2>3, <2>4, TaskletStays
  <2>. QED
    BY <1>2, <1>7, <2>1, <2>4, <2>5, <2>6, <2>7, RunTaskletKeepsControl
<1>. QED
  BY <1>4, <1>5, <1>6, <1>7

LEMMA KillKeepsControl ==
    ASSUME NEW C \in SUBSET Channels, Control(C), Flat, NEW t \in Tasklets,
           NEW pending \in BOOLEAN, Kill(t, pending)
    PROVE  Control(C)'
<1>1. /\ Calls(IF pending THEN "kill_pending" ELSE "kill") /\ t # Main
      /\ KillTasklet(t, pending, <<>>) /\ mgr' = mgr /\ ~Nested
  BY DEF Kill, Flat
<1>2. stack[active] \in Seq(PlainFrames(C)) /\ CalledBy(IF pending THEN "kill_pending" ELSE "kill")
  BY <1>1, CallIsMade
<1>3. pending \/ NoTrap \/ active = Main
  BY <1>2, FlatCalls
<1>. QED
  BY <1>1, <1>2, <1>3, NoConts, KillTaskletKeepsControl

LEMMA ThrowKeepsControl ==
    ASSUME NEW C \in SUBSET Channels, Control(C), Flat, NEW t \in Tasklets,
           NEW pending \in BOOLEAN, Throw(t, pending)
    PROVE  Control(C)'
<1>. DEFINE op == IF ~pending THEN "throw" ELSE IF q.scheduled[t] THEN "throw_queued" ELSE "throw_pending"
            thrown == [tk EXCEPT ![t].exc = "Error"]
            undone == [tk EXCEPT ![t].exc = "none"]
            rest == IF IsBlocked(q, t) THEN <<RestoreBlocked(t, q.blockedOn[t])>> ELSE <<>>
<1>1. Calls(op) /\ t # Main /\ mgr' = mgr /\ ch' = ch /\ ~Nested
  BY DEF Throw, Flat
<1>2. op \in {"throw", "throw_queued", "throw_pending"} /\ (op = "throw" <=> ~pending)
  OBVIOUS
<1>. HIDE DEF op
<1>3. ~NoThrow /\ (pending \/ NoTrap \/ active = Main)
  BY <1>1, <1>2, CallIsMade, FlatCalls
<1>4. /\ q.current = active /\ Safe(C, q) /\ TaskletsStay(tk) /\ GreenletsStay(gl)
      /\ ManagerFits(mgr) /\ ChannelsFit(ch) /\ tk[t] \in TaskletType
      /\ stack[active] \in Seq(PlainFrames(C)) /\ stack[active] \in Rests(C, active)
  BY <1>1, CallIsMade DEF TaskletsStay, TaskletsFit
<1>5. TaskletsStay(undone)
  <2>. DEFINE v == [tk[t] EXCEPT !.exc = "none"]
  <2>1. v \in TaskletType /\ v.parent = tk[t].parent /\ v.exc = "none" /\ undone = [tk EXCEPT ![t] = v]
    BY <1>4 DEF TaskletType
  <2>. HIDE DEF v, undone
  <2>. QED
    BY <1>4, <2>1, TaskletStays
<1>6. TaskletsStay(thrown)
  <2>. DEFINE v == [tk[t] EXCEPT !.exc = "Error"]
  <2>1. v \in TaskletType /\ v.parent = tk[t].parent /\ thrown = [tk EXCEPT ![t] = v]
    BY <1>4 DEF TaskletType, Errors
  <2>. HIDE DEF v, thrown
  <2>. QED
    BY <1>1, <1>3, <1>4, <2>1, TaskletStays
<1>7. CASE q.current = t \/ (~tk[t].alive /\ (pending \/ ~IsBlocked(q, t)))
  <2>1. Answer(<<>>, "Error") /\ tk' = undone /\ q' = q /\ gl' = gl
    BY <1>7 DEF Throw
  <2>. QED
    BY <1>1, <1>4, <1>5, <2>1, SimpleOutcomes, NoConts, AnswerKeepsControl DEF Safe
<1>8. CASE ~(q.current = t \/ (~tk[t].alive /\ (pending \/ ~IsBlocked(q, t)))) /\ pending
  <2>1. Answer(<<>>, "ok") /\ q' = InsertTasklet(q, t) /\ tk' = thrown /\ gl' = gl
    BY <1>8 DEF Throw
  <2>2. Safe(C, q')
    BY <1>4, <2>1, SafeSteps
  <2>. QED
    BY <1>1, <1>4, <1>6, <2>1, <2>2, SimpleOutcomes, NoConts, AnswerKeepsControl DEF Safe
<1>9. CASE ~(q.current = t \/ (~tk[t].alive /\ (pending \/ ~IsBlocked(q, t)))) /\ ~pending
  <2>1. RunTasklet(t, Unblock(q, t), thrown, rest)
    BY <1>9 DEF Throw
  <2>2. rest \in Seq(PlainFrames(C))
    <3>1. q.blockedOn[t] \in C \cup {NULL}
      BY <1>4 DEF Safe, QueueStays, QueueFits
    <3>2. RestoreBlocked(t, q.blockedOn[t]) \in PlainFrames(C)
      BY <3>1 DEF RestoreBlocked, PlainFrames
    <3>. QED
      BY <3>2, NoConts
  <2>3. Safe(C, Unblock(q, t))
    BY <1>4, SafeSteps
  <2>4. t \notin {Main, active}
    BY <1>1, <1>4, <1>9
  <2>. HIDE DEF thrown, rest, undone
  <2>. QED
    BY <1>1, <1>3, <1>4, <1>6, <1>9, <2>1, <2>2, <2>3, <2>4, RunTaskletKeepsControl
<1>. QED
  BY <1>7, <1>8, <1>9

--------------------------------------------------------------------------------
(* The module functions, and what is left of a call when Run comes back. *)

LEMMA RunSchedulerKeepsControl ==
    ASSUME NEW C \in SUBSET Channels, Control(C), Flat, RunScheduler
    PROVE  Control(C)'
<1>. DEFINE f == RunFrame(Main, NULL, FALSE)
<1>1. /\ Calls("run_scheduler") /\ Push(<<RunFrame(q.current, NULL, FALSE)>>)
      /\ q' = q /\ tk' = tk /\ gl' = gl /\ mgr' = mgr /\ ch' = ch
  BY DEF RunScheduler
<1>2. active = Main /\ q.current = Main
  BY <1>1, CallIsMade, FlatCalls
<1>3. f \in Switching(active) /\ f.pc = "head"
  BY <1>2, NewFrames
<1>4. Continue(<<f>> \o stack[active], "none")
  BY <1>1, <1>2 DEF Push
<1>. HIDE DEF f
<1>5. stack[active] \in Rests(C, active)
  BY <1>1, CallIsMade
<1>6. Stays(C) /\ ret' \in Outcomes /\ SameLimits
  BY <1>3, <1>4, <1>5, PushStays DEF SameLimits
<1>7. LimitsMatchTheCall'
  BY <1>1, <1>6, LimitsStay
<1>. QED
  BY <1>1, <1>5, <1>6, <1>7, CallIsMade, StayingKeepsControl DEF Safe

(* A limited run is called: the wrapper waits below the loop. *)
LEMMA LimitedCallKeepsControl ==
    ASSUME NEW C \in SUBSET Channels, Control(C), Flat,
           NEW op \in {"run_n_tasklets", "run_for_time"}, Calls(op),
           NEW k \in Limited, Push(<<RunFrame(q.current, NULL, FALSE), Then(k, NULL)>>),
           q' = q, tk' = tk, gl' = gl, ch' = ch, ManagerFits(mgr'),
           mgr'.runType = IF k = "RunNTasklets" THEN "TASKLET_LIMITED" ELSE "TIME_LIMITED"
    PROVE  Control(C)'
<1>. DEFINE f == RunFrame(Main, NULL, FALSE)
            w == Then(k, NULL)
            r == <<w>>
<1>1. active = Main /\ q.current = Main /\ stack[active] = <<>>
  BY CallIsMade, FlatCalls
<1>2. f \in Switching(active) /\ f.pc = "head" /\ w \in LimitedFrames /\ w.k = k
  BY <1>1, NewFrames DEF Limited, Then
<1>3. r \in Rests(C, active) /\ \A j : Has(r, j) <=> j = k
  <2>. HIDE DEF w
  <2>1. r \in Rests(C, active)
    BY <1>1, <1>2 DEF Rests
  <2>2. DOMAIN r = {1} /\ r[1].k = k
    BY <1>2
  <2>. HIDE DEF r
  <2>. QED
    BY <2>1, <2>2 DEF Has
<1>4. Continue(<<f>> \o r, "none")
  <2>1. Continue(<<f, w>> \o <<>>, "none")
    BY <1>1 DEF Push
  <2>. HIDE DEF f, w
  <2>2. <<f, w>> \o <<>> = <<f>> \o <<w>>
    <3>1. <<f, w>> \in Seq({f, w}) /\ <<f, w>> # <<>>
      OBVIOUS
    <3>2. Head(<<f, w>>) = f /\ Tail(<<f, w>>) = <<w>>
      OBVIOUS
    <3>3. <<f, w>> = <<f>> \o <<w>>
      BY <3>1, <3>2, TopAndTail
    <3>4. <<f, w>> \o <<>> = <<f, w>>
      BY <3>1, ConcatEmptySeq
    <3>. QED
      BY <3>3, <3>4
  <2>. QED
    BY <2>1, <2>2
<1>. HIDE DEF f, w, r
<1>5. Stays(C) /\ ret' \in Outcomes /\ \A j \in Limited : Has(stack'[active], j) <=> j = k
  BY <1>2, <1>3, <1>4, PushStays
<1>6. LimitsMatchTheCall'
  <2>1. \A j \in Limited : Waiting(Main, j)' <=> j = k
    BY <1>1, <1>5 DEF Waiting, Has
  <2>. QED
    BY <2>1 DEF LimitsMatchTheCall, Limited
<1>7. stack[active] \in Rests(C, active)
  BY CallIsMade
<1>. QED
  BY <1>5, <1>6, <1>7, CallIsMade, StayingKeepsControl DEF Safe

LEMMA RunLimitedKeepsControl ==
    ASSUME NEW C \in SUBSET Channels, Control(C), Flat,
           (\E n \in 1..MaxLimit : RunNTasklets(n)) \/ RunTaskletsForTime
    PROVE  Control(C)'
<1>1. ManagerFits(mgr)
  BY DEF Control, Types
<1>2. ASSUME NEW n \in 1..MaxLimit, RunNTasklets(n) PROVE Control(C)'
  <2>1. /\ Calls("run_n_tasklets") /\ q' = q /\ tk' = tk /\ gl' = gl /\ ch' = ch
        /\ Push(<<RunFrame(q.current, NULL, FALSE), Then("RunNTasklets", NULL)>>)
        /\ mgr' = [mgr EXCEPT !.limit = n, !.runType = "TASKLET_LIMITED"]
    BY <1>2 DEF RunNTasklets
  <2>2. ManagerFits(mgr') /\ mgr'.runType = "TASKLET_LIMITED"
    <3>1. n \in -1..MaxLimit
      BY MaxLimitAssumption
    <3>. QED
      BY <1>1, <2>1, <3>1 DEF ManagerFits, ManagerType
  <2>. QED
    BY <2>1, <2>2, LimitedCallKeepsControl DEF Limited
<1>3. ASSUME RunTaskletsForTime PROVE Control(C)'
  <2>1. /\ Calls("run_for_time") /\ q' = q /\ tk' = tk /\ gl' = gl /\ ch' = ch
        /\ Push(<<RunFrame(q.current, NULL, FALSE), Then("RunTaskletsForTime", NULL)>>)
        /\ mgr' = [mgr EXCEPT !.firstTestSkipped = FALSE, !.runType = "TIME_LIMITED"]
    BY <1>3 DEF RunTaskletsForTime
  <2>2. ManagerFits(mgr') /\ mgr'.runType = "TIME_LIMITED"
    BY <1>1, <2>1 DEF ManagerFits, ManagerType
  <2>. QED
    BY <2>1, <2>2, LimitedCallKeepsControl DEF Limited
<1>. QED
  BY <1>2, <1>3

LEMMA SwitchTrapKeepsControl ==
    ASSUME NEW C \in SUBSET Channels, Control(C), Flat, NEW delta \in {-1, 1}, SwitchTrap(delta)
    PROVE  Control(C)'
<1>1. /\ Calls("switch_trap") /\ mgr.trap + delta \in 0..1 /\ Answer(<<>>, "ok")
      /\ mgr' = [mgr EXCEPT !.trap = @ + delta]
      /\ q' = q /\ tk' = tk /\ gl' = gl /\ ch' = ch
  BY DEF SwitchTrap
<1>2. ManagerFits(mgr') /\ mgr'.runType = mgr.runType /\ mgr'.stop = mgr.stop
  <2>1. ~NoTrap /\ mgr \in ManagerType
    BY <1>1, CallIsMade, FlatCalls DEF ManagerFits
  <2>. QED
    BY <1>1, <2>1 DEF ManagerFits, ManagerType
<1>3. Stays(C) /\ SameLimits /\ ret' \in Outcomes
  BY <1>1, CallIsMade, NoConts, SimpleOutcomes, AnswerStays
<1>4. LimitsMatchTheCall'
  BY <1>2, <1>3, LimitsStay
<1>. QED
  BY <1>1, <1>2, <1>3, <1>4, CallIsMade, StayingKeepsControl DEF Safe

LEMMA CatchKeepsControl ==
    ASSUME NEW C \in SUBSET Channels, Control(C), Catch
    PROVE  Control(C)'
<1>1. /\ stack[active] = <<>> /\ Answer(<<>>, "ok")
      /\ q' = q /\ tk' = tk /\ gl' = gl /\ mgr' = mgr /\ ch' = ch
  BY DEF Catch, Raising, InPython
<1>2. stack[active] \in Seq(PlainFrames(C)) /\ stack[active] \in Rests(C, active)
  BY <1>1, EmptyStack
<1>. QED
  BY <1>1, <1>2, InPlace, NoConts, SimpleOutcomes, AnswerKeepsControl DEF Safe

(* A call that waits for Run or Yield and sees it come back. *)
LEMMA RestOfACall ==
    ASSUME NEW C, Control(C), stack[active] # <<>>, Top.k \notin {"Run", "Yield"}
    PROVE  /\ stack[active] \in Rests(C, active)
           /\ Top \in PlainFrames(C) \/ (active = Main /\ Top \in LimitedFrames)
           /\ Top.k \notin {"Switch", "Switch.yield"}
           /\ Top.k \in Limited => active = Main /\ Top \in LimitedFrames
           /\ Top.k \notin Limited => Top \in PlainFrames(C) /\ stack[active] \in Seq(PlainFrames(C))
<1>1. stack[active] \in Rests(C, active)
  <2>1. active \in Tasklets
    BY DEF Control, Types
  <2>2. ~Switches(C, active, stack[active])
    BY DEF Switches, Switching, RunFrames, YieldFrames, Top
  <2>. QED
    BY <2>1, <2>2 DEF Control, Stacks
<1>2. /\ Top \in PlainFrames(C) \/ (active = Main /\ Top \in LimitedFrames)
      /\ Top.k \notin {"Switch", "Switch.yield"}
  BY <1>1, TopOfRest DEF Top
<1>3. Top.k \in Limited <=> Top \notin PlainFrames(C)
  BY <1>2, PlainKinds DEF Limited, LimitedFrames
<1>4. Top \in PlainFrames(C) => stack[active] \in Seq(PlainFrames(C))
  <2>1. ASSUME Top \in PlainFrames(C), NEW f \in LimitedFrames, stack[active] = <<f>> PROVE FALSE
    <3>1. Top = f
      BY <2>1 DEF Top
    <3>. QED
      BY <2>1, <3>1, PlainKinds DEF LimitedFrames
  <2>. QED
    BY <1>1, <2>1 DEF Rests
<1>. QED
  BY <1>1, <1>2, <1>3, <1>4

LEMMA SwitchIsNotCalled ==
    ASSUME NEW C, Control(C)
    PROVE  ~SwitchYields /\ ~SwitchReturnsToCaller
BY RestOfACall DEF SwitchYields, SwitchReturnsToCaller, AtThen

LEMMA RetIsAnOutcome == ASSUME NEW C, Control(C) PROVE ret \in Outcomes
BY DEF Control, Types

LEMMA YieldMainReturnsKeepsControl ==
    ASSUME NEW C \in SUBSET Channels, Control(C), YieldMainReturns
    PROVE  Control(C)'
<1>. DEFINE r == IF ret = "ok" /\ IsBlocked(q, Main) THEN "Error" ELSE ret
<1>1. /\ stack[active] # <<>> /\ Top.k = "Yield.main" /\ Return(r)
      /\ q' = q /\ tk' = tk /\ gl' = gl /\ mgr' = mgr /\ ch' = ch
  BY DEF YieldMainReturns, AtThen
<1>2. r \in Outcomes
  BY RetIsAnOutcome, SimpleOutcomes
<1>. HIDE DEF r
<1>3. stack[active] \in Rests(C, active)
  BY <1>1, RestOfACall
<1>. QED
  BY <1>1, <1>2, <1>3, InPlace, ReturnKeepsControl DEF Safe, Limited, Top

LEMMA KillReturnsKeepsControl ==
    ASSUME NEW C \in SUBSET Channels, Control(C), KillReturns
    PROVE  Control(C)'
<1>1. /\ stack[active] # <<>> /\ Top.k = "Kill" /\ Return(ret)
      /\ q' = IF ret \in Errors /\ Top.c # NULL THEN Block(q, Top.t, Top.c) ELSE q
      /\ tk' = tk /\ gl' = gl /\ mgr' = mgr /\ ch' = ch
  BY DEF KillReturns, AtThen
<1>2. stack[active] \in Rests(C, active) /\ Top \in PlainFrames(C)
  BY <1>1, RestOfACall DEF Limited
<1>3. Top.t \in Tasklets /\ Top.c \in C \cup {NULL}
  BY <1>1, <1>2 DEF PlainFrames
<1>4. Safe(C, q')
  BY <1>1, <1>2, <1>3, InPlace, SafeSteps
<1>. QED
  BY <1>1, <1>2, <1>4, InPlace, RetIsAnOutcome, ReturnKeepsControl DEF Safe, Limited, Top

LEMMA LimitedRunReturnsKeepsControl ==
    ASSUME NEW C \in SUBSET Channels, Control(C), LimitedRunReturns
    PROVE  Control(C)'
<1>1. /\ stack[active] # <<>> /\ Top.k \in Limited /\ Return(ret) /\ mgr' = Unlimited(mgr)
      /\ q' = q /\ tk' = tk /\ gl' = gl /\ ch' = ch
  BY DEF LimitedRunReturns, AtThen, Limited
<1>2. stack[active] \in Rests(C, active) /\ active = Main
  BY <1>1, RestOfACall DEF Limited
<1>3. Stays(C) /\ ret' \in Outcomes /\ stack'[active] \in Seq(PlainFrames(C))
  BY <1>1, <1>2, RetIsAnOutcome, ReturnStays
<1>4. ManagerFits(mgr') /\ mgr'.runType = "STANDARD" /\ ~mgr'.stop
  <2>1. mgr \in ManagerType /\ ManagerFits(mgr)
    BY DEF Control, Types, ManagerFits
  <2>. QED
    <3>1. -1 \in -1..MaxLimit
      BY MaxLimitAssumption
    <3>. QED
      BY <1>1, <2>1, <3>1 DEF ManagerFits, ManagerType, Unlimited
<1>5. LimitsMatchTheCall'
  <2>1. ~Waiting(Main, "RunNTasklets")' /\ ~Waiting(Main, "RunTaskletsForTime")'
    BY <1>2, <1>3, PlainRests DEF Waiting, Has
  <2>. QED
    BY <1>4, <2>1 DEF LimitsMatchTheCall
<1>. QED
  BY <1>1, <1>2, <1>3, <1>4, <1>5, InPlace, StayingKeepsControl DEF Safe

--------------------------------------------------------------------------------
(* Steps in the middle of Run and Yield. *)

LEMMA TaskletFits ==
    ASSUME NEW x, TaskletsFit(x), NEW t \in Tasklets, NEW v \in TaskletType,
           v.exc = "none" \/ v.exc = x[t].exc
    PROVE  LET y == [x EXCEPT ![t] = v]
           IN  TaskletsFit(y) /\ \A u \in Tasklets : y[u] = IF u = t THEN v ELSE x[u]
<1>. DEFINE y == [x EXCEPT ![t] = v]
<1>1. y \in [Tasklets -> TaskletType] /\ \A u \in Tasklets : y[u] = IF u = t THEN v ELSE x[u]
  BY DEF TaskletsFit
<1>. HIDE DEF y
<1>2. TaskletsFit(y)
  BY <1>1, MainAssumption DEF TaskletsFit
<1>. QED
  BY <1>1, <1>2 DEF y

(* What is on top where the running greenlet is in the middle of Run or Yield. *)
LEMMA InTheMiddle ==
    ASSUME NEW C, Control(C), stack[active] # <<>>, Top.k \in {"Run", "Yield"}
    PROVE  /\ active \in Tasklets /\ Switches(C, active, stack[active])
           /\ Top \in Switching(active) /\ Tail(stack[active]) \in Rests(C, active)
           /\ Top.k = "Run" <=> active = Main
           /\ active # Main => Top \in YieldFrames(active) /\ Top.t = active
           /\ active = Main => Top \in RunFrames /\ Top.base = Main
<1>1. active \in Tasklets /\ Switches(C, active, stack[active])
  <2>1. stack[active] \notin Rests(C, active)
    BY TopOfRest DEF Top
  <2>. QED
    BY <2>1 DEF Control, Types, Stacks
<1>2. Top \in Switching(active) /\ Tail(stack[active]) \in Rests(C, active)
  BY <1>1 DEF Switches, Top
<1>3. /\ active # Main => Top \in YieldFrames(active)
      /\ active = Main => Top \in RunFrames
  BY <1>2 DEF Switching
<1>4. /\ active # Main => Top.t = active /\ Top.k = "Yield"
      /\ active = Main => Top.base = Main /\ Top.k = "Run"
  BY <1>3 DEF RunFrames, YieldFrames
<1>. QED
  BY <1>1, <1>2, <1>3, <1>4

(* Whoever runs a tasklet is its parent, and waits for it. *)
LEMMA RunByMain ==
    ASSUME NEW C, Control(C), active # Main
    PROVE  /\ AtRun("in") /\ Target = active /\ q.current = active
           /\ q.scheduled[active] /\ tk[active].parent = Main
           /\ gl[active].state = "started" /\ gl[active].parent = Main
BY DEF Control, Runs, RunsOne, Types, GreenletsFit

(* Only one greenlet's stack changes; limits are tested, but not set. *)
OneStackChanges(C, s) ==
    /\ stack' = [stack EXCEPT ![active] = s]
    /\ s \in Rests(C, active) \/ Switches(C, active, s)
    /\ \A k \in Limited : Has(s, k) <=> Has(stack[active], k)
    /\ mgr'.runType = mgr.runType
    /\ mgr'.stop => mgr.stop \/ mgr.runType # "STANDARD"

LEMMA OneStackKeepsTheRest ==
    ASSUME NEW C, Control(C), NEW s, OneStackChanges(C, s)
    PROVE  /\ Stacks(C)' /\ LimitsMatchTheCall'
           /\ stack'[active] = s /\ \A t \in Tasklets \ {active} : stack'[t] = stack[t]
           /\ \/ active' = active \/ active = Main
              \/ active' = Main /\ (s # <<>> => Head(s).k = "Yield" /\ Head(s).pc = "in")
              => Suspended'
<1>1. active \in Tasklets /\ stack = [t \in Tasklets |-> stack[t]]
  BY DEF Control, Types, Stacks
<1>2. /\ stack' = [t \in Tasklets |-> stack'[t]]
      /\ stack'[active] = s /\ \A t \in Tasklets \ {active} : stack'[t] = stack[t]
  BY <1>1 DEF OneStackChanges
<1>3. Stacks(C)'
  <2>1. \A t \in Tasklets : stack'[t] \in Rests(C, t) \/ Switches(C, t, stack'[t])
    BY <1>2 DEF Control, Stacks, OneStackChanges
  <2>. QED
    BY <1>2, <2>1 DEF Stacks
<1>4. LimitsMatchTheCall'
  <2>1. \A k \in Limited : Waiting(Main, k)' <=> Waiting(Main, k)
    <3>1. \A k \in Limited : Has(stack'[Main], k) <=> Has(stack[Main], k)
      BY <1>2, MainAssumption DEF OneStackChanges
    <3>. QED
      BY <3>1 DEF Waiting, Has
  <2>. QED
    BY <2>1 DEF LimitsMatchTheCall, Control, Limited, OneStackChanges
<1>5. ASSUME \/ active' = active \/ active = Main
             \/ active' = Main /\ (s # <<>> => Head(s).k = "Yield" /\ Head(s).pc = "in")
      PROVE  Suspended'
  <2>1. Suspended
    BY DEF Control
  <2>. QED
    BY <1>2, <1>5, <2>1 DEF Suspended, AtYield, TopIs
<1>. QED
  BY <1>2, <1>3, <1>4, <1>5

(* The frame on top has moved on. *)
LEMMA TopMoves ==
    ASSUME NEW C, Control(C), stack[active] # <<>>, Top.k \in {"Run", "Yield"},
           NEW f \in Switching(active),
           stack' = [stack EXCEPT ![active] = <<f>> \o Tail(stack[active])],
           mgr'.runType = mgr.runType, mgr'.stop => mgr.stop \/ mgr.runType # "STANDARD"
    PROVE  /\ Stacks(C)' /\ LimitsMatchTheCall'
           /\ stack'[active] # <<>> /\ Head(stack'[active]) = f
           /\ Tail(stack'[active]) = Tail(stack[active])
           /\ \A t \in Tasklets \ {active} : stack'[t] = stack[t]
           /\ active' = active \/ active = Main \/ (active' = Main /\ f.pc = "in") => Suspended'
<1>. DEFINE s == <<f>> \o Tail(stack[active])
<1>1. active \in Tasklets /\ Tail(stack[active]) \in Rests(C, active) /\ Switches(C, active, stack[active])
  BY InTheMiddle
<1>2. /\ Switches(C, active, s) /\ s # <<>> /\ Head(s) = f /\ Tail(s) = Tail(stack[active])
      /\ \A k \in Limited : Has(s, k) <=> Has(Tail(stack[active]), k)
  BY <1>1, SwitchOnTop DEF Limited
<1>3. \A k \in Limited : Has(stack[active], k) <=> Has(Tail(stack[active]), k)
  BY <1>1, TopOfSwitch DEF Limited
<1>. HIDE DEF s
<1>4. OneStackChanges(C, s)
  BY <1>2, <1>3 DEF OneStackChanges, s
<1>5. active # Main => f.k = "Yield"
  BY DEF Switching, YieldFrames
<1>. QED
  BY <1>2, <1>4, <1>5, OneStackKeepsTheRest

(* A tasklet moves on in the middle of Yield, and stays the one that runs. *)
LEMMA YieldingKeepsControl ==
    ASSUME NEW C, Control(C), active # Main, active' = active, Types(C)', Stacks(C)', Suspended',
           LimitsMatchTheCall', stack'[Main] = stack[Main], Unmarked(q'),
           q'.current = active, q'.scheduled[active],
           tk'[active].parent = Main, gl'[active].state = "started"
    PROVE  Control(C)'
<1>1. /\ AtRun("in")' /\ Target' = active /\ ~AtRun("out")'
  BY RunByMain DEF AtRun, TopIs, Target
<1>2. Runs'
  BY <1>1 DEF Runs, RunsOne
<1>3. Marks'
  BY DEF Unmarked, Marks
<1>. QED
  BY <1>2, <1>3 DEF Control

(* Run or Yield returns. *)
LEMMA SwitchEndsKeepsControl ==
    ASSUME NEW C, Control(C), stack[active] # <<>>, Top.k \in {"Run", "Yield"},
           NEW r \in Outcomes, Return(r),
           QueueFits(C, q'), q'.current = active, active # Main => q'.scheduled[active],
           Unmarked(q'), TaskletsFit(tk'), active # Main => tk'[active].parent = Main,
           GreenletsStay(gl'), mgr' = mgr, ch' = ch
    PROVE  Control(C)'
<1>. DEFINE s == Tail(stack[active])
<1>1. active \in Tasklets /\ s \in Rests(C, active) /\ Switches(C, active, stack[active])
  BY InTheMiddle
<1>2. stack' = [stack EXCEPT ![active] = s] /\ active' = active /\ ret' \in Outcomes
  BY DEF Return, Continue, Outcomes
<1>3. \A k \in Limited : Has(stack[active], k) <=> Has(s, k)
  BY <1>1, TopOfSwitch DEF Limited
<1>. HIDE DEF s
<1>4. OneStackChanges(C, s)
  BY <1>1, <1>2, <1>3 DEF OneStackChanges
<1>5. /\ Stacks(C)' /\ LimitsMatchTheCall' /\ Suspended' /\ stack'[active] = s
      /\ \A t \in Tasklets \ {active} : stack'[t] = stack[t]
  BY <1>2, <1>4, OneStackKeepsTheRest
<1>6. Types(C)'
  BY <1>1, <1>2 DEF Control, Types, GreenletsStay
<1>7. CASE active # Main
  BY <1>2, <1>5, <1>6, <1>7, MainAssumption, YieldingKeepsControl DEF GreenletsStay
<1>8. CASE active = Main
  <2>1. ~RunsOne'
    <3>1. s # <<>> => Head(s).k # "Run"
      BY <1>1, TopOfRest
    <3>. QED
      BY <1>5, <1>8, <3>1 DEF RunsOne, AtRun, TopIs
  <2>2. Runs'
    BY <1>2, <1>8, <2>1 DEF Runs, RunsOne
  <2>3. Marks'
    BY DEF Unmarked, Marks
  <2>. QED
    BY <1>5, <1>6, <2>2, <2>3 DEF Control
<1>. QED
  BY <1>7, <1>8

(* Nobody is to come back behind the one it runs unless it is on its way. *)
LEMMA NobodyMarked ==
    ASSUME NEW C, Control(C), stack[active] # <<>>, Top.k \in {"Run", "Yield"},
           \/ ~NoTrap
           \/ active = Main /\ (Top.pc = "head" \/ ret # "ok" \/ q.current # Main)
           \/ active # Main /\ Top.pc # "head"
    PROVE  Unmarked(q)
<1>1. \A t \in Tasklets \ {Main} : ~ComesBackSecond(t)
  BY DEF ComesBackSecond, RunsOne, AtRun, AtYield, TopIs, Top
<1>. QED
  BY <1>1 DEF Control, Marks, Unmarked

(* Where the loop stands. *)
LEMMA InTheLoop ==
    ASSUME NEW C, Control(C), stack[active] # <<>>, Top.k = "Run"
    PROVE  /\ active = Main /\ stack[Main] # <<>> /\ Head(stack[Main]) = Top /\ Top.base = Main
           /\ Top.pc \in {"head", "in", "out"}
           /\ Top.pc = "head" => ~RunsOne /\ q.current = Main
           /\ Top.pc # "head" =>
                 /\ RunsOne /\ Target = Top.sw /\ Top.sw \in Tasklets \ {Main}
                 /\ q.scheduled[Top.sw] /\ tk[Top.sw].parent = Main
                 /\ q.current \in {Main, Top.sw}
<1>1. active = Main /\ Top \in RunFrames /\ Top.base = Main /\ Top = Head(stack[Main])
      /\ stack[Main] # <<>>
  BY InTheMiddle DEF Top
<1>2. Top.pc \in {"head", "in", "out"} /\ (Top.pc # "head" => Top.sw \in Tasklets \ {Main})
  BY <1>1 DEF RunFrames
<1>3. Top.pc = "head" => ~RunsOne
  BY <1>1 DEF RunsOne, AtRun, TopIs
<1>4. Top.pc # "head" => RunsOne /\ Target = Top.sw
  BY <1>1, <1>2 DEF RunsOne, AtRun, TopIs, Target
<1>. QED
  BY <1>1, <1>2, <1>3, <1>4 DEF Control, Runs

--------------------------------------------------------------------------------
(* The steps of Run and Yield. *)

LEMMA RunEndsKeepsControl ==
    ASSUME NEW C, Control(C), RunEnds \/ RunCannotAdopt
    PROVE  Control(C)'
<1>1. /\ stack[active] # <<>> /\ Top.k = "Run" /\ Top.pc = "head"
      /\ q' = q /\ tk' = tk /\ gl' = gl /\ mgr' = mgr /\ ch' = ch
      /\ \E r \in {"ok", "Error"} : Return(r)
  BY DEF RunEnds, RunCannotAdopt, AtFrame
<1>2. active = Main /\ q.current = Main
  BY <1>1, InTheLoop
<1>3. Unmarked(q)
  BY <1>1, <1>2, NobodyMarked
<1>4. GreenletsStay(gl) /\ QueueFits(C, q) /\ TaskletsFit(tk)
  BY <1>2 DEF GreenletsStay, Control, Types
<1>. QED
  BY <1>1, <1>2, <1>3, <1>4, SimpleOutcomes, SwitchEndsKeepsControl

LEMMA YieldReturnsKeepsControl ==
    ASSUME NEW C, Control(C), YieldReturns
    PROVE  Control(C)'
<1>1. /\ stack[active] # <<>> /\ Top.k = "Yield" /\ Top.pc = "out" /\ Return(ret)
      /\ q' = q /\ tk' = tk /\ gl' = gl /\ mgr' = mgr /\ ch' = ch
  BY DEF YieldReturns, AtFrame
<1>2. active # Main
  BY <1>1, InTheMiddle
<1>3. Unmarked(q)
  BY <1>1, <1>2, NobodyMarked
<1>4. GreenletsStay(gl) /\ QueueFits(C, q) /\ TaskletsFit(tk)
  BY <1>2, RunByMain DEF GreenletsStay, Control, Types
<1>. QED
  BY <1>1, <1>2, <1>3, <1>4, RunByMain, RetIsAnOutcome, SwitchEndsKeepsControl

LEMMA RunFailsKeepsControl ==
    ASSUME NEW C, Control(C), RunFails
    PROVE  Control(C)'
<1>. DEFINE x == Top.sw
<1>1. /\ stack[active] # <<>> /\ Top.k = "Run" /\ Top.pc = "out" /\ ret = "Error"
      /\ Return(ret) /\ mgr' = mgr /\ ch' = ch
  BY DEF RunFails, AtFrame
<1>2. /\ active = Main /\ RunsOne /\ Target = x /\ x \in Tasklets \ {Main} /\ q.scheduled[x]
      /\ tk[x].parent = Main /\ Main \in Tasklets
  BY <1>1, InTheLoop, MainAssumption
<1>3. Unmarked(q)
  BY <1>1, <1>2, NobodyMarked
<1>4. QueueFits(C, q) /\ TaskletsFit(tk) /\ GreenletsFit(gl)
  BY DEF Control, Types
<1>. DEFINE v == [tk[x] EXCEPT !.parent = NULL]
            tk1 == [tk EXCEPT ![x] = v]
            gl1 == Parented(gl, x, NULL)
<1>5. TaskletsFit(tk1)
  <2>1. v \in TaskletType /\ v.exc = tk[x].exc
    <3>1. tk[x] \in TaskletType
      BY <1>2, <1>4 DEF TaskletsFit
    <3>. QED
      BY <3>1 DEF TaskletType
  <2>. HIDE DEF v
  <2>. QED
    BY <1>2, <1>4, <2>1, TaskletFits
<1>6. GreenletsStay(gl1) /\ GreenletsStay(gl)
  <2>1. /\ gl1 \in [Tasklets -> GreenletType] /\ gl1[x].parent = Main
        /\ \A u \in Tasklets : gl1[u].state = gl[u].state /\ (u # x => gl1[u] = gl[u])
    BY <1>2, <1>4 DEF Parented, GreenletsFit, GreenletType
  <2>. HIDE DEF gl1
  <2>. QED
    BY <1>2, <1>4, <2>1 DEF GreenletsStay, GreenletsFit
<1>7. CASE tk[x].remove
  <2>. DEFINE c == SetCurrentTasklet(q, Main)
  <2>1. /\ q' = RemoveTasklet(c, x)
        /\ (tk' = tk1 \/ tk' = tk) /\ (gl' = gl1 \/ gl' = gl)
    <3>1. tk[x].parent # NULL
      BY <1>2, NullAssumption
    <3>2. /\ q' = RemoveTasklet(SetCurrentTasklet(q, tk[x].parent), x)
          /\ tk' = IF IsLinked(q, x) THEN [tk EXCEPT ![x].parent = NULL] ELSE tk
          /\ gl' = IF IsLinked(q, x) THEN gl1 ELSE gl
      BY <1>7, <3>1 DEF RunFails
    <3>. QED
      BY <1>2, <3>2
  <2>2. /\ Q!Good(c) /\ c.current = Main /\ c.scheduled = q.scheduled
        /\ c.reschedule = q.reschedule /\ c.blockedOn = q.blockedOn
    BY <1>2, <1>4, SetsCurrent DEF QueueFits
  <2>. HIDE DEF c
  <2>3. Removed(c, q', x)
    BY <1>2, <2>1, <2>2, RemoveRemoves
  <2>4. QueueFits(C, q') /\ q'.current = Main /\ Unmarked(q')
    BY <1>3, <1>4, <2>2, <2>3 DEF Removed, QueueFits, Unmarked
  <2>5. TaskletsFit(tk')
    <3>1. tk' = tk1 \/ tk' = tk
      BY <1>7, <1>2, NullAssumption DEF RunFails
    <3>. QED
      BY <1>4, <1>5, <3>1
  <2>6. GreenletsStay(gl')
    <3>1. gl' = gl1 \/ gl' = gl
      BY <1>7, <1>2, NullAssumption DEF RunFails
    <3>. QED
      BY <1>6, <3>1
  <2>. QED
    BY <1>1, <1>2, <2>4, <2>5, <2>6, RetIsAnOutcome, SwitchEndsKeepsControl
<1>8. CASE ~tk[x].remove
  <2>1. tk' = tk1 /\ gl' = gl1 /\ q' = q
    BY <1>8 DEF RunFails
  <2>2. q.current = Main
    <3>1. AtRun("out")
      BY <1>1, <1>2 DEF AtRun, TopIs, Top
    <3>. QED
      BY <1>1, <1>2, <1>8, <3>1 DEF Control, Runs
  <2>. QED
    BY <1>1, <1>2, <1>3, <1>4, <1>5, <1>6, <2>1, <2>2, RetIsAnOutcome, SwitchEndsKeepsControl
<1>. QED
  BY <1>7, <1>8

(* x, with some of its fields changed, and gl are what main's loop leaves. *)
LEMMA LoopKeepsControl ==
    ASSUME NEW C, Control(C), stack[active] # <<>>, Top.k = "Run", active' = Main,
           NEW f \in RunFrames,
           stack' = [stack EXCEPT ![active] = <<f>> \o Tail(stack[active])],
           mgr'.runType = mgr.runType, mgr'.stop => mgr.stop \/ mgr.runType # "STANDARD",
           Types(C)', Marks',
           \/ f.pc = "head" /\ q'.current = Main
           \/ /\ f.pc \in {"in", "out"} /\ q'.current \in {Main, f.sw} /\ q'.scheduled[f.sw]
              /\ tk'[f.sw].parent = Main
              /\ f.pc = "out" /\ ret' = "Error" => q'.current = Main \/ tk'[f.sw].remove
    PROVE  Control(C)'
<1>1. active = Main /\ f \in Switching(active)
  BY InTheLoop DEF Switching
<1>2. /\ Stacks(C)' /\ LimitsMatchTheCall' /\ Suspended'
      /\ stack'[Main] # <<>> /\ Head(stack'[Main]) = f
  BY <1>1, TopMoves
<1>3. f.k = "Run"
  BY DEF RunFrames
<1>4. Runs'
  BY <1>2, <1>3 DEF Runs, RunsOne, AtRun, TopIs, Target
<1>. QED
  BY <1>2, <1>4 DEF Control

LEMMA RunContinuesKeepsControl ==
    ASSUME NEW C, Control(C), RunContinues
    PROVE  /\ Control(C)'
           /\ Top.sw \in Tasklets \ {Main} /\ q.scheduled[Top.sw]
           /\ q' = ReturnToRunner(q, Top.sw, Main) /\ CameBack(q, q', Top.sw)
           /\ q.reschedule[Top.sw] = "FRONT_PLUS_ONE" => DropFromQueue(q, Top.sw).next[Main] # NULL
<1>. DEFINE x == Top.sw
            unblocked == Top.until /\ ~IsBlocked(q, Main)
            f == [Top EXCEPT !.pc = "head", !.sw = NULL, !.done = unblocked \/ x = Top.end]
<1>1. /\ stack[active] # <<>> /\ Top.k = "Run" /\ Top.pc = "out" /\ ret \in {"ok", "TaskletExit"}
      /\ q' = ReturnToRunner(q, x, tk[x].parent)
      /\ tk' = [tk EXCEPT ![x].exc = IF ret = "TaskletExit" THEN "none" ELSE @,
                          ![x].parent = IF tk[x].alive THEN @ ELSE NULL]
      /\ gl' = IF tk[x].alive THEN gl ELSE Parented(gl, x, NULL)
      /\ Continue(<<f>> \o Tail(stack[active]), "none") /\ mgr' = mgr /\ ch' = ch
  BY DEF RunContinues, AtFrame
<1>2. /\ active = Main /\ RunsOne /\ Target = x /\ x \in Tasklets \ {Main} /\ q.scheduled[x]
      /\ tk[x].parent = Main /\ Main \in Tasklets
  BY <1>1, InTheLoop, MainAssumption
<1>3. f \in RunFrames /\ f.pc = "head"
  <2>1. Top \in RunFrames
    BY <1>1, <1>2, InTheMiddle
  <2>2. (unblocked \/ x = Top.end) \in BOOLEAN
    OBVIOUS
  <2>. HIDE DEF unblocked, x
  <2>. QED
    BY <2>1, <2>2 DEF RunFrames
<1>4. QueueFits(C, q) /\ TaskletsFit(tk) /\ GreenletsFit(gl)
  BY DEF Control, Types
<1>5. \A t \in Tasklets \ {Main} : q.reschedule[t] = "FRONT_PLUS_ONE" =>
          t = x /\ \E u \in Tasklets \ {Main, t} : q.scheduled[u]
  BY <1>1, <1>2 DEF Control, Marks, ComesBackSecond
<1>. HIDE DEF x, f
<1>6. /\ CameBack(q, q', x)
      /\ q' = ReturnToRunner(q, x, Main)
      /\ q.reschedule[x] = "FRONT_PLUS_ONE" => DropFromQueue(q, x).next[Main] # NULL
  BY <1>1, <1>2, <1>4, <1>5, ReturnComesBack DEF QueueFits
<1>7. QueueFits(C, q') /\ q'.current = Main /\ Unmarked(q')
  BY <1>4, <1>5, <1>6 DEF CameBack, QueueFits, Unmarked
<1>8. TaskletsFit(tk')
  <2>. DEFINE v == [tk[x] EXCEPT !.exc = IF ret = "TaskletExit" THEN "none" ELSE @,
                                 !.parent = IF tk[x].alive THEN @ ELSE NULL]
  <2>1. tk[x] \in TaskletType
    BY <1>2, <1>4 DEF TaskletsFit
  <2>2. v \in TaskletType /\ (v.exc = "none" \/ v.exc = tk[x].exc)
    BY <2>1 DEF TaskletType
  <2>3. tk' = [tk EXCEPT ![x] = v]
    BY <1>1, <1>2, <1>4 DEF TaskletsFit
  <2>. HIDE DEF v
  <2>. QED
    BY <1>2, <1>4, <2>2, <2>3, TaskletFits
<1>9. GreenletsFit(gl')
  <2>. DEFINE gl1 == Parented(gl, x, NULL)
  <2>1. /\ gl1 \in [Tasklets -> GreenletType] /\ gl1[x].parent = Main
        /\ \A u \in Tasklets : gl1[u].state = gl[u].state /\ (u # x => gl1[u] = gl[u])
    BY <1>2, <1>4 DEF Parented, GreenletsFit, GreenletType
  <2>2. gl' = gl1 \/ gl' = gl
    BY <1>1
  <2>. HIDE DEF gl1
  <2>. QED
    BY <1>2, <1>4, <2>1, <2>2 DEF GreenletsFit
<1>10. /\ active' = Main /\ ret' \in Outcomes
       /\ stack' = [stack EXCEPT ![active] = <<f>> \o Tail(stack[active])]
  BY <1>1, <1>2 DEF Continue, Outcomes
<1>11. Types(C)'
  BY <1>1, <1>2, <1>7, <1>8, <1>9, <1>10 DEF Control, Types
<1>12. Marks'
  BY <1>7 DEF Marks, Unmarked
<1>13. Control(C)'
  BY <1>1, <1>3, <1>7, <1>10, <1>11, <1>12, LoopKeepsControl
<1>. QED
  BY <1>2, <1>6, <1>13 DEF x

LEMMA AfterSwitchFits ==
    ASSUME NEW C, Control(C), NEW x \in Tasklets, NEW r
    PROVE  /\ TaskletsFit(AfterSwitch(x, r))
           /\ \A u \in Tasklets : AfterSwitch(x, r)[u].parent = tk[u].parent
           /\ r # "ok" => AfterSwitch(x, r)[x].remove
<1>. DEFINE a == tk[x].alive /\ CameBackUnfinished(x)
            p == tk[x].paused \/ tk[x].tagged
            m == tk[x].remove \/ r # "ok"
            v == [tk[x] EXCEPT !.alive = a, !.paused = p, !.tagged = FALSE, !.remove = m]
<1>1. TaskletsFit(tk) /\ tk[x] \in TaskletType
  BY DEF Control, Types, TaskletsFit
<1>2. a \in BOOLEAN /\ p \in BOOLEAN /\ m \in BOOLEAN
  OBVIOUS
<1>3. AfterSwitch(x, r) = [tk EXCEPT ![x] = v]
  BY <1>1 DEF AfterSwitch, TaskletsFit
<1>4. r # "ok" => m
  OBVIOUS
<1>. HIDE DEF a, p, m
<1>5. v \in TaskletType /\ v.exc = tk[x].exc /\ v.parent = tk[x].parent /\ v.remove = m
  BY <1>1, <1>2 DEF TaskletType
<1>. HIDE DEF v
<1>. DEFINE y == [tk EXCEPT ![x] = v]
<1>6. TaskletsFit(y) /\ \A u \in Tasklets : y[u] = IF u = x THEN v ELSE tk[u]
  BY <1>1, <1>5, TaskletFits
<1>. HIDE DEF y
<1>7. AfterSwitch(x, r) = y
  BY <1>3 DEF y
<1>. QED
  BY <1>4, <1>5, <1>6, <1>7

LEMMA SwitchReturnsKeepsControl ==
    ASSUME NEW C, Control(C), Calm, SwitchReturns
    PROVE  Control(C)'
<1>. DEFINE x == Top.sw
            f == [Top EXCEPT !.pc = "out"]
            pending == tk[q.current].exc
            raised == [tk EXCEPT ![q.current].exc = "none"]
            back == AfterSwitch(x, ret)
<1>1. /\ stack[active] # <<>> /\ Top.k \in {"Run", "Yield"} /\ Top.pc = "in"
      /\ tk' = IF pending # "none" THEN raised ELSE back
      /\ Continue(<<f>> \o Tail(stack[active]), IF pending # "none" THEN pending ELSE ret)
      /\ q' = q /\ gl' = gl /\ mgr' = mgr /\ ch' = ch
  BY DEF SwitchReturns, Resumed
<1>2. x \in Tasklets /\ f \in Switching(active) /\ f.pc = "out" /\ f.sw = x /\ active \in Tasklets
  <2>1. Top \in Switching(active) /\ active \in Tasklets
    BY <1>1, InTheMiddle
  <2>. QED
    BY <1>1, <2>1, MainAssumption DEF Switching, RunFrames, YieldFrames
<1>3. /\ QueueFits(C, q) /\ TaskletsFit(tk) /\ GreenletsFit(gl) /\ ManagerFits(mgr) /\ ChannelsFit(ch)
      /\ ret \in Outcomes /\ q.current \in Tasklets
  BY DEF Control, Types, QueueFits, Q!Good
<1>4. TaskletsFit(raised) /\ \A u \in Tasklets :
         raised[u].parent = tk[u].parent /\ raised[u].remove = tk[u].remove
  <2>. DEFINE v == [tk[q.current] EXCEPT !.exc = "none"]
  <2>1. tk[q.current] \in TaskletType
    BY <1>3 DEF TaskletsFit
  <2>2. v \in TaskletType /\ v.exc = "none" /\ v.parent = tk[q.current].parent
        /\ v.remove = tk[q.current].remove
    BY <2>1 DEF TaskletType
  <2>3. raised = [tk EXCEPT ![q.current] = v]
    OBVIOUS
  <2>. HIDE DEF v, raised
  <2>. DEFINE y == [tk EXCEPT ![q.current] = v]
  <2>4. TaskletsFit(y) /\ \A u \in Tasklets : y[u] = IF u = q.current THEN v ELSE tk[u]
    BY <1>3, <2>2, TaskletFits
  <2>5. raised = y
    BY <2>3
  <2>. HIDE DEF y
  <2>. QED
    BY <2>2, <2>4, <2>5
<1>5. /\ TaskletsFit(back) /\ \A u \in Tasklets : back[u].parent = tk[u].parent
      /\ ret # "ok" => back[x].remove
  BY <1>2, AfterSwitchFits
<1>6. pending \in Outcomes
  <2>1. tk[q.current] \in TaskletType
    BY <1>3 DEF TaskletsFit
  <2>. QED
    BY <2>1 DEF TaskletType, Outcomes
<1>. HIDE DEF raised, back, pending, f
<1>7. /\ active' = active /\ ret' = IF pending # "none" THEN pending ELSE ret
      /\ stack' = [stack EXCEPT ![active] = <<f>> \o Tail(stack[active])]
  <2>1. <<f>> \o Tail(stack[active]) # <<>>
    <3>1. Switches(C, active, stack[active]) /\ Tail(stack[active]) \in Rests(C, active)
      BY <1>1, InTheMiddle
    <3>. QED
      BY <1>2, <3>1, SwitchOnTop
  <2>. QED
    BY <1>1, <2>1 DEF Continue
<1>8. TaskletsFit(tk') /\ \A u \in Tasklets : tk'[u].parent = tk[u].parent
  BY <1>1, <1>4, <1>5
<1>9. Types(C)'
  BY <1>1, <1>2, <1>3, <1>6, <1>7, <1>8 DEF Types
<1>10. CASE active # Main
  <2>1. Unmarked(q)
    BY <1>1, <1>10, NobodyMarked
  <2>2. Stacks(C)' /\ LimitsMatchTheCall' /\ Suspended' /\ stack'[Main] = stack[Main]
    BY <1>1, <1>2, <1>7, <1>10, TopMoves, MainAssumption
  <2>. QED
    BY <1>1, <1>2, <1>7, <1>8, <1>9, <1>10, <2>1, <2>2, RunByMain, YieldingKeepsControl
<1>11. CASE active = Main
  <2>1. /\ RunsOne /\ Target = x /\ x \in Tasklets \ {Main} /\ Top.k = "Run" /\ f \in RunFrames
        /\ q.scheduled[x] /\ tk[x].parent = Main /\ q.current \in {Main, x}
    <3>1. Top.k = "Run"
      BY <1>1, <1>11, InTheMiddle
    <3>. QED
      BY <1>1, <1>2, <1>11, <3>1, InTheLoop DEF Switching
  <2>2. q.current = Main => pending = "none"
    BY <1>3 DEF pending, TaskletsFit
  <2>3. Marks'
    <3>. SUFFICES ASSUME NEW t \in Tasklets \ {Main}, q.reschedule[t] = "FRONT_PLUS_ONE"
                  PROVE  ComesBackSecond(t)'
      BY <1>1 DEF Marks
    <3>1. /\ NoTrap /\ \E u \in Tasklets \ {Main, t} : q.scheduled[u]
          /\ Target = t /\ q.current = Main /\ ret = "ok"
      <4>1. ComesBackSecond(t)
        BY DEF Control, Marks
      <4>. QED
        BY <1>11, <4>1 DEF ComesBackSecond
    <3>2. ret' = "ok" /\ active' = Main
      BY <1>7, <1>11, <2>2, <3>1
    <3>3. RunsOne' /\ Target' = t
      <4>1. stack'[Main] # <<>> /\ Head(stack'[Main]) = f
        BY <1>1, <1>2, <1>7, <1>11, TopMoves
      <4>2. f.k = "Run"
        BY <2>1 DEF RunFrames
      <4>. QED
        BY <1>2, <2>1, <3>1, <4>1, <4>2 DEF RunsOne, AtRun, TopIs, Target
    <3>. QED
      BY <1>1, <3>1, <3>2, <3>3 DEF ComesBackSecond
  <2>4. ret' = "Error" => q.current = Main \/ tk'[x].remove
    <3>. SUFFICES ASSUME ret' = "Error", q.current # Main PROVE tk'[x].remove
      OBVIOUS
    <3>1. pending # "Error"
      <4>1. AtRun("in")
        BY <1>1, <1>11, <2>1 DEF AtRun, TopIs, Top
      <4>. QED
        BY <1>11, <4>1 DEF Calm, pending
    <3>2. pending = "none" /\ ret = "Error"
      BY <1>7, <3>1
    <3>. QED
      BY <1>1, <1>5, <3>2
  <2>. QED
    BY <1>1, <1>2, <1>7, <1>8, <1>9, <1>11, <2>1, <2>3, <2>4, LoopKeepsControl
<1>. QED
  BY <1>10, <1>11

(* Python code ends, and control falls back to main. *)
LEMMA DiesKeepsControl ==
    ASSUME NEW C, Control(C), stack[active] = <<>>, NEW r \in Outcomes, Dies(r)
    PROVE  Control(C)' /\ gl'[active].state = "dead"
<1>. DEFINE g == [gl EXCEPT ![active].state = "dead"]
<1>1. /\ active # Main /\ gl' = g /\ active' = Landing(g, g[active].parent) /\ ret' = r
      /\ q' = q /\ tk' = tk /\ stack' = stack /\ mgr' = mgr /\ ch' = ch
  BY DEF Dies
<1>2. active \in Tasklets /\ GreenletsFit(gl) /\ stack[active] \in Rests(C, active)
  BY EmptyStack DEF Control, Types
<1>3. /\ g \in [Tasklets -> GreenletType] /\ g[active].state = "dead"
      /\ \A u \in Tasklets : g[u].parent = gl[u].parent /\ (u # active => g[u] = gl[u])
  BY <1>2 DEF GreenletsFit, GreenletType
<1>. HIDE DEF g
<1>4. GreenletsFit(g)
  BY <1>1, <1>2, <1>3, RunByMain, MainAssumption DEF GreenletsFit
<1>5. active' = Main
  <2>1. g[active].parent = Main /\ g[Main].state = "started"
    BY <1>1, <1>3, <1>4, <1>2, RunByMain DEF GreenletsFit
  <2>. QED
    BY <1>1, <1>4, <2>1, MainAssumption, LandsOnMain
<1>6. Types(C)'
  BY <1>1, <1>4, <1>5, MainAssumption DEF Control, Types
<1>7. Stacks(C)' /\ LimitsMatchTheCall'
  BY <1>1 DEF Control, Stacks, LimitsMatchTheCall, Waiting
<1>8. Suspended'
  BY <1>1, <1>5, <1>2 DEF Control, Suspended, AtYield, TopIs
<1>9. Runs'
  <2>1. /\ AtRun("in")' /\ Target' = active /\ RunsOne' /\ ~AtRun("out")'
    BY <1>1, RunByMain DEF AtRun, TopIs, Target, RunsOne
  <2>. QED
    BY <1>1, <1>5, <2>1, RunByMain DEF Runs
<1>10. Marks'
  BY <1>1, <1>2, Here DEF Marks
<1>. QED
  BY <1>1, <1>3, <1>6, <1>7, <1>8, <1>9, <1>10 DEF Control

LEMMA YieldSwitchesKeepsControl ==
    ASSUME NEW C, Control(C), stack[active] # <<>>, Top.k = "Yield", Top.pc \in {"head", "out"},
           SwitchTo(Top, Main, q, tk, gl), mgr' = mgr, ch' = ch
    PROVE  /\ Control(C)' /\ (mgr.trap > 0 => active' = active)
           /\ q' = q \/ q' = SetCurrentTasklet(q, Main)
<1>. DEFINE t == active
            rest == Tail(stack[t])
            out == [Top EXCEPT !.pc = "out", !.sw = Main]
            in == [Top EXCEPT !.pc = "in", !.sw = Main]
<1>1. /\ t \in Tasklets \ {Main} /\ Top \in YieldFrames(t)
      /\ QueueFits(C, q) /\ TaskletsFit(tk) /\ GreenletsFit(gl) /\ ManagerFits(mgr) /\ ChannelsFit(ch)
  BY InTheMiddle DEF Control, Types
<1>2. /\ out \in Switching(t) /\ in \in Switching(t) /\ in.pc = "in"
  BY <1>1 DEF Switching, YieldFrames
<1>3. /\ AtRun("in") /\ Target = t /\ q.current = t /\ q.scheduled[t] /\ tk[t].parent = Main
      /\ gl[t].state = "started" /\ gl[Main].state = "started"
  BY <1>1, RunByMain DEF GreenletsFit
<1>4. Landing(gl, Main) = Main
  BY <1>1, <1>3, LandsOnMain, MainAssumption
<1>5. ~DiesUnstarted(tk, Main) /\ ~(tk[Main].firstRun /\ tk[Main].exc = "Error")
  BY <1>1 DEF DiesUnstarted, TaskletsFit
<1>6. CASE IsSwitchTrapped
  <2>1. Continue(<<out>> \o rest, "Error") /\ q' = q /\ tk' = tk /\ gl' = gl
    BY <1>6 DEF SwitchTo
  <2>. HIDE DEF out, in, rest
  <2>2. <<out>> \o rest # <<>>
    <3>1. rest \in Rests(C, active)
      BY InTheMiddle DEF rest
    <3>. QED
      BY <1>2, <3>1, SwitchOnTop
  <2>3. active' = active /\ ret' = "Error" /\ stack' = [stack EXCEPT ![active] = <<out>> \o rest]
    BY <2>1, <2>2 DEF Continue
  <2>4. Stacks(C)' /\ LimitsMatchTheCall' /\ Suspended' /\ stack'[Main] = stack[Main]
    BY <1>1, <1>2, <2>3, TopMoves, MainAssumption DEF rest
  <2>5. Types(C)'
    BY <1>1, <2>1, <2>3, SimpleOutcomes DEF Types
  <2>6. Unmarked(q)
    <3>1. ~NoTrap
      BY <1>1, <1>6 DEF IsSwitchTrapped, ManagerFits
    <3>. QED
      BY <3>1, NobodyMarked
  <2>. QED
    BY <1>1, <1>3, <2>1, <2>3, <2>4, <2>5, <2>6, YieldingKeepsControl
<1>7. CASE ~IsSwitchTrapped
  <2>. DEFINE v == [tk[Main] EXCEPT !.paused = FALSE, !.firstRun = FALSE]
  <2>1. /\ stack' = [stack EXCEPT ![active] = <<in>> \o Tail(@)] /\ active' = Main
        /\ ret' = IF gl[Main].state = "new" THEN "none" ELSE "ok"
        /\ q' = SetCurrentTasklet(q, Main)
        /\ tk' = [tk EXCEPT ![Main].paused = FALSE, ![Main].firstRun = FALSE]
        /\ gl' = [gl EXCEPT ![Main].state = "started"]
    BY <1>4, <1>5, <1>7 DEF SwitchTo
  <2>2. stack' = [stack EXCEPT ![active] = <<in>> \o rest] /\ ret' = "ok"
    BY <1>3, <2>1
  <2>3. /\ Q!Good(q') /\ q'.current = Main /\ q'.scheduled = q.scheduled
        /\ q'.reschedule = q.reschedule /\ q'.blockedOn = q.blockedOn
    BY <1>1, <2>1, SetsCurrent, MainAssumption DEF QueueFits
  <2>4. tk[Main] \in TaskletType
    BY <1>1, MainAssumption DEF TaskletsFit
  <2>5. v \in TaskletType /\ v.exc = tk[Main].exc /\ v.parent = tk[Main].parent
    BY <2>4 DEF TaskletType
  <2>6. tk' = [tk EXCEPT ![Main] = v]
    BY <1>1, <2>1, MainAssumption DEF TaskletsFit
  <2>. HIDE DEF v, in, out, rest
  <2>7. TaskletsFit(tk') /\ tk'[t].parent = Main
    <3>. DEFINE y == [tk EXCEPT ![Main] = v]
    <3>1. TaskletsFit(y) /\ \A u \in Tasklets : y[u] = IF u = Main THEN v ELSE tk[u]
      BY <1>1, <2>5, MainAssumption, TaskletFits
    <3>2. tk' = y
      BY <2>6
    <3>. HIDE DEF y
    <3>. QED
      BY <1>1, <1>3, <3>1, <3>2
  <2>8. gl' = gl
    BY <1>1, <1>3, <2>1 DEF GreenletsFit, GreenletType
  <2>9. Types(C)'
    BY <1>1, <2>1, <2>2, <2>3, <2>7, <2>8, MainAssumption, SimpleOutcomes DEF Types, QueueFits
  <2>10. Stacks(C)' /\ LimitsMatchTheCall' /\ Suspended' /\ stack'[Main] = stack[Main]
    BY <1>1, <1>2, <2>1, <2>2, TopMoves, MainAssumption DEF rest
  <2>11. AtRun("in")' /\ Target' = t /\ RunsOne' /\ ~AtRun("out")'
    BY <1>3, <2>10 DEF AtRun, TopIs, Target, RunsOne
  <2>12. Runs'
    BY <1>1, <1>3, <2>1, <2>3, <2>7, <2>11 DEF Runs
  <2>13. Marks'
    <3>. SUFFICES ASSUME NEW u \in Tasklets \ {Main}, q.reschedule[u] = "FRONT_PLUS_ONE"
                  PROVE  ComesBackSecond(u)'
      BY <2>3 DEF Marks
    <3>1. ComesBackSecond(u)
      BY DEF Control, Marks
    <3>2. u = t
      BY <1>1, <3>1 DEF ComesBackSecond
    <3>. QED
      BY <2>1, <2>2, <2>3, <2>11, <3>1, <3>2 DEF ComesBackSecond
  <2>14. ~(mgr.trap > 0)
    BY <1>7 DEF IsSwitchTrapped
  <2>. QED
    BY <2>1, <2>9, <2>10, <2>12, <2>13, <2>14 DEF Control
<1>. QED
  BY <1>6, <1>7

LEMMA YieldStepsKeepControl ==
    ASSUME NEW C, Control(C), YieldSwitches \/ YieldStaysBlocked
    PROVE  /\ Control(C)' /\ (mgr.trap > 0 => active' = active)
           /\ q' = q \/ q' = SetCurrentTasklet(q, Main)
<1>1. stack[active] # <<>> /\ Top.k = "Yield" /\ Top.pc \in {"head", "out"}
      /\ mgr' = mgr /\ ch' = ch
  BY DEF YieldSwitches, YieldStaysBlocked, AtFrame
<1>2. Top.t = active /\ tk[active].parent = Main /\ Main # NULL
  BY <1>1, InTheMiddle, RunByMain, NullAssumption, MainAssumption
<1>3. UnblockedAncestor(active) = Main
  BY <1>2, MainIsTheAncestor
<1>4. SwitchTo(Top, Main, q, tk, gl)
  BY <1>2, <1>3 DEF YieldSwitches, YieldStaysBlocked
<1>. QED
  BY <1>1, <1>4, YieldSwitchesKeepsControl

LEMMA LimitsAreTested ==
    ASSUME NEW m, ManagerFits(m), NEW expired \in BOOLEAN, NEW n, n = LimitTested(m, expired)
    PROVE  /\ ManagerFits(n) /\ n.runType = m.runType /\ n.trap = m.trap
           /\ n.stop => m.stop \/ m.runType # "STANDARD"
<1>. DEFINE left == IF m.limit > 0 THEN m.limit - 1 ELSE m.limit
<1>1. m \in ManagerType /\ left \in -1..MaxLimit
  BY MaxLimitAssumption DEF ManagerFits, ManagerType
<1>2. \/ n = m
      \/ m.runType = "TASKLET_LIMITED" /\ n = [m EXCEPT !.limit = left, !.stop = @ \/ left <= 0]
      \/ m.runType = "TIME_LIMITED" /\
            n = [m EXCEPT !.stop = @ \/ (expired /\ m.firstTestSkipped),
                          !.firstTestSkipped = @ \/ expired]
  BY <1>1 DEF LimitTested, ManagerType
<1>3. n \in ManagerType /\ n.runType = m.runType /\ n.trap = m.trap
  <2>1. CASE n = m
    BY <1>1, <2>1
  <2>2. CASE n = [m EXCEPT !.limit = left, !.stop = @ \/ left <= 0]
    <3>1. (m.stop \/ left <= 0) \in BOOLEAN
      OBVIOUS
    <3>. HIDE DEF left
    <3>. QED
      BY <1>1, <2>2, <3>1 DEF ManagerType
  <2>3. CASE n = [m EXCEPT !.stop = @ \/ (expired /\ m.firstTestSkipped),
                          !.firstTestSkipped = @ \/ expired]
    BY <1>1, <2>3 DEF ManagerType
  <2>. QED
    BY <1>2, <2>1, <2>2, <2>3
<1>4. n.stop => m.stop \/ m.runType # "STANDARD"
  BY <1>2
<1>. QED
  BY <1>3, <1>4 DEF ManagerFits

LEMMA RunSwitchesKeepsControl ==
    ASSUME NEW C, Control(C), RunSwitches
    PROVE  /\ Control(C)' /\ (mgr.trap > 0 => active' = active)
           /\ q.next[Main] \in Tasklets
           /\ q' = q \/ q' = SetCurrentTasklet(q, q.next[Main])
<1>. DEFINE x == q.next[Main]
            tk0 == Adopted(tk, x, Main)
            g0 == Parented(gl, x, Main)
            out == [Top EXCEPT !.pc = "out", !.sw = x]
            in == [Top EXCEPT !.pc = "in", !.sw = x]
            rest == Tail(stack[Main])
<1>1. stack[active] # <<>> /\ Top.k = "Run" /\ Top.pc = "head" /\ ~RunIsOver(Top) /\ ch' = ch
  BY DEF RunSwitches, AtFrame
<1>2. active = Main /\ Top.base = Main /\ ~RunsOne /\ q.current = Main
  BY <1>1, InTheLoop
<1>3. /\ QueueFits(C, q) /\ TaskletsFit(tk) /\ GreenletsFit(gl) /\ ManagerFits(mgr) /\ ChannelsFit(ch)
      /\ Main \in Tasklets
  BY MainAssumption DEF Control, Types
<1>4. x \in Tasklets \ {Main} /\ q.scheduled[x]
  <2>1. q.next[Main] # NULL
    BY <1>1, <1>2 DEF RunIsOver
  <2>. QED
    BY <1>3, <2>1, GoodQueue DEF QueueFits
<1>5. /\ ManagerFits(mgr') /\ mgr'.runType = mgr.runType
      /\ mgr'.stop => mgr.stop \/ mgr.runType # "STANDARD"
  <2>1. PICK expired \in BOOLEAN : mgr' = LimitTested(mgr, expired)
    BY DEF RunSwitches
  <2>. QED
    BY <1>3, <2>1, LimitsAreTested
<1>6. SwitchTo(Top, x, q, tk0, g0)
  BY <1>2 DEF RunSwitches
<1>7. Unmarked(q)
  BY <1>1, <1>2, NobodyMarked
<1>8. out \in RunFrames /\ out.pc = "out" /\ out.sw = x /\ in \in RunFrames /\ in.pc = "in" /\ in.sw = x
  <2>1. Top \in RunFrames
    BY <1>1, <1>2, InTheMiddle
  <2>. HIDE DEF x
  <2>. QED
    BY <1>4, <2>1 DEF RunFrames
<1>9. /\ TaskletsFit(tk0) /\ tk0[x].parent = Main /\ tk0[x].exc = tk[x].exc
      /\ tk0[x] \in TaskletType
  <2>. DEFINE v == [tk[x] EXCEPT !.parent = Main]
              y == [tk EXCEPT ![x] = v]
  <2>1. tk[x] \in TaskletType
    BY <1>3, <1>4 DEF TaskletsFit
  <2>2. v \in TaskletType /\ v.exc = tk[x].exc /\ v.parent = Main
    BY <1>3, <2>1 DEF TaskletType
  <2>3. tk0 = y
    BY DEF Adopted
  <2>. HIDE DEF v, tk0, x
  <2>4. TaskletsFit(y) /\ \A u \in Tasklets : y[u] = IF u = x THEN v ELSE tk[u]
    BY <1>3, <1>4, <2>2, TaskletFits
  <2>. HIDE DEF y
  <2>. QED
    BY <1>4, <2>2, <2>3, <2>4
<1>10. /\ GreenletsFit(g0) /\ g0[x].parent = Main /\ g0[x].state = gl[x].state
  <2>1. Main # NULL
    BY <1>3, NullAssumption
  <2>2. /\ g0 \in [Tasklets -> GreenletType] /\ g0[x].parent = Main /\ g0[x].state = gl[x].state
        /\ \A u \in Tasklets : u # x => g0[u] = gl[u]
    BY <1>3, <1>4, <2>1 DEF Parented, GreenletsFit, GreenletType
  <2>. HIDE DEF g0, x
  <2>. QED
    BY <1>3, <1>4, <2>2 DEF GreenletsFit
<1>. HIDE DEF x, tk0, g0, out, in
<1>11. \A f \in RunFrames : <<f>> \o rest # <<>>
  <2>1. rest \in Rests(C, Main)
    BY <1>1, <1>2, InTheMiddle
  <2>. QED
    BY <2>1, SwitchOnTop DEF Switching
<1>13. ASSUME NEW tk1, NEW r \in {"ok", "Error"}, TaskletsFit(tk1), tk1[x].parent = Main,
              Continue(<<out>> \o rest, r), q' = q, tk' = tk1, gl' = g0
       PROVE  Control(C)' /\ active' = active
  <2>1. active' = Main /\ ret' = r /\ stack' = [stack EXCEPT ![active] = <<out>> \o rest]
    BY <1>2, <1>8, <1>11, <1>13 DEF Continue
  <2>2. Types(C)'
    BY <1>3, <1>5, <1>10, <1>13, <1>1, <2>1, SimpleOutcomes DEF Types
  <2>3. Marks'
    BY <1>7, <1>13 DEF Marks, Unmarked
  <2>. QED
    BY <1>1, <1>2, <1>4, <1>5, <1>8, <1>13, <2>1, <2>2, <2>3, LoopKeepsControl
<1>14. CASE IsSwitchTrapped
  <2>1. Continue(<<out>> \o rest, "Error") /\ q' = q /\ tk' = tk0 /\ gl' = g0
    BY <1>2, <1>6, <1>14 DEF SwitchTo, out, rest
  <2>. QED
    BY <1>4, <1>9, <1>13, <2>1 DEF x
<1>15. CASE ~IsSwitchTrapped /\ DiesUnstarted(tk0, x)
  <2>. DEFINE v == [tk0[x] EXCEPT !.alive = FALSE]
              y == [tk0 EXCEPT ![x] = v]
  <2>1. Continue(<<out>> \o rest, "ok") /\ q' = q /\ tk' = DeadUnstarted(tk0, x) /\ gl' = g0
    BY <1>2, <1>6, <1>15 DEF SwitchTo, out, rest
  <2>2. DeadUnstarted(tk0, x) = y
    BY DEF DeadUnstarted
  <2>3. v \in TaskletType /\ v.exc = tk0[x].exc /\ v.parent = Main
    BY <1>9 DEF TaskletType
  <2>. HIDE DEF v
  <2>4. TaskletsFit(y) /\ y[x].parent = Main
    BY <1>4, <1>9, <2>3, TaskletFits
  <2>. HIDE DEF y
  <2>. QED
    BY <1>4, <1>13, <2>1, <2>2, <2>4 DEF x
<1>16. CASE ~IsSwitchTrapped /\ ~DiesUnstarted(tk0, x) /\ tk0[x].firstRun /\ tk0[x].exc = "Error"
  <2>. DEFINE v == [tk0[x] EXCEPT !.exc = "none", !.remove = TRUE]
              y == [tk0 EXCEPT ![x] = v]
  <2>1. /\ Continue(<<out>> \o rest, "Error") /\ q' = q /\ gl' = g0
        /\ tk' = [tk0 EXCEPT ![x].exc = "none", ![x].remove = TRUE]
    BY <1>2, <1>6, <1>16 DEF SwitchTo, out, rest
  <2>2. tk' = y
    BY <1>4, <1>9, <2>1 DEF TaskletsFit
  <2>3. v \in TaskletType /\ v.exc = "none" /\ v.parent = Main
    BY <1>9 DEF TaskletType
  <2>. HIDE DEF v
  <2>4. TaskletsFit(y) /\ y[x].parent = Main
    BY <1>4, <1>9, <2>3, TaskletFits
  <2>. HIDE DEF y
  <2>. QED
    BY <1>4, <1>13, <2>1, <2>2, <2>4 DEF x
<1>17. CASE ~IsSwitchTrapped /\ ~DiesUnstarted(tk0, x) /\ ~(tk0[x].firstRun /\ tk0[x].exc = "Error")
  <2>. DEFINE to == Landing(g0, x)
              v == [tk0[x] EXCEPT !.paused = FALSE, !.firstRun = FALSE]
              y == [tk0 EXCEPT ![x] = v]
  <2>1. /\ stack' = [stack EXCEPT ![active] = <<in>> \o Tail(@)]
        /\ active' = to
        /\ ret' = IF g0[to].state = "new" THEN "none" ELSE "ok"
        /\ q' = SetCurrentTasklet(q, x)
        /\ tk' = [tk0 EXCEPT ![x].paused = FALSE, ![x].firstRun = FALSE]
        /\ gl' = [g0 EXCEPT ![to].state = "started"]
    BY <1>6, <1>17 DEF SwitchTo, in
  <2>2. to = IF gl[x].state = "dead" THEN Main ELSE x
    BY <1>4, <1>10, LandsOnMain
  <2>. HIDE DEF to
  <2>3. /\ active' \in {Main, x} /\ ret' \in {"none", "ok"}
        /\ stack' = [stack EXCEPT ![active] = <<in>> \o Tail(stack[active])]
    BY <2>1, <2>2
  <2>4. /\ Q!Good(q') /\ q'.current = x /\ q'.scheduled = q.scheduled
        /\ q'.reschedule = q.reschedule /\ q'.blockedOn = q.blockedOn
    BY <1>3, <1>4, <2>1, SetsCurrent DEF QueueFits
  <2>5. TaskletsFit(tk') /\ tk'[x].parent = Main
    <3>1. tk' = y
      BY <1>4, <1>9, <2>1 DEF TaskletsFit
    <3>2. v \in TaskletType /\ v.exc = tk0[x].exc /\ v.parent = Main
      BY <1>9 DEF TaskletType
    <3>. HIDE DEF v
    <3>3. TaskletsFit(y) /\ y[x].parent = Main
      BY <1>4, <1>9, <3>2, TaskletFits
    <3>. HIDE DEF y
    <3>. QED
      BY <3>1, <3>3
  <2>6. GreenletsFit(gl') /\ gl'[to].state = "started"
    <3>1. to \in Tasklets /\ (to # Main => to = x)
      BY <1>3, <1>4, <2>2
    <3>2. /\ gl' \in [Tasklets -> GreenletType] /\ gl'[to].state = "started"
          /\ \A u \in Tasklets : gl'[u].parent = g0[u].parent /\ (u # to => gl'[u] = g0[u])
      BY <1>10, <2>1, <3>1 DEF GreenletsFit, GreenletType
    <3>3. gl'[Main].state = "started"
      BY <1>3, <1>10, <3>2 DEF GreenletsFit
    <3>4. ASSUME NEW u \in Tasklets \ {Main}, gl'[u].state \in {"started", "dead"}
          PROVE  gl'[u].parent = Main
      <4>1. CASE u = to
        BY <1>10, <3>1, <3>2, <4>1
      <4>2. CASE u # to
        BY <1>10, <3>2, <3>4, <4>2 DEF GreenletsFit
      <4>. QED
        BY <4>1, <4>2
    <3>. QED
      BY <3>2, <3>3, <3>4 DEF GreenletsFit
  <2>7. Types(C)'
    BY <1>1, <1>3, <1>4, <1>5, <2>3, <2>4, <2>5, <2>6, SimpleOutcomes DEF Types, QueueFits
  <2>8. Marks'
    BY <1>7, <2>4 DEF Marks, Unmarked
  <2>9. in \in Switching(active) /\ Top.k \in {"Run", "Yield"}
    BY <1>1, <1>2, <1>8 DEF Switching
  <2>10. /\ Stacks(C)' /\ LimitsMatchTheCall' /\ Suspended'
         /\ stack'[Main] # <<>> /\ Head(stack'[Main]) = in
    BY <1>1, <1>2, <1>5, <2>3, <2>9, TopMoves
  <2>11. in.k = "Run"
    BY <1>8 DEF RunFrames
  <2>12. AtRun("in")' /\ Target' = x /\ RunsOne' /\ ~AtRun("out")'
    BY <1>8, <2>10, <2>11 DEF RunsOne, AtRun, TopIs, Target
  <2>13. Runs'
    BY <1>4, <2>1, <2>3, <2>4, <2>5, <2>6, <2>12 DEF Runs
  <2>14. ~(mgr.trap > 0)
    BY <1>17 DEF IsSwitchTrapped
  <2>. QED
    BY <1>4, <2>1, <2>7, <2>8, <2>10, <2>13, <2>14 DEF Control, x
<1>. QED
  BY <1>14, <1>15, <1>16, <1>17

--------------------------------------------------------------------------------
(* Every step keeps control where it is. *)

LEMMA StutterKeepsControl ==
    ASSUME NEW C, Control(C), UNCHANGED vars
    PROVE  Control(C)'
BY DEF vars, Control, Types, Stacks, Suspended, Runs, Marks, LimitsMatchTheCall, RunsOne, AtRun,
       AtYield, TopIs, Target, ComesBackSecond, Waiting

LEMMA PythonKeepsControl ==
    ASSUME NEW C \in SUBSET Channels, Control(C), Flat, Python
    PROVE  Control(C)'
<1>1. ASSUME NEW t \in Tasklets,
             \/ Run(t) \/ Setup(t) \/ Bind(t) \/ Unbind(t) \/ Insert(t) \/ Remove(t) \/ Switch(t)
             \/ \E pending \in BOOLEAN : Kill(t, pending) \/ Throw(t, pending)
      PROVE  Control(C)'
  <2>1. ~Switch(t)
    BY CallIsMade, FlatCalls DEF Switch
  <2>. QED
    BY <1>1, <2>1, RunKeepsControl, SetupKeepsControl, BindKeepsControl, UnbindKeepsControl,
       InsertKeepsControl, RemoveKeepsControl, KillKeepsControl, ThrowKeepsControl
<1>2. ASSUME RunScheduler \/ (\E n \in 1..MaxLimit : RunNTasklets(n)) \/ RunTaskletsForTime
      PROVE  Control(C)'
  BY <1>2, RunSchedulerKeepsControl, RunLimitedKeepsControl
<1>3. ASSUME Finish \/ Raise \/ Propagate \/ Swallow PROVE Control(C)'
  <2>1. stack[active] = <<>> /\ \E r \in Outcomes : Dies(r)
    BY <1>3, RetIsAnOutcome, SimpleOutcomes
       DEF Finish, Raise, Propagate, Swallow, Calls, Running, Raising, InPython
  <2>. QED
    BY <2>1, DiesKeepsControl
<1>. QED
  BY <1>1, <1>2, <1>3, ScheduleKeepsControl, ScheduleRemoveKeepsControl, SwitchTrapKeepsControl,
     CatchKeepsControl DEF Python

LEMMA SchedulerKeepsControl ==
    ASSUME NEW C \in SUBSET Channels, Control(C), Calm, Scheduler
    PROVE  Control(C)'
BY SwitchReturnsKeepsControl, RunEndsKeepsControl, RunSwitchesKeepsControl,
   RunContinuesKeepsControl, RunFailsKeepsControl, YieldStepsKeepControl, YieldReturnsKeepsControl,
   YieldMainReturnsKeepsControl, SwitchIsNotCalled, KillReturnsKeepsControl,
   LimitedRunReturnsKeepsControl DEF Scheduler

LEMMA NextKeepsControl ==
    ASSUME NEW C \in SUBSET Channels, Control(C), Flat, Calm, [Next]_vars
    PROVE  Control(C)'
BY PythonKeepsControl, SchedulerKeepsControl, StutterKeepsControl DEF Next, MainIdle

LEMMA QuietIsCalm ==
    ASSUME NEW C, Control(C), NoThrow
    PROVE  Calm
<1>1. q.current \in Tasklets /\ TaskletsFit(tk)
  BY DEF Control, Types, QueueFits, Q!Good
<1>. QED
  BY <1>1 DEF Calm, TaskletsFit

LEMMA InitIsUnderControl ==
    ASSUME NEW C, Init
    PROVE  Control(C)
<1>1. QueueFits(C, q)
  <2>1. Q!Init
    BY DEF Init, Q!Init, InitQueue, Q!InitQueue
  <2>2. Q!Good(q)
    BY <2>1, RunQueueAssumptions, Q!InitIsGood
  <2>. QED
    BY <2>2 DEF QueueFits, Init, InitQueue
<1>2. TaskletsFit(tk)
  BY MainAssumption DEF Init, TaskletsFit, TaskletType, Direction, Errors
<1>3. GreenletsFit(gl)
  BY MainAssumption DEF Init, GreenletsFit, GreenletType
<1>4. ManagerFits(mgr)
  <2>1. -1 \in -1..MaxLimit
    BY MaxLimitAssumption
  <2>. QED
    BY <2>1 DEF Init, ManagerFits, ManagerType
<1>5. ChannelsFit(ch)
  BY DEF Init, ChannelsFit, InitChannel, ChannelType, Direction
<1>6. active = Main /\ ret = "none" /\ \A t \in Tasklets : stack[t] = <<>>
  BY DEF Init
<1>7. Types(C)
  BY <1>1, <1>2, <1>3, <1>4, <1>5, <1>6, MainAssumption, SimpleOutcomes DEF Types
<1>8. Stacks(C)
  BY <1>6, EmptyStack DEF Init, Stacks
<1>9. ~RunsOne
  BY <1>6, MainAssumption DEF RunsOne, AtRun, TopIs
<1>10. Suspended /\ Runs
  BY <1>6, <1>9 DEF Suspended, Runs, RunsOne, Init, InitQueue
<1>11. Marks
  BY DEF Init, InitQueue, Marks
<1>12. LimitsMatchTheCall
  BY <1>6, MainAssumption DEF Init, LimitsMatchTheCall, Waiting
<1>. QED
  BY <1>7, <1>8, <1>10, <1>11, <1>12 DEF Control

LEMMA ControlShows ==
    ASSUME NEW C, Control(C)
    PROVE  TypeOK /\ CurrentIsActive /\ RunnersWait
<1>1. TypeOK
  <2>1. q \in QueueType
    BY GoodQueue DEF Control, Types, QueueFits
  <2>2. \A c \in Channels : ch[c].preference \in Direction
    BY DEF Control, Types, ChannelsFit, ChannelType
  <2>3. DOMAIN stack = Tasklets
    BY DEF Control, Stacks
  <2>. QED
    BY <2>1, <2>2, <2>3
       DEF TypeOK, Control, Types, TaskletsFit, GreenletsFit, ManagerFits, Outcomes
<1>2. CurrentIsActive
  <2>1. InCode => stack[active] \in Rests(C, active)
    BY EmptyStack DEF InCode, Running, InPython
  <2>. QED
    BY <2>1, Here DEF CurrentIsActive
<1>3. RunnersWait
  <2>. SUFFICES ASSUME NEW t \in Tasklets \ {active}, stack[t] # <<>>, Head(stack[t]).k = "Run",
                       Head(stack[t]).pc = "in"
                PROVE  tk[Head(stack[t]).sw].parent = t
    BY DEF RunnersWait
  <2>1. t = Main
    BY DEF Control, Suspended, AtYield, TopIs
  <2>2. RunsOne
    BY <2>1 DEF RunsOne, AtRun, TopIs
  <2>. QED
    BY <2>1, <2>2 DEF Control, Runs, Target
<1>. QED
  BY <1>1, <1>2, <1>3

--------------------------------------------------------------------------------
(* The queue changes by steps of RunQueue only.                             *)

LEMMA SameQueueSteps ==
    /\ \A x, t : Unblock(x, t) = Queue!Unblock(x, t)
    /\ \A x, t, r : SetReschedule(x, t, r) = Queue!SetReschedule(x, t, r)
    /\ \A x, t, c : Block(x, t, c) = Queue!Block(x, t, c)
    /\ \A x, t : SetCurrentTasklet(x, t) = Queue!SetCurrentTasklet(x, t)
    /\ \A x, t : InsertTasklet(x, t) = Queue!InsertTasklet(x, t)
    /\ \A x, t : InsertTaskletToRunNext(x, t) = Queue!InsertTaskletToRunNext(x, t)
    /\ \A x, t : RemoveTasklet(x, t) = Queue!RemoveTasklet(x, t)
BY DEF Unblock, Queue!Unblock, IsLinked, Queue!IsLinked, SetReschedule, Queue!SetReschedule,
       Block, Queue!Block, SetCurrentTasklet, Queue!SetCurrentTasklet, InsertTasklet,
       Queue!InsertTasklet, InsertTaskletToRunNext, Queue!InsertTaskletToRunNext,
       RemoveTasklet, Queue!RemoveTasklet, SetIfAny, Queue!SetIfAny

LEMMA SameQueueMoves ==
    /\ \A x, t : DropFromQueue(x, t) = Queue!DropFromQueue(x, t)
    /\ \A x, t : MoveToRunNext(x, t) = Queue!MoveToRunNext(x, t)
    /\ \A x, t, p : ReturnToRunner(x, t, p) = Queue!ReturnToRunner(x, t, p)
<1>1. \A x, t : DropFromQueue(x, t) = Queue!DropFromQueue(x, t)
  BY SameQueueSteps DEF DropFromQueue, Queue!DropFromQueue
<1>2. \A x, t : InsertBehindFront(x, t) = Queue!InsertBehindFront(x, t)
  BY SameQueueSteps DEF InsertBehindFront, Queue!InsertBehindFront
<1>3. \A x, t : MoveToRunNext(x, t) = Queue!MoveToRunNext(x, t)
  BY SameQueueSteps DEF MoveToRunNext, Queue!MoveToRunNext
<1>4. \A x, t : ReinsertAsAsked(x, t) = Queue!ReinsertAsAsked(x, t)
  BY SameQueueSteps, <1>2 DEF ReinsertAsAsked, Queue!ReinsertAsAsked
<1>5. \A x, t, p : ReturnToRunner(x, t, p) = Queue!ReturnToRunner(x, t, p)
  BY SameQueueSteps, <1>1, <1>4 DEF ReturnToRunner, Queue!ReturnToRunner
<1>. QED
  BY <1>1, <1>3, <1>5

(* The queue as Insert and Run find it. *)
Awake(t) == {q, Unblock(q, t), SetReschedule(Unblock(q, t), t, "NONE")}

LEMMA InsertIsAStep ==
    ASSUME NEW t \in Tasklets, NEW q0 \in Awake(t), q' = q0 \/ q' = InsertTasklet(q0, t)
    PROVE  Queue!Next
<1>1. Awake(t) = Queue!Woken(t)
  BY SameQueueSteps DEF Awake, Queue!Woken
<1>2. q0 \in Queue!Woken(t) /\ (q' = q0 \/ q' = Queue!InsertTasklet(q0, t))
  BY <1>1, SameQueueSteps
<1>3. Queue!Mark(t) \/ Queue!Insert(t)
  BY <1>2 DEF Queue!Mark, Queue!Insert
<1>. QED
  BY <1>3 DEF Queue!Next

LEMMA InsertToDieIsAStep ==
    ASSUME NEW t \in Tasklets,
           q' = SetReschedule(InsertTasklet(Unblock(q, t), t), t, "NONE")
    PROVE  Queue!Next
<1>1. Queue!InsertToDie(t)
  BY SameQueueSteps DEF Queue!InsertToDie
<1>. QED
  BY <1>1 DEF Queue!Next

LEMMA WakingIsAStep ==
    ASSUME NEW t \in Tasklets, q.scheduled[q.current],
           q' = SetReschedule(InsertTaskletToRunNext(Unblock(q, t), t), q.current, "BACK")
    PROVE  Queue!Next
<1>1. Queue!WakeToRunNext(t)
  BY SameQueueSteps DEF Queue!WakeToRunNext
<1>. QED
  BY <1>1 DEF Queue!Next

LEMMA MovingIsAStep ==
    ASSUME NEW t \in Tasklets \ {Main}, t # q.current, q.scheduled[q.current],
           NEW q0 \in Awake(t), q' = MoveToRunNext(q0, t)
    PROVE  Queue!Next
<1>1. Awake(t) = Queue!Woken(t)
  BY SameQueueSteps DEF Awake, Queue!Woken
<1>2. q0 \in Queue!Woken(t) /\ q' = Queue!MoveToRunNext(q0, t)
  BY <1>1, SameQueueMoves
<1>3. Queue!RunFlat(t)
  BY <1>2 DEF Queue!RunFlat
<1>. QED
  BY <1>3 DEF Queue!Next

LEMMA MarkingIsAStep ==
    ASSUME NEW t \in Tasklets,
           \/ \E r \in RescheduleType : q' = SetReschedule(q, t, r)
           \/ \E c \in Channels : q' = Block(q, t, c)
           \/ q' = SetCurrentTasklet(q, t)
           \/ t # Main /\ q' = RemoveTasklet(q, t)
           \/ t # Main /\ q' = RemoveTasklet(SetCurrentTasklet(q, Main), t)
    PROVE  Queue!Next
<1>1. RescheduleType = Queue!RescheduleType
  BY DEF RescheduleType, Queue!RescheduleType
<1>2. Queue!Mark(t) \/ Queue!SwitchTo(t) \/ Queue!Remove(t) \/ Queue!Fail(t, Main)
  BY <1>1, SameQueueSteps DEF Queue!Mark, Queue!SwitchTo, Queue!Remove, Queue!Fail
<1>. QED
  BY <1>2, MainAssumption DEF Queue!Next

LEMMA ReturningIsAStep ==
    ASSUME NEW t \in Tasklets \ {Main}, q.scheduled[t], q.scheduled[Main],
           q.reschedule[t] = "FRONT_PLUS_ONE" => DropFromQueue(q, t).next[Main] # NULL,
           q' = ReturnToRunner(q, t, Main)
    PROVE  Queue!Next
<1>1. Queue!Return(t, Main)
  BY SameQueueMoves DEF Queue!Return
<1>. QED
  BY <1>1, MainAssumption DEF Queue!Next

(* Tasklet::Run without nesting changes the queue by one step. *)
LEMMA RunTaskletIsAStep ==
    ASSUME NEW C, Control(C), stack[active] \in Rests(C, active), ~Nested,
           NEW t \in Tasklets \ {Main, active}, NEW q0 \in Awake(t), NEW tk0, NEW conts,
           RunTasklet(t, q0, tk0, conts)
    PROVE  Queue!Next
<1>1. q.current = active /\ q.scheduled[q.current]
  BY InPlace, GoodQueue DEF Safe, QueueStays, QueueFits
<1>2. q' = q0 \/ q' = MoveToRunNext(q0, t)
  BY DEF RunTasklet, Yield
<1>. QED
  BY <1>1, <1>2, InsertIsAStep, MovingIsAStep

LEMMA KillTaskletIsAStep ==
    ASSUME NEW C, Control(C), stack[active] \in Rests(C, active), ~Nested,
           NEW t \in Tasklets, t = Main => active = Main, NEW pending, NEW conts,
           KillTasklet(t, pending, conts), t # Main \/ ~pending
    PROVE  q' = q \/ Queue!Next
<1>. DEFINE c == q.blockedOn[t]
            quiet == SetReschedule(Unblock(q, t), t, "NONE")
<1>1. q.current = active
  BY InPlace
<1>2. quiet \in Awake(t) /\ Unblock(q, t) \in Awake(t)
  BY DEF Awake
<1>3. CASE ~tk[t].alive \/ tk[t].killPending
  BY <1>3 DEF KillTasklet
<1>4. CASE ~(~tk[t].alive \/ tk[t].killPending) /\ q.current = t
  <2>1. q' = Unblock(q, t)
    BY <1>4 DEF KillTasklet
  <2>. QED
    BY <1>2, <2>1, InsertIsAStep
<1>5. CASE ~(~tk[t].alive \/ tk[t].killPending) /\ q.current # t /\ pending
  <2>1. q' = SetReschedule(InsertTasklet(Unblock(q, t), t), t, "NONE")
    BY <1>5 DEF KillTasklet
  <2>. QED
    BY <2>1, InsertToDieIsAStep
<1>6. CASE ~(~tk[t].alive \/ tk[t].killPending) /\ q.current # t /\ ~pending
  <2>1. RunTasklet(t, quiet, [tk EXCEPT ![t].exc = "TaskletExit"], <<RestoreBlocked(t, c)>> \o conts)
    BY <1>6 DEF KillTasklet
  <2>2. t \notin {Main, active}
    BY <1>1, <1>6
  <2>. HIDE DEF quiet
  <2>. QED
    BY <1>2, <2>1, <2>2, RunTaskletIsAStep
<1>. QED
  BY <1>3, <1>4, <1>5, <1>6

LEMMA CallsAreSteps ==
    ASSUME NEW C \in SUBSET Channels, Control(C), Flat, Python
    PROVE  q' = q \/ Queue!Next
<1>1. ~Nested
  BY DEF Flat
<1>2. ASSUME NEW op, Calls(op)
      PROVE  stack[active] \in Rests(C, active) /\ q.current = active /\ active \in Tasklets
  BY <1>2, CallIsMade
<1>3. \A t \in Tasklets : q \in Awake(t) /\ Unblock(q, t) \in Awake(t)
  BY DEF Awake
<1>4. ASSUME Schedule PROVE Queue!Next
  <2>1. Calls("schedule") /\ q' = SetReschedule(q, q.current, "BACK")
    BY <1>4 DEF Schedule, Yield
  <2>. QED
    BY <1>2, <2>1, MarkingIsAStep DEF RescheduleType
<1>5. ASSUME ScheduleRemove PROVE q' = q
  BY <1>5 DEF ScheduleRemove, Yield
<1>6. ASSUME NEW t \in Tasklets, Run(t) PROVE Queue!Next
  <2>1. Calls("run") /\ t \notin {Main, active} /\ RunTasklet(t, q, tk, <<>>)
    BY <1>1, <1>6 DEF Run
  <2>. QED
    BY <1>1, <1>2, <1>3, <2>1, RunTaskletIsAStep
<1>7. ASSUME NEW t \in Tasklets, Setup(t) \/ Bind(t) \/ Unbind(t) \/ Insert(t)
      PROVE  q' = q \/ Queue!Next
  <2>1. q' = q \/ q' = InsertTasklet(q, t)
    BY <1>7 DEF Setup, Bind, Unbind, Insert
  <2>. QED
    BY <1>3, <2>1, InsertIsAStep
<1>8. ASSUME NEW t \in Tasklets, Remove(t) PROVE q' = q \/ Queue!Next
  <2>1. q' = q \/ q' = RemoveTasklet(q, t)
    BY <1>8 DEF Remove
  <2>2. t # Main
    BY <1>8, RemoveKeepsControl
  <2>. QED
    BY <2>1, <2>2, MarkingIsAStep
<1>9. ASSUME NEW t \in Tasklets, Switch(t) PROVE FALSE
  BY <1>9, CallIsMade, FlatCalls DEF Switch
<1>10. ASSUME NEW t \in Tasklets, NEW pending \in BOOLEAN, Kill(t, pending)
       PROVE  q' = q \/ Queue!Next
  <2>1. (\E op : Calls(op)) /\ t # Main /\ KillTasklet(t, pending, <<>>)
    BY <1>10 DEF Kill
  <2>. QED
    BY <1>1, <1>2, <2>1, KillTaskletIsAStep
<1>11. ASSUME NEW t \in Tasklets, NEW pending \in BOOLEAN, Throw(t, pending)
       PROVE  q' = q \/ Queue!Next
  <2>. DEFINE thrown == [tk EXCEPT ![t].exc = "Error"]
              rest == IF IsBlocked(q, t) THEN <<RestoreBlocked(t, q.blockedOn[t])>> ELSE <<>>
  <2>1. (\E op : Calls(op)) /\ t # Main
    BY <1>11 DEF Throw
  <2>2. \/ q' = q \/ q' = InsertTasklet(q, t)
        \/ q.current # t /\ RunTasklet(t, Unblock(q, t), thrown, rest)
    BY <1>11 DEF Throw
  <2>. HIDE DEF thrown, rest
  <2>. QED
    BY <1>1, <1>2, <1>3, <2>1, <2>2, InsertIsAStep, RunTaskletIsAStep
<1>12. ASSUME \/ RunScheduler \/ (\E n \in 1..MaxLimit : RunNTasklets(n)) \/ RunTaskletsForTime
              \/ (\E delta \in {-1, 1} : SwitchTrap(delta))
              \/ Finish \/ Raise \/ Propagate \/ Swallow \/ Catch
       PROVE  q' = q
  BY <1>12 DEF RunScheduler, RunNTasklets, RunTaskletsForTime, SwitchTrap, Finish, Raise, Propagate,
               Swallow, Catch, Dies
<1>. QED
  BY <1>4, <1>5, <1>6, <1>7, <1>8, <1>9, <1>10, <1>11, <1>12 DEF Python

LEMMA RunStepsAreSteps ==
    ASSUME NEW C \in SUBSET Channels, Control(C), Calm, Scheduler
    PROVE  q' = q \/ Queue!Next
<1>1. Q!Good(q) /\ q.scheduled[Main] /\ Main \in Tasklets
  BY GoodQueue, MainAssumption DEF Control, Types, QueueFits
<1>2. ASSUME RunSwitches \/ YieldSwitches \/ YieldStaysBlocked PROVE q' = q \/ Queue!Next
  <2>1. q' = q \/ \E t \in Tasklets : q' = SetCurrentTasklet(q, t)
    BY <1>1, <1>2, RunSwitchesKeepsControl, YieldStepsKeepControl
  <2>. QED
    BY <2>1, MarkingIsAStep
<1>3. ASSUME RunContinues PROVE Queue!Next
  BY <1>1, <1>3, RunContinuesKeepsControl, ReturningIsAStep
<1>4. ASSUME RunFails PROVE q' = q \/ Queue!Next
  <2>1. stack[active] # <<>> /\ Top.k = "Run" /\ Top.pc = "out"
    BY <1>4 DEF RunFails, AtFrame
  <2>2. Top.sw \in Tasklets \ {Main} /\ tk[Top.sw].parent = Main /\ Main # NULL
    BY <2>1, InTheLoop, NullAssumption, MainAssumption
  <2>3. q' = q \/ q' = RemoveTasklet(SetCurrentTasklet(q, Main), Top.sw)
    BY <1>4, <2>2 DEF RunFails
  <2>. QED
    BY <2>2, <2>3, MarkingIsAStep
<1>5. ASSUME KillReturns PROVE q' = q \/ Queue!Next
  <2>1. /\ stack[active] # <<>> /\ Top.k = "Kill"
        /\ q' = IF ret \in Errors /\ Top.c # NULL THEN Block(q, Top.t, Top.c) ELSE q
    BY <1>5 DEF KillReturns, AtThen
  <2>2. Top.t \in Tasklets /\ Top.c \in C \cup {NULL}
    BY <2>1, RestOfACall DEF Limited, PlainFrames
  <2>. QED
    BY <2>1, <2>2, MarkingIsAStep
<1>6. ASSUME SwitchReturns \/ RunEnds \/ RunCannotAdopt \/ YieldReturns \/ YieldMainReturns \/ LimitedRunReturns
      PROVE  q' = q
  BY <1>6 DEF SwitchReturns, RunEnds, RunCannotAdopt, YieldReturns, YieldMainReturns, LimitedRunReturns
<1>. QED
  BY <1>2, <1>3, <1>4, <1>5, <1>6, SwitchIsNotCalled DEF Scheduler

LEMMA NextIsAStep ==
    ASSUME NEW C \in SUBSET Channels, Control(C), Flat, Calm, [Next]_vars
    PROVE  [Queue!Next]_q
BY CallsAreSteps, RunStepsAreSteps DEF Next, MainIdle, vars

LEMMA InitIsInit == Init => Queue!Init
BY DEF Init, Queue!Init, InitQueue, Queue!InitQueue

--------------------------------------------------------------------------------
(* Switch traps. *)

LEMMA CallsStayHere ==
    ASSUME NEW C \in SUBSET Channels, Control(C), Flat, Python
    PROVE  active' = active \/ gl'[active].state = "dead"
<1>1. \A conts, r : Answer(conts, r) \/ Return(r) \/ Push(conts) => active' = active
  BY DEF Answer, Return, Push, Continue
<1>2. \A q0, tk0, conts : Yield(q0, tk0, conts) => active' = active
  BY <1>1 DEF Yield
<1>3. \A t, q0, tk0, conts : RunTasklet(t, q0, tk0, conts) => active' = active
  BY <1>1, <1>2 DEF RunTasklet
<1>4. \A t, pending, conts : KillTasklet(t, pending, conts) => active' = active
  BY <1>1, <1>3 DEF KillTasklet
<1>5. ASSUME NEW t \in Tasklets, Run(t) \/ Setup(t) \/ Bind(t) \/ Unbind(t) \/ Insert(t) \/ Remove(t)
      PROVE  active' = active
  BY <1>1, <1>3, <1>5 DEF Run, Setup, Bind, Unbind, Insert, Remove
<1>6. ASSUME NEW t \in Tasklets, NEW pending \in BOOLEAN, Kill(t, pending) \/ Throw(t, pending)
      PROVE  active' = active
  BY <1>1, <1>3, <1>4, <1>6 DEF Kill, Throw
<1>7. ASSUME NEW t \in Tasklets, Switch(t) PROVE FALSE
  BY <1>7, CallIsMade, FlatCalls DEF Switch
<1>8. ASSUME RunScheduler \/ (\E n \in 1..MaxLimit : RunNTasklets(n)) \/ RunTaskletsForTime
      PROVE  active' = active
  BY <1>1, <1>8 DEF RunScheduler, RunNTasklets, RunTaskletsForTime
<1>9. ASSUME Schedule \/ ScheduleRemove \/ (\E delta \in {-1, 1} : SwitchTrap(delta)) \/ Catch
      PROVE  active' = active
  BY <1>1, <1>2, <1>9 DEF Schedule, ScheduleRemove, SwitchTrap, Catch
<1>10. ASSUME Finish \/ Raise \/ Propagate \/ Swallow PROVE gl'[active].state = "dead"
  <2>1. stack[active] = <<>> /\ \E r \in Outcomes : Dies(r)
    BY <1>10, RetIsAnOutcome, SimpleOutcomes
       DEF Finish, Raise, Propagate, Swallow, Calls, Running, Raising, InPython
  <2>. QED
    BY <2>1, DiesKeepsControl
<1>. QED
  BY <1>5, <1>6, <1>7, <1>8, <1>9, <1>10 DEF Python

LEMMA SwitchesAreTrapped ==
    ASSUME NEW C \in SUBSET Channels, Control(C), Scheduler, mgr.trap > 0
    PROVE  active' = active
<1>1. \A r : Return(r) => active' = active
  BY DEF Return, Continue
<1>2. ASSUME SwitchReturns \/ RunContinues PROVE active' = active
  BY <1>2 DEF SwitchReturns, RunContinues, Continue
<1>3. ASSUME \/ RunEnds \/ RunCannotAdopt \/ RunFails \/ YieldReturns \/ YieldMainReturns
             \/ KillReturns \/ LimitedRunReturns
      PROVE  active' = active
  BY <1>1, <1>3 DEF RunEnds, RunCannotAdopt, RunFails, YieldReturns, YieldMainReturns, KillReturns,
                    LimitedRunReturns
<1>. QED
  BY <1>2, <1>3, RunSwitchesKeepsControl, YieldStepsKeepControl, SwitchIsNotCalled DEF Scheduler

--------------------------------------------------------------------------------
(* What the flags of a tasklet say.  SwitchTo and Run guess from them how a *)
(* tasklet has come back, so they have to fit where it is, at every step.   *)

(* The calls that break the guesses: insert() of a queued tasklet and a     *)
(* pending throw at one leave a mark on a tasklet that is not on its way    *)
(* back, and so does a schedule() that is trapped.                          *)
Plain ==
    /\ NoTrap
    /\ AllOps \cap {"insert_queued", "throw_queued"} = {}

(* Where t is: running, and there about to leave or just woken; back in the *)
(* loop, before and after SwitchTo looks at its flags; or away.             *)
Where(t) ==
    IF active = t THEN IF AtYield(t, "head") THEN "leaving"
                       ELSE IF AtYield(t, "in") THEN "waking" ELSE "here"
    ELSE IF active = Main /\ AtRun("in") /\ Target = t THEN "back"
    ELSE IF active = Main /\ AtRun("out") /\ Target = t THEN "out"
    ELSE "away"

(* s and r: whether it is queued, and its mark; k: its flags; g: the state  *)
(* of its greenlet; at: where it is; o: what SwitchTo is handed or returns. *)
Fits(s, r, k, g, at, o) ==
    /\ ~k.transfer
    /\ g = "unborn" => ~k.alive /\ ~s
    /\ g = "new" => k.firstRun
    /\ g \in {"started", "dead"} => ~k.firstRun
    /\ k.exc # "none" => g # "dead" /\ (k.alive \/ k.firstRun)
    /\ g = "started" => k.alive
    /\ g = "dead" /\ at # "back" => ~k.alive
    /\ s /\ at \notin {"back", "out"} => k.alive
    /\ s \/ ~k.alive \/ g \notin {"new", "started"} \/ k.paused \/ k.remove
    /\ r # "NONE" => g = "started" /\ at \in {"leaving", "back", "out"}
    /\ k.tagged => g = "started" /\ at \in {"leaving", "back"}
    /\ at \in {"here", "leaving"} => k.exc = "none"
    /\ at \in {"here", "leaving", "waking"} => ~k.paused
    /\ at = "leaving" => r # "NONE" \/ k.tagged
    /\ at = "back" =>
          /\ ~k.paused /\ k.exc = "none" /\ g \in {"started", "dead"}
          /\ g = "started" => o = "ok" /\ (r # "NONE" \/ k.tagged)
    /\ at = "out" =>
          /\ g = "started" => o = "ok" /\ (r # "NONE" \/ k.paused)
          /\ g = "new" /\ o # "Error" => ~k.alive
          /\ o = "Error" => k.remove
          /\ o = "TaskletExit" => k.exc = "none"

Noted(t) == Fits(q.scheduled[t], q.reschedule[t], tk[t], gl[t].state, Where(t), ret)

(* Who has begun and is not running is suspended in the switch of its Yield. *)
Sleeps(t) == gl[t].state = "started" /\ active # t => AtYield(t, "in")

Flags == tk[Main].alive /\ \A t \in Tasklets \ {Main} : Noted(t) /\ Sleeps(t)

(* What o is matters only to those who are back. *)
LEMMA OutcomeOfTheLoop ==
    ASSUME NEW s, NEW r, NEW k, NEW g, NEW at, at \notin {"back", "out"}, NEW o1, NEW o2,
           Fits(s, r, k, g, at, o1)
    PROVE  Fits(s, r, k, g, at, o2)
BY DEF Fits

LEMMA WhereInACall ==
    ASSUME NEW C, Control(C), stack[active] \in Rests(C, active)
    PROVE  \A t \in Tasklets \ {Main} : Where(t) = IF t = active THEN "here" ELSE "away"
<1>1. \A pc : ~TopIs(active, "Run", pc) /\ ~TopIs(active, "Yield", pc)
  BY TopOfRest DEF TopIs
<1>. QED
  BY <1>1 DEF Where, AtRun, AtYield

LEMMA WhereAfterACall ==
    ASSUME NEW C, Control(C), Stays(C)
    PROVE  /\ \A t \in Tasklets \ {Main, active} : Where(t)' = "away"
           /\ active # Main /\ stack'[active] \in Rests(C, active) => Where(active)' = "here"
           /\ active # Main /\ AtHead(C) => Where(active)' = "leaving"
<1>1. active' = active
  BY DEF Stays
<1>2. stack'[active] \in Rests(C, active) \/ AtHead(C)
  BY DEF Stays
<1>3. stack'[active] \in Rests(C, active) =>
        \A k \in {"Run", "Yield"} : stack'[active] # <<>> => Head(stack'[active]).k # k
  BY TopOfRest
<1>4. AtHead(C) => stack'[active] # <<>> /\ Head(stack'[active]).pc = "head"
                   /\ Head(stack'[active]) \in Switching(active)
  BY DEF AtHead, Switches
<1>5. AtHead(C) /\ active # Main => Head(stack'[active]).k = "Yield"
  BY <1>4 DEF Switching, YieldFrames
<1>6. active = Main => ~AtRun("in")' /\ ~AtRun("out")'
  BY <1>1, <1>2, <1>3, <1>4 DEF AtRun, TopIs
<1>7. \A t \in Tasklets \ {Main, active} : Where(t)' = "away"
  BY <1>1, <1>6 DEF Where
<1>8. ASSUME active # Main, stack'[active] \in Rests(C, active) PROVE Where(active)' = "here"
  <2>1. \A pc : ~AtYield(active, pc)'
    BY <1>1, <1>3, <1>8 DEF AtYield, TopIs
  <2>. QED
    BY <1>1, <2>1 DEF Where
<1>9. ASSUME active # Main, AtHead(C) PROVE Where(active)' = "leaving"
  <2>1. AtYield(active, "head")'
    BY <1>1, <1>4, <1>5, <1>9 DEF AtYield, TopIs
  <2>. QED
    BY <1>1, <2>1 DEF Where
<1>. QED
  BY <1>7, <1>8, <1>9

(* How a step leaves t, if it is at the given place then. *)
FitsNow(t, at) == Fits(q'.scheduled[t], q'.reschedule[t], tk'[t], gl'[t].state, at, "ok")

(* What matters of t has not changed. *)
Kept(t) ==
    /\ q'.scheduled[t] = q.scheduled[t] /\ q'.reschedule[t] = q.reschedule[t]
    /\ tk'[t] = tk[t] /\ gl'[t].state = gl[t].state

(* A call that stays on its greenlet disturbs tasklets that are away, and its own. *)
LEMMA CallKeepsFlags ==
    ASSUME Control({}), Flags, stack[active] \in Rests({}, active), Stays({}), tk'[Main].alive,
           \A t \in Tasklets \ {Main, active} :
              Kept(t) \/ (FitsNow(t, "away") /\ (gl'[t].state = "started" => gl[t].state = "started")),
           active # Main => \/ stack'[active] \in Rests({}, active) /\ FitsNow(active, "here")
                            \/ AtHead({}) /\ FitsNow(active, "leaving")
    PROVE  Flags'
<1>1. active' = active /\ active \in Tasklets /\ \A t \in Tasklets \ {active} : stack'[t] = stack[t]
  BY DEF Stays, Control, Types, Stacks
<1>2. ASSUME NEW t \in Tasklets \ {Main, active} PROVE Noted(t)' /\ Sleeps(t)'
  <2>1. Where(t) = "away" /\ Where(t)' = "away"
    BY <1>2, WhereInACall, WhereAfterACall
  <2>2. Fits(q.scheduled[t], q.reschedule[t], tk[t], gl[t].state, "away", "ok") /\ Sleeps(t)
    <3>1. Noted(t) /\ Sleeps(t)
      BY <1>2 DEF Flags
    <3>. QED
      BY <2>1, <3>1, OutcomeOfTheLoop DEF Noted
  <2>3. FitsNow(t, "away") /\ (gl'[t].state = "started" => gl[t].state = "started")
    BY <1>2, <2>2 DEF Kept, FitsNow
  <2>4. Noted(t)'
    BY <2>1, <2>3, OutcomeOfTheLoop DEF FitsNow, Noted
  <2>5. Sleeps(t)'
    BY <1>1, <1>2, <2>2, <2>3 DEF Sleeps, AtYield, TopIs
  <2>. QED
    BY <2>4, <2>5
<1>3. ASSUME active # Main PROVE Noted(active)' /\ Sleeps(active)'
  <2>1. PICK at \in {"here", "leaving"} : Where(active)' = at /\ FitsNow(active, at)
    BY <1>3, WhereAfterACall
  <2>2. Noted(active)'
    BY <1>1, <2>1, OutcomeOfTheLoop DEF FitsNow, Noted
  <2>. QED
    BY <1>1, <2>2 DEF Sleeps
<1>. QED
  BY <1>1, <1>2, <1>3 DEF Flags

(* What Flags says of who runs, and of the others, while a call is made. *)
LEMMA FlagsInACall ==
    ASSUME NEW C, Control(C), Flags, stack[active] \in Rests(C, active)
    PROVE  /\ active # Main =>
                Fits(q.scheduled[active], q.reschedule[active], tk[active], gl[active].state, "here", "ok")
           /\ \A t \in Tasklets \ {Main, active} :
                Fits(q.scheduled[t], q.reschedule[t], tk[t], gl[t].state, "away", "ok")
<1>1. active \in Tasklets
  BY DEF Control, Types
<1>2. \A t \in Tasklets \ {Main} : Where(t) = IF t = active THEN "here" ELSE "away"
  BY WhereInACall
<1>3. \A t \in Tasklets \ {Main} :
        Fits(q.scheduled[t], q.reschedule[t], tk[t], gl[t].state, Where(t), "ok")
  BY <1>2, OutcomeOfTheLoop DEF Flags, Noted
<1>. QED
  BY <1>1, <1>2, <1>3

--------------------------------------------------------------------------------
(* The calls keep the flags. *)

(* The queue x has the marks and the members of q. *)
Alike(x) ==
    /\ Q!Good(x) /\ x.current = active /\ \A t \in Tasklets : x.blockedOn[t] = NULL
    /\ \A t \in Tasklets \ {Main} : x.scheduled[t] = q.scheduled[t] /\ x.reschedule[t] = q.reschedule[t]

(* The tasklet that a call is about, and the others. *)
Others(u) == \A t \in Tasklets \ {Main, u} : Kept(t)

LEMMA AnswerKeepsFlags ==
    ASSUME Control({}), Flags, stack[active] \in Seq(PlainFrames({})),
           NEW conts \in Seq(PlainFrames({})), NEW r \in Outcomes, Answer(conts, r),
           tk'[Main].alive, NEW u \in Tasklets, Others(u),
           u # Main => \/ Kept(u)
                       \/ u # active /\ FitsNow(u, "away") /\ (gl'[u].state = "started" => gl[u].state = "started")
    PROVE  Flags'
<1>1. stack[active] \in Rests({}, active) /\ Stays({})
  BY PlainRests, AnswerStays
<1>2. stack'[active] \in Rests({}, active)
  <2>1. conts \o stack[active] \in Seq(PlainFrames({}))
    BY ConcatProperties
  <2>2. stack'[active] = conts \o stack[active]
    BY DEF Answer, Continue, Control, Types, Stacks
  <2>. QED
    BY <2>1, <2>2, PlainRests
<1>3. active # Main => FitsNow(active, "here")
  <2>1. active # Main => Kept(active) /\ active \in Tasklets
    BY DEF Others, Control, Types
  <2>. QED
    BY <1>1, <2>1, FlagsInACall DEF Kept, FitsNow
<1>4. \A t \in Tasklets \ {Main, active} :
        Kept(t) \/ (FitsNow(t, "away") /\ (gl'[t].state = "started" => gl[t].state = "started"))
  BY DEF Others
<1>. QED
  BY <1>1, <1>2, <1>3, <1>4, CallKeepsFlags

LEMMA YieldKeepsFlags ==
    ASSUME Control({}), Flags, stack[active] \in Seq(PlainFrames({})),
           NEW conts \in Seq(PlainFrames({})), NEW q0, NEW tk0, q0.current = active,
           Yield(q0, tk0, conts),
           tk'[Main].alive,
           \A t \in Tasklets \ {Main, active} : Kept(t) \/ (FitsNow(t, "away") /\ gl' = gl),
           active # Main => FitsNow(active, "leaving")
    PROVE  Flags'
<1>1. stack[active] \in Rests({}, active)
  BY PlainRests
<1>2. Stays({}) /\ (active # Main => AtHead({}))
  BY YieldStays
<1>. QED
  BY <1>1, <1>2, CallKeepsFlags

(* A tasklet that is about to leave has asked to come back, or been tagged. *)
LEMMA AboutToLeave ==
    ASSUME NEW s, NEW r, NEW k, Fits(s, r, k, "started", "here", "ok"),
           NEW r1, NEW k1, k1 = k \/ k1 = [k EXCEPT !.tagged = TRUE], k \in TaskletType,
           r1 # "NONE" \/ k1.tagged
    PROVE  Fits(s, r1, k1, "started", "leaving", "ok")
<1>1. k1.alive = k.alive /\ k1.paused = k.paused /\ k1.firstRun = k.firstRun /\ k1.exc = k.exc
      /\ k1.remove = k.remove /\ k1.transfer = k.transfer
  BY DEF TaskletType
<1>. QED
  BY <1>1 DEF Fits

LEMMA ScheduleKeepsFlags ==
    ASSUME Control({}), Flags, Schedule
    PROVE  Flags'
<1>. DEFINE q0 == SetReschedule(q, active, "BACK")
<1>1. Calls("schedule")
  BY DEF Schedule
<1>2. /\ stack[active] \in Seq(PlainFrames({})) /\ stack[active] \in Rests({}, active)
      /\ q.current = active /\ active \in Tasklets /\ GreenletsStay(gl)
      /\ TaskletsFit(tk) /\ Q!Good(q)
  BY <1>1, CallIsMade DEF Control, Types, QueueFits
<1>3. Yield(q0, tk, <<>>)
  BY <1>2 DEF Schedule
<1>4. Flagged(q, q0, active, "BACK")
  BY <1>2, MarksFlag DEF RescheduleType
<1>. HIDE DEF q0
<1>5. q' = q0 /\ tk' = tk /\ gl' = gl /\ q0.current = active
  BY <1>2, <1>3, <1>4 DEF Yield, Flagged
<1>6. \A t \in Tasklets \ {Main, active} : Kept(t)
  BY <1>4, <1>5 DEF Flagged, Kept
<1>7. active # Main => FitsNow(active, "leaving")
  <2>1. active # Main =>
          /\ Fits(q.scheduled[active], q.reschedule[active], tk[active], gl[active].state, "here", "ok")
          /\ gl[active].state = "started" /\ tk[active] \in TaskletType
    BY <1>2, FlagsInACall DEF GreenletsStay, TaskletsFit
  <2>2. q'.scheduled[active] = q.scheduled[active] /\ q'.reschedule[active] = "BACK"
    BY <1>2, <1>4, <1>5 DEF Flagged
  <2>. QED
    BY <1>5, <2>1, <2>2, AboutToLeave DEF FitsNow
<1>. QED
  BY <1>2, <1>3, <1>5, <1>6, <1>7, NoConts, YieldKeepsFlags DEF Flags

LEMMA ScheduleRemoveKeepsFlags ==
    ASSUME Control({}), Flags, ScheduleRemove
    PROVE  Flags'
<1>. DEFINE v == [tk[active] EXCEPT !.tagged = TRUE]
            tk0 == [tk EXCEPT ![active] = v]
<1>1. Calls("schedule_remove")
  BY DEF ScheduleRemove
<1>2. /\ stack[active] \in Seq(PlainFrames({})) /\ stack[active] \in Rests({}, active)
      /\ q.current = active /\ active \in Tasklets /\ GreenletsStay(gl)
      /\ TaskletsFit(tk) /\ tk[active] \in TaskletType
  BY <1>1, CallIsMade DEF Control, Types, TaskletsFit
<1>3. Yield(q, tk0, <<>>)
  BY <1>2 DEF ScheduleRemove
<1>4. v.tagged /\ v.alive = tk[active].alive
  BY <1>2 DEF TaskletType
<1>. HIDE DEF v
<1>5. \A t \in Tasklets : tk0[t] = IF t = active THEN v ELSE tk[t]
  BY <1>2 DEF TaskletsFit
<1>. HIDE DEF tk0
<1>6. q' = q /\ tk' = tk0 /\ gl' = gl
  BY <1>3 DEF Yield
<1>7. \A t \in Tasklets \ {Main, active} : Kept(t)
  BY <1>5, <1>6 DEF Kept
<1>8. active # Main => FitsNow(active, "leaving")
  <2>1. active # Main =>
          /\ Fits(q.scheduled[active], q.reschedule[active], tk[active], gl[active].state, "here", "ok")
          /\ gl[active].state = "started"
    BY <1>2, FlagsInACall DEF GreenletsStay
  <2>2. tk'[active] = v /\ v.tagged
    BY <1>2, <1>4, <1>5, <1>6
  <2>3. v = [tk[active] EXCEPT !.tagged = TRUE]
    BY DEF v
  <2>4. active # Main => Fits(q.scheduled[active], q.reschedule[active], v, "started", "leaving", "ok")
    <3>. SUFFICES ASSUME active # Main
                  PROVE  Fits(q.scheduled[active], q.reschedule[active], v, "started", "leaving", "ok")
      OBVIOUS
    <3>. DEFINE s == q.scheduled[active]
                r == q.reschedule[active]
                k == tk[active]
    <3>1. Fits(s, r, k, "started", "here", "ok") /\ k \in TaskletType
          /\ v = [k EXCEPT !.tagged = TRUE] /\ v.tagged
      BY <1>2, <2>1, <2>2, <2>3
    <3>. HIDE DEF s, r, k
    <3>2. Fits(s, r, v, "started", "leaving", "ok")
      BY <3>1, AboutToLeave
    <3>. QED
      BY <3>2 DEF s, r
  <2>. QED
    BY <1>6, <2>1, <2>2, <2>4 DEF FitsNow
<1>9. tk'[Main].alive
  BY <1>4, <1>5, <1>6, MainAssumption DEF Flags
<1>. QED
  BY <1>2, <1>3, <1>6, <1>7, <1>8, <1>9, NoConts, YieldKeepsFlags

(* v has the flags of k. *)
SameFlags(v, k) ==
    /\ v.transfer = k.transfer /\ v.alive = k.alive /\ v.firstRun = k.firstRun
    /\ v.paused = k.paused /\ v.remove = k.remove /\ v.tagged = k.tagged

(* A tasklet that is alive may be queued, and have an exception thrown at it. *)
LEMMA StillAway ==
    ASSUME NEW s, NEW r, NEW k, NEW g, Fits(s, r, k, g, "away", "ok"),
           NEW v, SameFlags(v, k), v.exc = k.exc \/ k.alive,
           NEW s1, (s1 <=> s) \/ (s1 /\ k.alive)
    PROVE  Fits(s1, r, v, g, "away", "ok")
BY DEF Fits, SameFlags

LEMMA RunTaskletKeepsFlags ==
    ASSUME Control({}), Flags, ~Nested, stack[active] \in Seq(PlainFrames({})),
           NEW conts \in Seq(PlainFrames({})), NEW t \in Tasklets \ {Main, active},
           NEW q0, Alike(q0), NEW tk0, \A u \in Tasklets \ {t} : tk0[u] = tk[u],
           SameFlags(tk0[t], tk[t]), tk0[t].exc = tk[t].exc \/ tk[t].alive,
           RunTasklet(t, q0, tk0, conts)
    PROVE  Flags'
<1>1. stack[active] \in Rests({}, active) /\ active \in Tasklets
  BY PlainRests DEF Control, Types
<1>2. Fits(q.scheduled[t], q.reschedule[t], tk[t], gl[t].state, "away", "ok")
  BY <1>1, FlagsInACall
<1>3. tk0[Main].alive
  BY MainAssumption DEF Flags
<1>4. CASE ~tk0[t].alive
  <2>1. Answer(conts, "Error") /\ q' = q0 /\ tk' = tk0 /\ gl' = gl
    BY <1>4 DEF RunTasklet
  <2>2. Others(t)
    BY <2>1 DEF Others, Kept, Alike
  <2>3. FitsNow(t, "away")
    <3>1. q'.scheduled[t] = q.scheduled[t] /\ q'.reschedule[t] = q.reschedule[t]
          /\ tk'[t] = tk0[t] /\ gl'[t].state = gl[t].state
      BY <2>1 DEF Alike
    <3>. QED
      BY <1>2, <3>1, StillAway DEF FitsNow
  <2>. QED
    BY <1>3, <2>1, <2>2, <2>3, SimpleOutcomes, AnswerKeepsFlags
<1>5. CASE tk0[t].alive
  <2>. DEFINE q1 == MoveToRunNext(q0, t)
  <2>1. Yield(q1, tk0, conts)
    <3>1. ~IsBlocked(q0, t)
      BY DEF IsBlocked, Alike
    <3>. QED
      BY <1>5, <3>1 DEF RunTasklet
  <2>2. Moved(q0, q1, t)
    <3>1. q0.scheduled[active]
      BY <1>1, InPlace, GoodQueue DEF Alike, Safe, QueueStays
    <3>. QED
      BY <3>1, MoveMoves DEF Alike
  <2>. HIDE DEF q1
  <2>3. q' = q1 /\ tk' = tk0 /\ gl' = gl /\ q1.current = active
    BY <2>1, <2>2 DEF Yield, Moved, Alike
  <2>4. ASSUME NEW u \in Tasklets \ {Main, active, t} PROVE Kept(u)
    <3>1. q1.scheduled[u] <=> q.scheduled[u]
      BY <2>2 DEF Moved, Alike
    <3>2. q1.scheduled \in [Tasklets -> BOOLEAN] /\ q.scheduled \in [Tasklets -> BOOLEAN]
      BY <2>2, GoodQueue DEF Moved, Control, Types, QueueFits, QueueType
    <3>3. q1.reschedule[u] = q.reschedule[u]
      BY <2>2 DEF Moved, Alike
    <3>. QED
      BY <2>3, <3>1, <3>2, <3>3 DEF Kept
  <2>5. FitsNow(t, "away")
    <3>1. q'.scheduled[t] /\ q'.reschedule[t] = q.reschedule[t] /\ tk'[t] = tk0[t] /\ gl' = gl
      BY <2>2, <2>3 DEF Moved, Alike
    <3>2. tk[t].alive
      BY <1>5 DEF SameFlags
    <3>3. Fits(q'.scheduled[t], q.reschedule[t], tk0[t], gl[t].state, "away", "ok")
      <4>. DEFINE s == q.scheduled[t]
                  k == tk[t]
                  g == gl[t].state
                  r == q.reschedule[t]
                  v == tk0[t]
                  s1 == q'.scheduled[t]
      <4>1. Fits(s, r, k, g, "away", "ok") /\ SameFlags(v, k) /\ (v.exc = k.exc \/ k.alive) /\ s1 /\ k.alive
        BY <1>2, <3>1, <3>2
      <4>. HIDE DEF s, k, g, r, v, s1
      <4>2. Fits(s1, r, v, g, "away", "ok")
        BY <4>1, StillAway
      <4>. QED
        BY <4>2 DEF r, v, g, s1
    <3>. QED
      BY <3>1, <3>3 DEF FitsNow
  <2>6. active # Main => FitsNow(active, "leaving")
    <3>. SUFFICES ASSUME active # Main PROVE FitsNow(active, "leaving")
      OBVIOUS
    <3>1. Fits(q.scheduled[active], q.reschedule[active], tk[active], gl[active].state, "here", "ok")
      BY <1>1, FlagsInACall
    <3>2. gl[active].state = "started" /\ tk[active] \in TaskletType
      BY <1>1, RunByMain DEF Control, Types, TaskletsFit
    <3>3. q1.scheduled[active] <=> q.scheduled[active]
      BY <1>1, <2>2 DEF Moved, Alike
    <3>4. q1.scheduled \in [Tasklets -> BOOLEAN] /\ q.scheduled \in [Tasklets -> BOOLEAN]
      BY <2>2, GoodQueue DEF Moved, Control, Types, QueueFits, QueueType
    <3>5. q1.reschedule[active] = "FRONT_PLUS_ONE" /\ tk'[active] = tk[active]
      BY <1>1, <2>2, <2>3 DEF Moved, Alike
    <3>. DEFINE s == q.scheduled[active]
                k == tk[active]
    <3>6. Fits(s, q.reschedule[active], k, "started", "here", "ok") /\ k \in TaskletType
          /\ q1.scheduled[active] = s
      BY <1>1, <3>1, <3>2, <3>3, <3>4
    <3>. HIDE DEF s, k
    <3>7. Fits(s, "FRONT_PLUS_ONE", k, "started", "leaving", "ok")
      BY <3>6, AboutToLeave
    <3>. QED
      BY <2>3, <3>2, <3>5, <3>6, <3>7 DEF FitsNow, k
  <2>. QED
    BY <1>3, <2>1, <2>3, <2>4, <2>5, <2>6, YieldKeepsFlags
<1>. QED
  BY <1>4, <1>5

(* Before a call, as it finds the queue. *)
LEMMA AlikeInACall ==
    ASSUME Control({}), Flags, stack[active] \in Rests({}, active), NEW t \in Tasklets
    PROVE  /\ Alike(q) /\ Alike(Unblock(q, t))
           /\ t \notin {Main, active} => Alike(SetReschedule(Unblock(q, t), t, "NONE"))
<1>1. Q!Good(q) /\ q.current = active /\ \A u \in Tasklets : q.blockedOn[u] = NULL
  BY InPlace DEF Safe, QueueStays, QueueFits
<1>2. Freed(q, Unblock(q, t), t, NULL)
  BY <1>1, BlocksFree
<1>3. Alike(Unblock(q, t))
  BY <1>1, <1>2 DEF Freed, Alike
<1>4. ASSUME t \notin {Main, active} PROVE Alike(SetReschedule(Unblock(q, t), t, "NONE"))
  <2>. DEFINE x == Unblock(q, t)
  <2>1. Flagged(x, SetReschedule(x, t, "NONE"), t, "NONE")
    BY <1>3, MarksFlag DEF RescheduleType, Alike
  <2>2. q.reschedule[t] = "NONE"
    BY <1>4, FlagsInACall DEF Fits
  <2>. HIDE DEF x
  <2>3. Alike(x)
    BY <1>3 DEF x
  <2>4. Alike(SetReschedule(x, t, "NONE"))
    BY <1>4, <2>1, <2>2, <2>3 DEF Flagged, Alike
  <2>. QED
    BY <2>4 DEF x
<1>. QED
  BY <1>1, <1>3, <1>4 DEF Alike

LEMMA RunKeepsFlags ==
    ASSUME Control({}), Flags, Flat, NEW t \in Tasklets, Run(t)
    PROVE  Flags'
<1>1. Calls("run") /\ RunTasklet(t, q, tk, <<>>) /\ ~Nested /\ t \in Tasklets \ {Main, active}
  BY DEF Run, Flat
<1>2. SameFlags(tk[t], tk[t])
  BY DEF SameFlags
<1>. QED
  BY <1>1, <1>2, CallIsMade, NoConts, AlikeInACall, RunTaskletKeepsFlags

(* One tasklet that is away changes, and the call is over. *)
LEMMA OneChanges ==
    ASSUME Control({}), Flags, stack[active] \in Seq(PlainFrames({})),
           NEW conts \in Seq(PlainFrames({})), NEW r \in Outcomes, Answer(conts, r),
           NEW t \in Tasklets \ {Main, active}, NEW v, tk' = [tk EXCEPT ![t] = v],
           \A u \in Tasklets \ {t} :
              /\ q'.scheduled[u] = q.scheduled[u] /\ q'.reschedule[u] = q.reschedule[u]
              /\ gl'[u].state = gl[u].state,
           Fits(q'.scheduled[t], q'.reschedule[t], v, gl'[t].state, "away", "ok"),
           gl'[t].state = "started" => gl[t].state = "started"
    PROVE  Flags'
<1>1. tk'[t] = v /\ \A u \in Tasklets \ {t} : tk'[u] = tk[u]
  BY DEF Control, Types, TaskletsFit
<1>2. Others(t) /\ FitsNow(t, "away") /\ tk'[Main].alive
  BY <1>1, MainAssumption DEF Others, Kept, FitsNow, Flags
<1>. QED
  BY <1>2, AnswerKeepsFlags

LEMMA NothingChanges ==
    ASSUME Control({}), Flags, stack[active] \in Seq(PlainFrames({})),
           NEW conts \in Seq(PlainFrames({})), NEW r \in Outcomes, Answer(conts, r),
           \A u \in Tasklets : q'.scheduled[u] = q.scheduled[u] /\ q'.reschedule[u] = q.reschedule[u],
           tk' = tk, gl' = gl
    PROVE  Flags'
<1>1. Others(Main) /\ tk'[Main].alive /\ Main \in Tasklets
  BY MainAssumption DEF Others, Kept, Flags
<1>. QED
  BY <1>1, AnswerKeepsFlags

LEMMA QueuedOne ==
    ASSUME NEW x, Q!Good(x), NEW t \in Tasklets, NEW y, Inserted(x, y, t) \/ Removed(x, y, t)
    PROVE  \A u \in Tasklets \ {t} : y.scheduled[u] = x.scheduled[u] /\ y.reschedule[u] = x.reschedule[u]
<1>1. x.scheduled \in [Tasklets -> BOOLEAN] /\ y.scheduled \in [Tasklets -> BOOLEAN]
  BY GoodQueue DEF Inserted, Removed, QueueType
<1>2. \A u \in Tasklets \ {t} : (y.scheduled[u] <=> x.scheduled[u]) /\ y.reschedule[u] = x.reschedule[u]
  BY DEF Inserted, Removed
<1>. QED
  BY <1>1, <1>2

(* A call finds its own tasklet and main alive. *)
LEMMA OnlyOthersAreDead ==
    ASSUME Control({}), Flags, stack[active] \in Rests({}, active), NEW t \in Tasklets, ~tk[t].alive
    PROVE  t \notin {Main, active}
<1>1. t # Main
  BY DEF Flags
<1>2. t = active => tk[t].alive
  <2>1. active # Main => gl[active].state = "started"
    BY Here
  <2>. QED
    BY <1>1, <2>1, FlagsInACall DEF Fits
<1>. QED
  BY <1>1, <1>2

LEMMA ReplacedStates ==
    ASSUME NEW C, Control(C), NEW t \in Tasklets, NEW g
    PROVE  \A u \in Tasklets : Replaced(t, g)[u].state = IF u = t THEN g.state ELSE gl[u].state
<1>. SUFFICES ASSUME NEW u \in Tasklets
              PROVE  Replaced(t, g)[u].state = IF u = t THEN g.state ELSE gl[u].state
  OBVIOUS
<1>. DEFINE moved == [gl[u] EXCEPT !.parent = Landing(gl, t)]
<1>1. gl[u] \in GreenletType
  BY DEF Control, Types, GreenletsFit
<1>2. moved.state = gl[u].state
  BY <1>1 DEF GreenletType
<1>3. Replaced(t, g)[u] = IF u = t THEN g ELSE IF gl[u].parent = t THEN moved ELSE gl[u]
  BY DEF Replaced
<1>. HIDE DEF moved
<1>. QED
  BY <1>2, <1>3

LEMMA SetupKeepsFlags ==
    ASSUME Control({}), Flags, NEW t \in Tasklets, Setup(t)
    PROVE  Flags'
<1>. DEFINE v == [tk[t] EXCEPT !.alive = TRUE, !.paused = FALSE, !.firstRun = TRUE]
<1>1. Calls("setup") /\ ~tk[t].alive
  BY DEF Setup, Rebindable
<1>2. /\ stack[active] \in Seq(PlainFrames({})) /\ stack[active] \in Rests({}, active)
      /\ tk[t] \in TaskletType /\ Q!Good(q) /\ q.blockedOn[t] = NULL
  BY <1>1, CallIsMade DEF Control, Types, TaskletsFit, QueueFits
<1>3. t \notin {Main, active}
  BY <1>1, <1>2, OnlyOthersAreDead
<1>4. /\ gl' = Rebirth(t) /\ Answer(<<>>, "ok") /\ q' = InsertTasklet(q, t)
      /\ tk' = [tk EXCEPT ![t].alive = TRUE, ![t].paused = FALSE, ![t].firstRun = TRUE]
  BY <1>2 DEF Setup, IsBlocked
<1>5. tk' = [tk EXCEPT ![t] = v]
  BY <1>2, <1>4 DEF Control, Types, TaskletsFit
<1>6. /\ v.alive /\ ~v.paused /\ v.firstRun /\ v.exc = tk[t].exc /\ v.transfer = tk[t].transfer
      /\ v.tagged = tk[t].tagged
  BY <1>2 DEF TaskletType
<1>. HIDE DEF v
<1>7. \A u \in Tasklets : gl'[u].state = IF u = t THEN "new" ELSE gl[u].state
  BY <1>4, ReplacedStates DEF Rebirth
<1>8. Fits(q.scheduled[t], q.reschedule[t], tk[t], gl[t].state, "away", "ok")
  BY <1>2, <1>3, FlagsInACall
<1>9. Inserted(q, q', t)
  BY <1>2, <1>4, InsertsInsert
<1>10. q'.scheduled[t] /\ q'.reschedule[t] = "NONE"
  BY <1>1, <1>8, <1>9 DEF Inserted, Fits
<1>11. Fits(q'.scheduled[t], q'.reschedule[t], v, gl'[t].state, "away", "ok")
  BY <1>1, <1>6, <1>7, <1>8, <1>10 DEF Fits
<1>12. \A u \in Tasklets \ {t} :
        /\ q'.scheduled[u] = q.scheduled[u] /\ q'.reschedule[u] = q.reschedule[u]
        /\ gl'[u].state = gl[u].state
  BY <1>2, <1>7, <1>9, QueuedOne
<1>. QED
  BY <1>2, <1>3, <1>4, <1>5, <1>7, <1>11, <1>12, NoConts, SimpleOutcomes, OneChanges

LEMMA BindKeepsFlags ==
    ASSUME Control({}), Flags, NEW t \in Tasklets, Bind(t)
    PROVE  Flags'
<1>. DEFINE v == [tk[t] EXCEPT !.alive = TRUE, !.paused = TRUE, !.firstRun = TRUE]
<1>1. /\ Calls("bind") /\ ~tk[t].alive /\ q' = q /\ gl' = Rebirth(t) /\ Answer(<<>>, "ok")
      /\ tk' = [tk EXCEPT ![t].alive = TRUE, ![t].paused = TRUE, ![t].firstRun = TRUE]
  BY DEF Bind, Rebindable
<1>2. /\ stack[active] \in Seq(PlainFrames({})) /\ stack[active] \in Rests({}, active)
      /\ tk[t] \in TaskletType
  BY <1>1, CallIsMade DEF Control, Types, TaskletsFit
<1>3. t \notin {Main, active}
  BY <1>1, <1>2, OnlyOthersAreDead
<1>4. tk' = [tk EXCEPT ![t] = v]
  BY <1>1, <1>2 DEF Control, Types, TaskletsFit
<1>5. /\ v.alive /\ v.paused /\ v.firstRun /\ v.exc = tk[t].exc /\ v.transfer = tk[t].transfer
      /\ v.tagged = tk[t].tagged
  BY <1>2 DEF TaskletType
<1>. HIDE DEF v
<1>6. \A u \in Tasklets : gl'[u].state = IF u = t THEN "new" ELSE gl[u].state
  BY <1>1, ReplacedStates DEF Rebirth
<1>7. Fits(q.scheduled[t], q.reschedule[t], tk[t], gl[t].state, "away", "ok")
  BY <1>2, <1>3, FlagsInACall
<1>8. Fits(q'.scheduled[t], q'.reschedule[t], v, gl'[t].state, "away", "ok")
  BY <1>1, <1>5, <1>6, <1>7 DEF Fits
<1>. QED
  BY <1>1, <1>2, <1>3, <1>4, <1>6, <1>8, NoConts, SimpleOutcomes, OneChanges

LEMMA UnbindKeepsFlags ==
    ASSUME Control({}), Flags, NEW t \in Tasklets, Unbind(t)
    PROVE  Flags'
<1>1. Calls("unbind") /\ gl[t].state \in {"new", "dead"} /\ q' = q
  BY DEF Unbind
<1>2. /\ stack[active] \in Seq(PlainFrames({})) /\ stack[active] \in Rests({}, active)
      /\ tk[t] \in TaskletType /\ q.current = active
  BY <1>1, CallIsMade DEF Control, Types, TaskletsFit
<1>3. CASE t = q.current \/ q.scheduled[t]
  <2>1. Answer(<<>>, "Error") /\ tk' = tk /\ gl' = gl
    BY <1>3 DEF Unbind
  <2>. QED
    BY <1>1, <1>2, <2>1, NoConts, SimpleOutcomes, NothingChanges
<1>4. CASE ~(t = q.current \/ q.scheduled[t])
  <2>. DEFINE v == [tk[t] EXCEPT !.alive = FALSE]
  <2>1. Answer(<<>>, "ok") /\ gl' = Replaced(t, Unborn) /\ tk' = [tk EXCEPT ![t] = v]
    BY <1>2, <1>4 DEF Unbind
  <2>2. /\ ~v.alive /\ v.paused = tk[t].paused /\ v.firstRun = tk[t].firstRun /\ v.exc = tk[t].exc
        /\ v.transfer = tk[t].transfer /\ v.tagged = tk[t].tagged /\ v.remove = tk[t].remove
    BY <1>2 DEF TaskletType
  <2>. HIDE DEF v
  <2>3. \A u \in Tasklets : gl'[u].state = IF u = t THEN "unborn" ELSE gl[u].state
    BY <2>1, ReplacedStates DEF Unborn
  <2>4. t \notin {Main, active}
    BY <1>1, <1>2, <1>4 DEF Control, Types, GreenletsFit
  <2>5. Fits(q.scheduled[t], q.reschedule[t], tk[t], gl[t].state, "away", "ok")
    BY <1>2, <2>4, FlagsInACall
  <2>6. Fits(q'.scheduled[t], q'.reschedule[t], v, gl'[t].state, "away", "ok")
    BY <1>1, <1>4, <2>2, <2>3, <2>5 DEF Fits
  <2>. QED
    BY <1>1, <1>2, <2>1, <2>3, <2>4, <2>6, NoConts, SimpleOutcomes, OneChanges
<1>. QED
  BY <1>3, <1>4

LEMMA InsertKeepsFlags ==
    ASSUME Control({}), Flags, Plain, NEW t \in Tasklets, Insert(t)
    PROVE  Flags'
<1>1. PICK op : Calls(op) /\ (q.scheduled[t] => op = "insert_queued")
  BY DEF Insert
<1>2. ~q.scheduled[t]
  BY <1>1, CallIsMade DEF Plain, AllOps, CalledBy
<1>3. /\ stack[active] \in Seq(PlainFrames({})) /\ stack[active] \in Rests({}, active)
      /\ tk[t] \in TaskletType /\ Q!Good(q) /\ q.scheduled[active]
  BY <1>1, CallIsMade, GoodQueue, Here DEF Control, Types, TaskletsFit, QueueFits
<1>4. t \notin {Main, active} /\ gl' = gl
  BY <1>2, <1>3, GoodQueue DEF Insert
<1>5. CASE IsBlocked(q, t) \/ ~tk[t].alive
  <2>1. Answer(<<>>, "Error") /\ q' = q /\ tk' = tk
    BY <1>5 DEF Insert
  <2>. QED
    BY <1>3, <1>4, <2>1, NoConts, SimpleOutcomes, NothingChanges
<1>6. CASE ~(IsBlocked(q, t) \/ ~tk[t].alive)
  <2>. DEFINE v == [tk[t] EXCEPT !.paused = FALSE]
  <2>1. Answer(<<>>, "ok") /\ q' = InsertTasklet(q, t) /\ tk' = [tk EXCEPT ![t] = v]
    BY <1>3, <1>6 DEF Insert
  <2>2. /\ v.alive /\ ~v.paused /\ v.firstRun = tk[t].firstRun /\ v.exc = tk[t].exc
        /\ v.transfer = tk[t].transfer /\ v.tagged = tk[t].tagged /\ v.remove = tk[t].remove
    BY <1>3, <1>6 DEF TaskletType
  <2>. HIDE DEF v
  <2>3. Fits(q.scheduled[t], q.reschedule[t], tk[t], gl[t].state, "away", "ok")
    BY <1>3, <1>4, FlagsInACall
  <2>4. Inserted(q, q', t)
    BY <1>3, <2>1, InsertsInsert
  <2>5. q'.scheduled[t] /\ q'.reschedule[t] = q.reschedule[t]
    BY <1>2, <2>4 DEF Inserted
  <2>6. Fits(q'.scheduled[t], q'.reschedule[t], v, gl'[t].state, "away", "ok")
    BY <1>4, <1>6, <2>2, <2>3, <2>5 DEF Fits
  <2>7. \A u \in Tasklets \ {t} :
          /\ q'.scheduled[u] = q.scheduled[u] /\ q'.reschedule[u] = q.reschedule[u]
          /\ gl'[u].state = gl[u].state
    BY <1>3, <1>4, <2>4, QueuedOne
  <2>. QED
    BY <1>3, <1>4, <2>1, <2>6, <2>7, NoConts, SimpleOutcomes, OneChanges
<1>. QED
  BY <1>5, <1>6

LEMMA RemoveKeepsFlags ==
    ASSUME Control({}), Flags, Flat, NEW t \in Tasklets, Remove(t)
    PROVE  Flags'
<1>1. (\E op : Calls(op)) /\ gl' = gl /\ Answer(<<>>, "ok")
  BY DEF Remove
<1>2. /\ stack[active] \in Seq(PlainFrames({})) /\ stack[active] \in Rests({}, active)
      /\ tk[t] \in TaskletType /\ Q!Good(q)
  BY <1>1, CallIsMade DEF Control, Types, TaskletsFit, QueueFits
<1>3. t \notin {Main, active}
  BY RemoveKeepsControl
<1>4. CASE ~q.scheduled[t]
  <2>1. q' = q /\ tk' = tk
    BY <1>4 DEF Remove
  <2>. QED
    BY <1>1, <1>2, <2>1, NoConts, SimpleOutcomes, NothingChanges
<1>5. CASE q.scheduled[t]
  <2>. DEFINE v == [tk[t] EXCEPT !.paused = TRUE]
  <2>1. q' = RemoveTasklet(q, t) /\ tk' = [tk EXCEPT ![t] = v]
    BY <1>2, <1>5 DEF Remove
  <2>2. /\ v.alive = tk[t].alive /\ v.paused /\ v.firstRun = tk[t].firstRun /\ v.exc = tk[t].exc
        /\ v.transfer = tk[t].transfer /\ v.tagged = tk[t].tagged /\ v.remove = tk[t].remove
    BY <1>2 DEF TaskletType
  <2>. HIDE DEF v
  <2>3. Fits(q.scheduled[t], q.reschedule[t], tk[t], gl[t].state, "away", "ok")
    BY <1>2, <1>3, FlagsInACall
  <2>4. Removed(q, q', t)
    BY <1>2, <1>3, <2>1, RemoveRemoves
  <2>5. ~q'.scheduled[t] /\ q'.reschedule[t] = q.reschedule[t]
    BY <2>4 DEF Removed
  <2>6. Fits(q'.scheduled[t], q'.reschedule[t], v, gl'[t].state, "away", "ok")
    BY <1>1, <2>2, <2>3, <2>5 DEF Fits
  <2>7. \A u \in Tasklets \ {t} :
          /\ q'.scheduled[u] = q.scheduled[u] /\ q'.reschedule[u] = q.reschedule[u]
          /\ gl'[u].state = gl[u].state
    BY <1>1, <1>2, <2>4, QueuedOne
  <2>. QED
    BY <1>1, <1>2, <1>3, <2>1, <2>6, <2>7, NoConts, SimpleOutcomes, OneChanges
<1>. QED
  BY <1>4, <1>5

(* The running tasklet has no exception waiting: what is raised on it now was never stored. *)
LEMMA NothingWaits ==
    ASSUME Control({}), Flags, stack[active] \in Rests({}, active)
    PROVE  [tk EXCEPT ![active].exc = "none"] = tk
<1>1. tk \in [Tasklets -> TaskletType] /\ active \in Tasklets
  BY DEF Control, Types, TaskletsFit
<1>2. tk[active].exc = "none"
  <2>1. active = Main => tk[active].exc = "none"
    BY DEF Control, Types, TaskletsFit
  <2>2. active # Main => tk[active].exc = "none"
    BY FlagsInACall DEF Fits
  <2>. QED
    BY <2>1, <2>2
<1>. DEFINE v == [tk[active] EXCEPT !.exc = "none"]
<1>3. v = tk[active]
  <2>1. tk[active] \in TaskletType
    BY <1>1
  <2>. QED
    BY <1>2, <2>1 DEF TaskletType
<1>4. [tk EXCEPT ![active].exc = "none"] = [tk EXCEPT ![active] = v]
  BY <1>1
<1>. HIDE DEF v
<1>5. [tk EXCEPT ![active] = v] = tk
  BY <1>1, <1>3
<1>. QED
  BY <1>4, <1>5

(* t gets an exception that it is to raise once it runs. *)
LEMMA ThrownAt ==
    ASSUME NEW C, Control(C), NEW t \in Tasklets, NEW e \in Errors
    PROVE  LET x == [tk EXCEPT ![t].exc = e]
           IN  SameFlags(x[t], tk[t]) /\ x[t].exc = e /\ \A u \in Tasklets \ {t} : x[u] = tk[u]
<1>1. tk \in [Tasklets -> TaskletType] /\ tk[t] \in TaskletType
  BY DEF Control, Types, TaskletsFit
<1>. DEFINE v == [tk[t] EXCEPT !.exc = e]
            x == [tk EXCEPT ![t].exc = e]
<1>2. SameFlags(v, tk[t]) /\ v.exc = e
  BY <1>1 DEF TaskletType, SameFlags
<1>3. x = [tk EXCEPT ![t] = v]
  BY <1>1
<1>. HIDE DEF v
<1>4. x[t] = v /\ \A u \in Tasklets \ {t} : x[u] = tk[u]
  BY <1>1, <1>3
<1>. QED
  BY <1>2, <1>4

LEMMA KillTaskletKeepsFlags ==
    ASSUME Control({}), Flags, ~Nested, stack[active] \in Seq(PlainFrames({})),
           NEW conts \in Seq(PlainFrames({})), NEW t \in Tasklets \ {Main}, NEW pending,
           KillTasklet(t, pending, conts)
    PROVE  Flags'
<1>. DEFINE c == q.blockedOn[t]
            free == Unblock(q, t)
            quiet == SetReschedule(free, t, "NONE")
<1>1. stack[active] \in Rests({}, active)
  BY PlainRests
<1>2. /\ q.current = active /\ active \in Tasklets /\ tk[t] \in TaskletType /\ c = NULL
      /\ Alike(q) /\ Alike(free) /\ (t # active => Alike(quiet))
  BY <1>1, InPlace, AlikeInACall DEF TaskletsStay, TaskletsFit, Alike
<1>3. q.scheduled \in [Tasklets -> BOOLEAN]
  BY <1>2, GoodQueue DEF Alike, QueueType
<1>. HIDE DEF c, free, quiet
<1>4. CASE ~tk[t].alive \/ tk[t].killPending
  <2>1. Answer(conts, "ok") /\ q' = q /\ tk' = tk /\ gl' = gl
    BY <1>4 DEF KillTasklet
  <2>. QED
    BY <2>1, SimpleOutcomes, NothingChanges
<1>5. CASE ~(~tk[t].alive \/ tk[t].killPending) /\ q.current = t
  <2>1. /\ Answer(conts, "TaskletExit") /\ q' = free /\ gl' = gl
        /\ tk' = [tk EXCEPT ![t].exc = "none"]
    BY <1>5 DEF KillTasklet, free
  <2>2. tk' = tk
    BY <1>1, <1>2, <1>5, <2>1, NothingWaits
  <2>3. q'.scheduled = q.scheduled /\ q'.reschedule = q.reschedule
    BY <2>1 DEF free, Unblock, Control, Types, QueueFits, Q!Good, Q!QueueType
  <2>. QED
    BY <2>1, <2>2, <2>3, SimpleOutcomes, NothingChanges
<1>6. CASE ~(~tk[t].alive \/ tk[t].killPending) /\ q.current # t /\ pending
  <2>. DEFINE v == [tk[t] EXCEPT !.exc = "TaskletExit", !.killPending = TRUE]
              in == InsertTasklet(free, t)
  <2>1. /\ Answer(conts, "ok") /\ gl' = gl /\ q' = SetReschedule(in, t, "NONE")
        /\ tk' = [tk EXCEPT ![t].exc = "TaskletExit", ![t].killPending = TRUE, ![t].dir = tk[t].dir]
    BY <1>2, <1>6 DEF KillTasklet, free, c
  <2>2. tk' = [tk EXCEPT ![t] = v]
    <3>1. tk \in [Tasklets -> TaskletType]
      BY DEF Control, Types, TaskletsFit
    <3>2. v = [tk[t] EXCEPT !.exc = "TaskletExit", !.killPending = TRUE, !.dir = tk[t].dir]
      BY <1>2 DEF TaskletType
    <3>. HIDE DEF v
    <3>. QED
      BY <2>1, <3>1, <3>2
  <2>3. SameFlags(v, tk[t])
    BY <1>2 DEF TaskletType, SameFlags
  <2>. HIDE DEF v, in
  <2>4. Inserted(free, in, t)
    BY <1>2, InsertsInsert DEF in, Alike
  <2>5. Flagged(in, q', t, "NONE")
    BY <2>1, <2>4, MarksFlag DEF Inserted, RescheduleType
  <2>6. Fits(q.scheduled[t], q.reschedule[t], tk[t], gl[t].state, "away", "ok")
    BY <1>1, <1>2, <1>6, FlagsInACall
  <2>7. q'.scheduled[t] /\ q'.reschedule[t] = q.reschedule[t]
    <3>1. q.reschedule[t] = "NONE"
      BY <2>6 DEF Fits
    <3>. QED
      BY <2>4, <2>5, <3>1 DEF Inserted, Flagged
  <2>8. Fits(q'.scheduled[t], q'.reschedule[t], v, gl'[t].state, "away", "ok")
    <3>. DEFINE s == q.scheduled[t]
                r == q.reschedule[t]
                k == tk[t]
                g == gl[t].state
                s1 == q'.scheduled[t]
    <3>1. s1 /\ k.alive /\ q'.reschedule[t] = r /\ gl'[t].state = g
          /\ Fits(s, r, k, g, "away", "ok") /\ SameFlags(v, k)
      BY <1>6, <2>1, <2>3, <2>6, <2>7
    <3>. HIDE DEF s, r, k, g, s1
    <3>2. Fits(s1, r, v, g, "away", "ok")
      BY <3>1, StillAway
    <3>3. Fits(s1, q'.reschedule[t], v, gl'[t].state, "away", "ok")
      BY <3>1, <3>2
    <3>. QED
      BY <3>3 DEF s1
  <2>9. \A u \in Tasklets \ {t} :
          /\ q'.scheduled[u] = q.scheduled[u] /\ q'.reschedule[u] = q.reschedule[u]
          /\ gl'[u].state = gl[u].state
    <3>1. \A u \in Tasklets \ {t} : in.scheduled[u] = free.scheduled[u] /\ in.reschedule[u] = free.reschedule[u]
      BY <1>2, <2>4, QueuedOne DEF Alike
    <3>2. free.scheduled = q.scheduled /\ free.reschedule = q.reschedule
      BY DEF free, Unblock, Control, Types, QueueFits, Q!Good, Q!QueueType
    <3>. QED
      BY <2>1, <2>5, <3>1, <3>2 DEF Flagged
  <2>. QED
    BY <1>2, <1>6, <2>1, <2>2, <2>8, <2>9, SimpleOutcomes, OneChanges
<1>7. CASE ~(~tk[t].alive \/ tk[t].killPending) /\ q.current # t /\ ~pending
  <2>. DEFINE tk0 == [tk EXCEPT ![t].exc = "TaskletExit"]
              rest == <<RestoreBlocked(t, c)>> \o conts
  <2>1. RunTasklet(t, quiet, tk0, rest)
    BY <1>7 DEF KillTasklet, c, quiet, free
  <2>2. SameFlags(tk0[t], tk[t]) /\ \A u \in Tasklets \ {t} : tk0[u] = tk[u]
    BY ThrownAt DEF Errors
  <2>3. rest \in Seq(PlainFrames({}))
    <3>1. RestoreBlocked(t, c) \in PlainFrames({})
      BY <1>2 DEF RestoreBlocked, PlainFrames
    <3>. QED
      BY <3>1, PutOnTop
  <2>. HIDE DEF tk0, rest
  <2>. QED
    BY <1>2, <1>7, <2>1, <2>2, <2>3, RunTaskletKeepsFlags
<1>. QED
  BY <1>4, <1>5, <1>6, <1>7

LEMMA KillKeepsFlags ==
    ASSUME Control({}), Flags, Flat, NEW t \in Tasklets, NEW pending \in BOOLEAN, Kill(t, pending)
    PROVE  Flags'
<1>1. (\E op : Calls(op)) /\ t # Main /\ KillTasklet(t, pending, <<>>) /\ ~Nested
  BY DEF Kill, Flat
<1>. QED
  BY <1>1, CallIsMade, NoConts, KillTaskletKeepsFlags

(* Only the running greenlet's stack changes, and it has not called Yield. *)
LEMMA OnlyTheStackChanges ==
    ASSUME Control({}), Flags, stack[active] \in Rests({}, active), Stays({}),
           active # Main => stack'[active] \in Rests({}, active),
           q' = q, tk' = tk, gl' = gl
    PROVE  Flags'
<1>1. \A t \in Tasklets \ {Main, active} : Kept(t)
  BY DEF Kept
<1>2. active # Main => FitsNow(active, "here")
  BY FlagsInACall DEF FitsNow
<1>3. tk'[Main].alive
  BY DEF Flags
<1>. QED
  BY <1>1, <1>2, <1>3, CallKeepsFlags

LEMMA ThrowKeepsFlags ==
    ASSUME Control({}), Flags, Flat, Plain, NEW t \in Tasklets, NEW pending \in BOOLEAN,
           Throw(t, pending)
    PROVE  Flags'
<1>. DEFINE op == IF ~pending THEN "throw" ELSE IF q.scheduled[t] THEN "throw_queued" ELSE "throw_pending"
            thrown == [tk EXCEPT ![t].exc = "Error"]
            rest == IF IsBlocked(q, t) THEN <<RestoreBlocked(t, q.blockedOn[t])>> ELSE <<>>
<1>1. Calls(op) /\ t # Main /\ ~Nested
  BY DEF Throw, Flat
<1>2. pending /\ q.scheduled[t] => op = "throw_queued"
  OBVIOUS
<1>. HIDE DEF op
<1>3. pending => ~q.scheduled[t]
  BY <1>1, <1>2, CallIsMade DEF Plain, AllOps, CalledBy
<1>4. /\ stack[active] \in Seq(PlainFrames({})) /\ stack[active] \in Rests({}, active)
      /\ q.current = active /\ active \in Tasklets
      /\ tk \in [Tasklets -> TaskletType] /\ tk[t] \in TaskletType /\ Q!Good(q)
      /\ Alike(q) /\ Alike(Unblock(q, t))
  BY <1>1, CallIsMade, AlikeInACall DEF Control, Types, TaskletsFit, QueueFits
<1>5. ~IsBlocked(q, t)
  BY <1>4 DEF Alike, IsBlocked
<1>6. SameFlags(thrown[t], tk[t]) /\ thrown[t].exc = "Error" /\ \A u \in Tasklets \ {t} : thrown[u] = tk[u]
  BY ThrownAt DEF Errors
<1>7. CASE t = active
  <2>1. Answer(<<>>, "Error") /\ tk' = [tk EXCEPT ![t].exc = "none"] /\ q' = q /\ gl' = gl
    BY <1>4, <1>7 DEF Throw
  <2>2. tk' = tk
    BY <1>4, <1>7, <2>1, NothingWaits
  <2>. QED
    BY <1>4, <2>1, <2>2, NoConts, SimpleOutcomes, NothingChanges
<1>8. CASE t # active /\ ~tk[t].alive
  <2>. DEFINE v == [tk[t] EXCEPT !.exc = "none"]
  <2>1. Answer(<<>>, "Error") /\ tk' = [tk EXCEPT ![t] = v] /\ q' = q /\ gl' = gl
    BY <1>4, <1>5, <1>8 DEF Throw
  <2>2. SameFlags(v, tk[t]) /\ v.exc = "none"
    BY <1>4 DEF TaskletType, SameFlags
  <2>. HIDE DEF v
  <2>3. Fits(q.scheduled[t], q.reschedule[t], tk[t], gl[t].state, "away", "ok")
    BY <1>1, <1>4, <1>8, FlagsInACall
  <2>4. Fits(q'.scheduled[t], q'.reschedule[t], v, gl'[t].state, "away", "ok")
    BY <2>1, <2>2, <2>3 DEF Fits, SameFlags
  <2>. QED
    BY <1>1, <1>4, <1>8, <2>1, <2>4, NoConts, SimpleOutcomes, OneChanges
<1>9. CASE t # active /\ tk[t].alive /\ pending
  <2>. DEFINE v == [tk[t] EXCEPT !.exc = "Error"]
  <2>1. Answer(<<>>, "ok") /\ q' = InsertTasklet(q, t) /\ tk' = [tk EXCEPT ![t] = v] /\ gl' = gl
    BY <1>4, <1>9 DEF Throw
  <2>2. SameFlags(v, tk[t])
    BY <1>4 DEF TaskletType, SameFlags
  <2>. HIDE DEF v
  <2>3. Fits(q.scheduled[t], q.reschedule[t], tk[t], gl[t].state, "away", "ok")
    BY <1>1, <1>4, <1>9, FlagsInACall
  <2>4. Inserted(q, q', t)
    BY <1>4, <2>1, InsertsInsert
  <2>5. q'.scheduled[t] /\ q'.reschedule[t] = q.reschedule[t]
    BY <1>3, <1>9, <2>4 DEF Inserted
  <2>6. Fits(q'.scheduled[t], q'.reschedule[t], v, gl'[t].state, "away", "ok")
    BY <1>9, <2>1, <2>2, <2>3, <2>5 DEF Fits, SameFlags
  <2>7. \A u \in Tasklets \ {t} :
          /\ q'.scheduled[u] = q.scheduled[u] /\ q'.reschedule[u] = q.reschedule[u]
          /\ gl'[u].state = gl[u].state
    BY <1>4, <2>1, <2>4, QueuedOne
  <2>. QED
    BY <1>1, <1>4, <1>9, <2>1, <2>6, <2>7, NoConts, SimpleOutcomes, OneChanges
<1>10. CASE t # active /\ tk[t].alive /\ ~pending
  <2>1. RunTasklet(t, Unblock(q, t), thrown, rest)
    BY <1>4, <1>10 DEF Throw
  <2>2. rest \in Seq(PlainFrames({}))
    BY <1>5, NoConts
  <2>3. t \in Tasklets \ {Main, active}
    BY <1>1, <1>10
  <2>. HIDE DEF thrown, rest
  <2>. QED
    BY <1>1, <1>4, <1>6, <1>10, <2>1, <2>2, <2>3, RunTaskletKeepsFlags
<1>. QED
  BY <1>7, <1>8, <1>9, <1>10

LEMMA RunSchedulerKeepsFlags ==
    ASSUME Control({}), Flags, Flat,
           RunScheduler \/ (\E n \in 1..MaxLimit : RunNTasklets(n)) \/ RunTaskletsForTime
    PROVE  Flags'
<1>. DEFINE f == RunFrame(Main, NULL, FALSE)
<1>1. PICK op \in {"run_scheduler", "run_n_tasklets", "run_for_time"} : Calls(op)
  BY DEF RunScheduler, RunNTasklets, RunTaskletsForTime
<1>2. active = Main /\ q.current = Main /\ stack[active] = <<>> /\ stack[active] \in Rests({}, active)
  BY <1>1, CallIsMade, FlatCalls
<1>3. /\ Push(<<f>>) \/ \E k \in Limited : Push(<<f, Then(k, NULL)>>)
      /\ q' = q /\ tk' = tk /\ gl' = gl
  BY <1>2 DEF RunScheduler, RunNTasklets, RunTaskletsForTime, Limited
<1>4. f \in Switching(active) /\ f.pc = "head"
  BY <1>2, NewFrames
<1>. HIDE DEF f
<1>5. Stays({})
  <2>1. ASSUME Push(<<f>>) PROVE Stays({})
    <3>1. Continue(<<f>> \o stack[active], "none")
      BY <2>1 DEF Push
    <3>. QED
      BY <1>2, <1>4, <3>1, PushStays
  <2>2. ASSUME NEW k \in Limited, Push(<<f, Then(k, NULL)>>) PROVE Stays({})
    <3>. DEFINE w == Then(k, NULL)
                r == <<w>>
    <3>1. r \in Rests({}, active)
      BY <1>2, NewFrames DEF Rests, Limited, Then, LimitedFrames
    <3>2. <<f, w>> \o <<>> = <<f>> \o r
      <4>. HIDE DEF w
      <4>1. <<f, w>> \in Seq({f, w}) /\ <<f, w>> # <<>>
        OBVIOUS
      <4>2. Head(<<f, w>>) = f /\ Tail(<<f, w>>) = <<w>>
        OBVIOUS
      <4>3. <<f, w>> = <<f>> \o <<w>>
        BY <4>1, <4>2, TopAndTail
      <4>4. <<f, w>> \o <<>> = <<f, w>>
        BY <4>1, ConcatEmptySeq
      <4>. QED
        BY <4>3, <4>4
    <3>3. Continue(<<f>> \o r, "none")
      BY <1>2, <2>2, <3>2 DEF Push
    <3>. HIDE DEF r
    <3>. QED
      BY <1>4, <3>1, <3>3, PushStays
  <2>. QED
    BY <1>3, <2>1, <2>2
<1>. QED
  BY <1>2, <1>3, <1>5, OnlyTheStackChanges

LEMMA CatchKeepsFlags ==
    ASSUME Control({}), Flags, Catch
    PROVE  Flags'
<1>1. stack[active] = <<>> /\ Answer(<<>>, "ok") /\ q' = q /\ tk' = tk /\ gl' = gl
  BY DEF Catch, Raising, InPython
<1>2. stack[active] \in Seq(PlainFrames({}))
  BY <1>1, EmptyStack
<1>. QED
  BY <1>1, <1>2, NoConts, SimpleOutcomes, NothingChanges

(* A call returns to what is left of another, or to Python code. *)
LEMMA ReturnsKeepFlags ==
    ASSUME Control({}), Flags, YieldMainReturns \/ KillReturns \/ LimitedRunReturns
    PROVE  Flags'
<1>1. /\ stack[active] # <<>> /\ Top.k \in {"Yield.main", "Kill"} \cup Limited
      /\ \E r : Return(r)
      /\ tk' = tk /\ gl' = gl
  BY DEF YieldMainReturns, KillReturns, LimitedRunReturns, AtThen, Limited
<1>2. stack[active] \in Rests({}, active)
  BY <1>1, RestOfACall DEF Limited
<1>3. q' = q
  <2>1. Top.k = "Kill" => Top.c = NULL
    <3>1. Top.k = "Kill" => Top \in PlainFrames({})
      BY <1>1, RestOfACall DEF Limited
    <3>2. Top.k = "Kill" /\ Top \in PlainFrames({}) => Top.c \in {} \cup {NULL}
      BY DEF PlainFrames
    <3>. QED
      BY <3>1, <3>2
  <2>. QED
    BY <2>1 DEF YieldMainReturns, KillReturns, LimitedRunReturns, AtThen
<1>4. \E r \in Outcomes : Return(r)
  BY RetIsAnOutcome, SimpleOutcomes DEF YieldMainReturns, KillReturns, LimitedRunReturns
<1>5. Stays({}) /\ stack'[active] \in Rests({}, active)
  BY <1>1, <1>2, <1>4, ReturnStays, PlainRests
<1>. QED
  BY <1>1, <1>2, <1>3, <1>5, OnlyTheStackChanges

--------------------------------------------------------------------------------
(* The steps of Run and Yield keep the flags. *)

(* x moves, or what is noted of it changes; the others are away and stay so. *)
LEMMA OneMoves ==
    ASSUME Flags, NEW x \in Tasklets,
           active \in {Main, x}, active = Main /\ RunsOne => Target = x,
           active' \in {Main, x}, active' = Main /\ RunsOne' => Target' = x,
           \A t \in Tasklets \ {Main, x} : Kept(t) /\ stack'[t] = stack[t],
           tk'[Main].alive, x # Main => Noted(x)' /\ Sleeps(x)'
    PROVE  Flags'
<1>. SUFFICES ASSUME NEW t \in Tasklets \ {Main, x} PROVE Noted(t)' /\ Sleeps(t)'
  BY DEF Flags
<1>1. Where(t) = "away" /\ Where(t)' = "away"
  BY DEF Where, RunsOne
<1>2. Noted(t) /\ Sleeps(t) /\ Kept(t) /\ stack'[t] = stack[t]
  BY DEF Flags
<1>3. Fits(q'.scheduled[t], q'.reschedule[t], tk'[t], gl'[t].state, "away", ret)
  BY <1>1, <1>2 DEF Noted, Kept
<1>4. Noted(t)'
  BY <1>1, <1>3, OutcomeOfTheLoop DEF Noted
<1>5. Sleeps(t)'
  BY <1>2 DEF Sleeps, Kept, AtYield, TopIs
<1>. QED
  BY <1>4, <1>5

LEMMA SwitchIsOver ==
    ASSUME NEW C, Control(C), stack[active] # <<>>, Top.k \in {"Run", "Yield"}, NEW r, Return(r)
    PROVE  /\ active' = active /\ \A t \in Tasklets \ {active} : stack'[t] = stack[t]
           /\ \A pc : ~TopIs(active, "Run", pc)' /\ ~TopIs(active, "Yield", pc)'
<1>1. active \in Tasklets /\ Tail(stack[active]) \in Rests(C, active)
  BY InTheMiddle
<1>2. /\ active' = active /\ stack'[active] = Tail(stack[active])
      /\ \A t \in Tasklets \ {active} : stack'[t] = stack[t]
  BY <1>1 DEF Return, Continue, Control, Stacks
<1>3. stack'[active] # <<>> => Head(stack'[active]).k \notin {"Run", "Yield"}
  BY <1>1, <1>2, TopOfRest
<1>. QED
  BY <1>2, <1>3 DEF TopIs

LEMMA DiesKeepsFlags ==
    ASSUME Control({}), Flags, stack[active] = <<>>, NEW r \in Outcomes, Dies(r)
    PROVE  Flags'
<1>1. /\ active # Main /\ active \in Tasklets /\ q' = q /\ tk' = tk /\ stack' = stack
      /\ gl' = [gl EXCEPT ![active].state = "dead"] /\ gl'[active].state = "dead"
      /\ gl \in [Tasklets -> GreenletType] /\ stack[active] \in Rests({}, active)
  BY DiesKeepsControl, EmptyStack DEF Dies, Control, Types, GreenletsFit
<1>2. AtRun("in") /\ Target = active
  BY <1>1, RunByMain
<1>3. active' = Main
  <2>. DEFINE g == [gl EXCEPT ![active].state = "dead"]
  <2>1. active' = Landing(g, g[active].parent)
    BY DEF Dies
  <2>2. GreenletsFit(g)
    BY <1>1, DiesKeepsControl DEF Control, Types
  <2>3. g[active].state = "dead" /\ g[Main].state = "started"
    BY <1>1, <2>2 DEF GreenletsFit
  <2>. HIDE DEF g
  <2>4. g[active].parent = Main
    BY <1>1, <2>2, <2>3 DEF GreenletsFit
  <2>. QED
    BY <2>1, <2>2, <2>3, <2>4, MainAssumption, LandsOnMain
<1>4. \A t \in Tasklets \ {Main, active} : Kept(t) /\ stack'[t] = stack[t]
  BY <1>1 DEF Kept
<1>5. RunsOne' /\ Target' = active /\ AtRun("in")'
  BY <1>1, <1>2 DEF RunsOne, AtRun, TopIs, Target
<1>7. Fits(q.scheduled[active], q.reschedule[active], tk[active], gl[active].state, "here", "ok")
  BY <1>1, FlagsInACall
<1>8. gl[active].state = "started"
  BY <1>1, RunByMain
<1>9. PICK x \in Tasklets : x = active
  BY <1>1
<1>10. Noted(x)' /\ Sleeps(x)'
  <2>1. Where(x)' = "back"
    BY <1>1, <1>3, <1>5, <1>9 DEF Where
  <2>2. Fits(q'.scheduled[x], q'.reschedule[x], tk'[x], gl'[x].state, "back", ret')
    BY <1>1, <1>7, <1>8, <1>9 DEF Fits
  <2>3. gl'[x].state # "started"
    BY <1>1, <1>9
  <2>. QED
    BY <2>1, <2>2, <2>3 DEF Noted, Sleeps
<1>11. /\ active \in {Main, x} /\ active # Main /\ active' = Main /\ Target' = x /\ tk'[Main].alive
       /\ \A t \in Tasklets \ {Main, x} : Kept(t) /\ stack'[t] = stack[t]
  BY <1>1, <1>3, <1>4, <1>5, <1>9 DEF Flags
<1>. QED
  BY <1>10, <1>11, OneMoves

LEMMA RunEndsKeepsFlags ==
    ASSUME Control({}), Flags, RunEnds \/ RunCannotAdopt
    PROVE  Flags'
<1>1. /\ stack[active] # <<>> /\ Top.k = "Run" /\ Top.pc = "head"
      /\ q' = q /\ tk' = tk /\ gl' = gl /\ \E r : Return(r)
  BY DEF RunEnds, RunCannotAdopt, AtFrame
<1>2. active = Main /\ ~RunsOne
  BY <1>1, InTheLoop
<1>3. /\ active' = Main /\ \A t \in Tasklets \ {Main} : stack'[t] = stack[t]
      /\ ~RunsOne'
  BY <1>1, <1>2, SwitchIsOver DEF RunsOne, AtRun
<1>4. \A t \in Tasklets \ {Main} : Kept(t)
  BY <1>1 DEF Kept
<1>. QED
  BY <1>1, <1>2, <1>3, <1>4, OneMoves, MainAssumption DEF Flags

LEMMA YieldReturnsKeepsFlags ==
    ASSUME Control({}), Flags, YieldReturns
    PROVE  Flags'
<1>1. /\ stack[active] # <<>> /\ Top.k = "Yield" /\ Top.pc = "out" /\ Return(ret)
      /\ q' = q /\ tk' = tk /\ gl' = gl
  BY DEF YieldReturns, AtFrame
<1>2. active \in Tasklets \ {Main}
  BY <1>1, InTheMiddle
<1>3. /\ active' = active /\ \A t \in Tasklets \ {active} : stack'[t] = stack[t]
      /\ \A pc : ~AtYield(active, pc)'
  BY <1>1, SwitchIsOver DEF AtYield
<1>4. PICK x \in Tasklets \ {Main} : x = active
  BY <1>2
<1>5. Where(x) = "here" /\ Where(x)' = "here"
  <2>1. ~AtYield(x, "head") /\ ~AtYield(x, "in")
    BY <1>1, <1>4 DEF AtYield, TopIs, Top
  <2>2. active' = x /\ ~AtYield(x, "head")' /\ ~AtYield(x, "in")'
    BY <1>3, <1>4
  <2>. QED
    BY <1>4, <2>1, <2>2 DEF Where
<1>6. Noted(x)' /\ Sleeps(x)'
  <2>1. Noted(x)
    BY DEF Flags
  <2>2. Noted(x)'
    BY <1>1, <1>5, <2>1, OutcomeOfTheLoop DEF Noted
  <2>. QED
    BY <1>3, <1>4, <2>2 DEF Sleeps
<1>7. /\ active = x /\ active' = x /\ tk'[Main].alive
      /\ \A t \in Tasklets \ {Main, x} : Kept(t) /\ stack'[t] = stack[t]
  BY <1>1, <1>3, <1>4 DEF Kept, Flags
<1>. QED
  BY <1>6, <1>7, OneMoves

(* Where the loop is, when it has come back from x. *)
LEMMA BackInTheLoop ==
    ASSUME Control({}), Flags, AtFrame("Run", "in") \/ AtFrame("Run", "out")
    PROVE  /\ active = Main /\ RunsOne
           /\ \E x \in Tasklets \ {Main} :
                 /\ x = Top.sw /\ Target = x /\ q.scheduled[x] /\ tk[x].parent = Main
                 /\ Where(x) = IF Top.pc = "in" THEN "back" ELSE "out"
                 /\ Fits(q.scheduled[x], q.reschedule[x], tk[x], gl[x].state, Where(x), ret)
                 /\ tk[x] \in TaskletType /\ q.current \in {Main, x}
<1>1. stack[active] # <<>> /\ Top.k = "Run" /\ Top.pc \in {"in", "out"}
  BY DEF AtFrame
<1>2. /\ active = Main /\ RunsOne /\ Target = Top.sw /\ Top.sw \in Tasklets \ {Main}
      /\ q.scheduled[Top.sw] /\ tk[Top.sw].parent = Main /\ q.current \in {Main, Top.sw}
      /\ stack[Main] # <<>> /\ Head(stack[Main]) = Top
  BY <1>1, InTheLoop
<1>3. PICK x \in Tasklets \ {Main} : x = Top.sw
  BY <1>2
<1>4. Where(x) = IF Top.pc = "in" THEN "back" ELSE "out"
  BY <1>1, <1>2, <1>3 DEF Where, AtRun, TopIs
<1>5. Fits(q.scheduled[x], q.reschedule[x], tk[x], gl[x].state, Where(x), ret)
  BY DEF Flags, Noted
<1>6. tk[x] \in TaskletType
  BY DEF Control, Types, TaskletsFit
<1>. QED
  BY <1>2, <1>3, <1>4, <1>5, <1>6

(* What is left of a tasklet whose parent is forgotten. *)
LEMMA ParentForgotten ==
    ASSUME NEW C, Control(C), NEW x \in Tasklets, NEW x1, NEW g1,
           x1 = tk \/ x1 = [tk EXCEPT ![x].parent = NULL],
           g1 = gl \/ g1 = Parented(gl, x, NULL)
    PROVE  /\ SameFlags(x1[x], tk[x]) /\ x1[x].exc = tk[x].exc
           /\ \A u \in Tasklets : g1[u].state = gl[u].state
           /\ \A u \in Tasklets \ {x} : x1[u] = tk[u]
<1>1. tk \in [Tasklets -> TaskletType] /\ tk[x] \in TaskletType /\ gl \in [Tasklets -> GreenletType]
  BY DEF Control, Types, TaskletsFit, GreenletsFit
<1>2. \A u \in Tasklets : g1[u].state = gl[u].state
  BY <1>1 DEF Parented, GreenletType
<1>. DEFINE v == [tk[x] EXCEPT !.parent = NULL]
<1>3. SameFlags(v, tk[x]) /\ v.exc = tk[x].exc /\ SameFlags(tk[x], tk[x])
  BY <1>1 DEF TaskletType, SameFlags
<1>4. x1 = tk \/ x1 = [tk EXCEPT ![x] = v]
  BY <1>1
<1>. HIDE DEF v
<1>5. x1[x] \in {v, tk[x]} /\ \A u \in Tasklets \ {x} : x1[u] = tk[u]
  BY <1>1, <1>4
<1>. QED
  BY <1>2, <1>3, <1>5

LEMMA RunFailsKeepsFlags ==
    ASSUME Control({}), Flags, RunFails
    PROVE  Flags'
<1>1. AtFrame("Run", "out") /\ ret = "Error" /\ Return(ret) /\ Top.pc = "out" /\ Top.k = "Run"
      /\ stack[active] # <<>>
  BY DEF RunFails, AtFrame
<1>2. active = Main /\ RunsOne
  BY <1>1, BackInTheLoop
<1>3. PICK x \in Tasklets \ {Main} :
         /\ x = Top.sw /\ Target = x /\ q.scheduled[x] /\ tk[x].parent = Main
         /\ Where(x) = IF Top.pc = "in" THEN "back" ELSE "out"
         /\ Fits(q.scheduled[x], q.reschedule[x], tk[x], gl[x].state, Where(x), ret)
         /\ tk[x] \in TaskletType
  BY <1>1, BackInTheLoop
<1>4. /\ active' = Main /\ \A t \in Tasklets \ {Main} : stack'[t] = stack[t]
      /\ ~RunsOne' /\ ~AtRun("in")' /\ ~AtRun("out")'
  BY <1>1, <1>2, SwitchIsOver DEF RunsOne, AtRun
<1>5. Fits(q.scheduled[x], q.reschedule[x], tk[x], gl[x].state, "out", "Error")
  BY <1>1, <1>3
<1>6. tk[x].remove /\ gl[x].state # "started" /\ gl[x].state # "unborn"
  BY <1>3, <1>5 DEF Fits
<1>. DEFINE c == SetCurrentTasklet(q, Main)
<1>7. /\ q' = RemoveTasklet(c, x)
      /\ tk' = tk \/ tk' = [tk EXCEPT ![x].parent = NULL]
      /\ gl' = gl \/ gl' = Parented(gl, x, NULL)
  <2>1. tk[x].parent # NULL
    BY <1>3, NullAssumption, MainAssumption
  <2>2. /\ q' = RemoveTasklet(SetCurrentTasklet(q, tk[x].parent), x)
        /\ tk' = IF IsLinked(q, x) THEN [tk EXCEPT ![x].parent = NULL] ELSE tk
        /\ gl' = IF IsLinked(q, x) THEN Parented(gl, x, NULL) ELSE gl
    BY <1>3, <1>6, <2>1 DEF RunFails
  <2>. QED
    BY <1>3, <2>2
<1>8. /\ Q!Good(c) /\ c.scheduled = q.scheduled /\ c.reschedule = q.reschedule /\ c.current = Main
  BY MainAssumption, SetsCurrent DEF Control, Types, QueueFits
<1>. HIDE DEF c
<1>9. Removed(c, q', x)
  BY <1>3, <1>7, <1>8, RemoveRemoves, MainAssumption
<1>10. /\ ~q'.scheduled[x] /\ q'.reschedule[x] = q.reschedule[x]
       /\ \A u \in Tasklets \ {x} : q'.scheduled[u] = q.scheduled[u] /\ q'.reschedule[u] = q.reschedule[u]
  BY <1>8, <1>9, QueuedOne DEF Removed
<1>11. /\ SameFlags(tk'[x], tk[x]) /\ tk'[x].exc = tk[x].exc
       /\ \A u \in Tasklets : gl'[u].state = gl[u].state
       /\ \A u \in Tasklets \ {x} : tk'[u] = tk[u]
  BY <1>7, ParentForgotten
<1>12. Fits(q'.scheduled[x], q'.reschedule[x], tk'[x], gl'[x].state, "away", ret')
  <2>. DEFINE s == q.scheduled[x]
              r == q.reschedule[x]
              k == tk[x]
              g == gl[x].state
              v == tk'[x]
              s1 == q'.scheduled[x]
  <2>1. /\ Fits(s, r, k, g, "out", "Error") /\ k.remove /\ g # "started" /\ g # "unborn"
        /\ ~s1 /\ SameFlags(v, k) /\ v.exc = k.exc
        /\ q'.reschedule[x] = r /\ gl'[x].state = g
    BY <1>5, <1>6, <1>10, <1>11
  <2>. HIDE DEF s, r, k, g, v, s1
  <2>2. Fits(s1, r, v, g, "away", ret')
    BY <2>1 DEF Fits, SameFlags
  <2>3. Fits(s1, q'.reschedule[x], v, gl'[x].state, "away", ret')
    BY <2>1, <2>2
  <2>. QED
    BY <2>3 DEF s1, v
<1>13. Noted(x)' /\ Sleeps(x)'
  <2>1. Where(x)' = "away"
    BY <1>4 DEF Where
  <2>2. gl'[x].state # "started"
    BY <1>6, <1>11
  <2>. QED
    BY <1>12, <2>1, <2>2 DEF Noted, Sleeps
<1>14. \A t \in Tasklets \ {Main, x} : Kept(t) /\ stack'[t] = stack[t]
  BY <1>4, <1>10, <1>11 DEF Kept
<1>15. tk'[Main].alive
  BY <1>3, <1>11, MainAssumption DEF Flags
<1>. QED
  BY <1>2, <1>3, <1>4, <1>13, <1>14, <1>15, OneMoves

LEMMA RunContinuesKeepsFlags ==
    ASSUME Control({}), Flags, RunContinues
    PROVE  Flags'
<1>1. AtFrame("Run", "out") /\ ret \in {"ok", "TaskletExit"} /\ Top.pc = "out" /\ Top.k = "Run"
      /\ stack[active] # <<>>
  BY DEF RunContinues, AtFrame
<1>2. active = Main /\ RunsOne
  BY <1>1, BackInTheLoop
<1>3. PICK x \in Tasklets \ {Main} :
         /\ x = Top.sw /\ Target = x /\ q.scheduled[x] /\ tk[x].parent = Main
         /\ Where(x) = IF Top.pc = "in" THEN "back" ELSE "out"
         /\ Fits(q.scheduled[x], q.reschedule[x], tk[x], gl[x].state, Where(x), ret)
         /\ tk[x] \in TaskletType
  BY <1>1, BackInTheLoop
<1>4. Fits(q.scheduled[x], q.reschedule[x], tk[x], gl[x].state, "out", ret)
  BY <1>1, <1>3
<1>5. /\ active' = Main /\ \A t \in Tasklets \ {Main} : stack'[t] = stack[t]
      /\ stack'[Main] # <<>> /\ Head(stack'[Main]).pc = "head"
  <2>. DEFINE unblocked == Top.until /\ ~IsBlocked(q, Main)
              f == [Top EXCEPT !.pc = "head", !.sw = NULL, !.done = unblocked \/ x = Top.end]
  <2>1. Continue(<<f>> \o Tail(stack[active]), "none")
    BY <1>3 DEF RunContinues
  <2>2. Top \in RunFrames /\ Tail(stack[active]) \in Rests({}, active)
    BY <1>1, <1>2, InTheMiddle
  <2>3. f \in Switching(active) /\ f.pc = "head"
    <3>1. (unblocked \/ x = Top.end) \in BOOLEAN
      OBVIOUS
    <3>. HIDE DEF unblocked
    <3>. QED
      BY <1>2, <2>2, <3>1 DEF RunFrames, Switching
  <2>. DEFINE s == <<f>> \o Tail(stack[active])
  <2>4. s # <<>> /\ Head(s) = f
    <3>. HIDE DEF f
    <3>. QED
      BY <2>2, <2>3, SwitchOnTop
  <2>. HIDE DEF f
  <2>. HIDE DEF s
  <2>5. stack' = [stack EXCEPT ![active] = s] /\ active' = active
    BY <2>1 DEF Continue, s
  <2>6. stack'[Main] = s /\ \A t \in Tasklets \ {Main} : stack'[t] = stack[t]
    BY <1>2, <2>5, MainAssumption DEF Control, Stacks
  <2>. QED
    BY <1>2, <2>3, <2>4, <2>5, <2>6
<1>6. ~RunsOne' /\ ~AtRun("in")' /\ ~AtRun("out")'
  BY <1>5 DEF RunsOne, AtRun, TopIs
<1>7. CameBack(q, q', x)
  <2>1. /\ q' = ReturnToRunner(q, x, Main)
    BY <1>3, RunContinuesKeepsControl
  <2>2. QueueFits({}, q) /\ x \in Tasklets \ {Main}
    BY DEF Control, Types
  <2>3. \A t \in Tasklets \ {Main} : q.reschedule[t] = "FRONT_PLUS_ONE" =>
          t = x /\ \E u \in Tasklets \ {Main, t} : q.scheduled[u]
    BY <1>2, <1>3 DEF Control, Marks, ComesBackSecond
  <2>. QED
    BY <1>3, <2>1, <2>2, <2>3, ReturnComesBack DEF QueueFits
<1>8. /\ q'.scheduled[x] <=> q.reschedule[x] # "NONE"
      /\ q'.reschedule[x] = "NONE"
      /\ \A u \in Tasklets \ {x} : q'.scheduled[u] = q.scheduled[u] /\ q'.reschedule[u] = q.reschedule[u]
  <2>1. q.scheduled \in [Tasklets -> BOOLEAN] /\ q'.scheduled \in [Tasklets -> BOOLEAN]
    BY <1>7, GoodQueue DEF CameBack, Control, Types, QueueFits, QueueType
  <2>2. \A u \in Tasklets \ {x} : (q'.scheduled[u] <=> q.scheduled[u]) /\ q'.reschedule[u] = q.reschedule[u]
    BY <1>7 DEF CameBack
  <2>3. (q'.scheduled[x] <=> q.reschedule[x] # "NONE") /\ q'.reschedule[x] = "NONE"
    BY <1>7 DEF CameBack
  <2>. QED
    BY <2>1, <2>2, <2>3
<1>9. /\ SameFlags(tk'[x], tk[x])
      /\ tk'[x].exc = IF ret = "TaskletExit" THEN "none" ELSE tk[x].exc
      /\ \A u \in Tasklets : gl'[u].state = gl[u].state
      /\ \A u \in Tasklets \ {x} : tk'[u] = tk[u]
  <2>. DEFINE v == [tk[x] EXCEPT !.exc = IF ret = "TaskletExit" THEN "none" ELSE @,
                                 !.parent = IF tk[x].alive THEN @ ELSE NULL]
  <2>1. tk \in [Tasklets -> TaskletType] /\ gl \in [Tasklets -> GreenletType]
    BY DEF Control, Types, TaskletsFit, GreenletsFit
  <2>2. tk' = [tk EXCEPT ![x] = v] /\ (gl' = gl \/ gl' = Parented(gl, x, NULL))
    BY <1>3, <2>1 DEF RunContinues
  <2>3. SameFlags(v, tk[x]) /\ v.exc = IF ret = "TaskletExit" THEN "none" ELSE tk[x].exc
    BY <1>3 DEF TaskletType, SameFlags
  <2>. HIDE DEF v
  <2>4. tk'[x] = v /\ \A u \in Tasklets \ {x} : tk'[u] = tk[u]
    BY <2>1, <2>2
  <2>5. \A u \in Tasklets : gl'[u].state = gl[u].state
    BY <2>1, <2>2 DEF Parented, GreenletType
  <2>. QED
    BY <2>3, <2>4, <2>5
<1>10. Fits(q'.scheduled[x], q'.reschedule[x], tk'[x], gl'[x].state, "away", ret')
  <2>. DEFINE s == q.scheduled[x]
              r == q.reschedule[x]
              k == tk[x]
              g == gl[x].state
              v == tk'[x]
              s1 == q'.scheduled[x]
  <2>1. /\ Fits(s, r, k, g, "out", ret) /\ ret \in {"ok", "TaskletExit"} /\ s
        /\ (s1 <=> r # "NONE") /\ SameFlags(v, k) /\ v.exc = IF ret = "TaskletExit" THEN "none" ELSE k.exc
        /\ q'.reschedule[x] = "NONE" /\ gl'[x].state = g
    BY <1>1, <1>3, <1>4, <1>8, <1>9
  <2>. HIDE DEF s, r, k, g, v, s1
  <2>2. Fits(s1, "NONE", v, g, "away", ret')
    BY <2>1 DEF Fits, SameFlags
  <2>3. Fits(s1, q'.reschedule[x], v, gl'[x].state, "away", ret')
    BY <2>1, <2>2
  <2>. QED
    BY <2>3 DEF s1, v
<1>11. Noted(x)' /\ Sleeps(x)'
  <2>1. Where(x)' = "away"
    BY <1>5, <1>6 DEF Where
  <2>2. Sleeps(x)
    BY DEF Flags
  <2>3. Sleeps(x)'
    BY <1>2, <1>5, <1>9, <2>2 DEF Sleeps, AtYield, TopIs
  <2>. QED
    BY <1>10, <2>1, <2>3 DEF Noted
<1>12. \A t \in Tasklets \ {Main, x} : Kept(t) /\ stack'[t] = stack[t]
  BY <1>5, <1>8, <1>9 DEF Kept
<1>13. tk'[Main].alive
  BY <1>3, <1>9, MainAssumption DEF Flags
<1>. QED
  BY <1>2, <1>3, <1>5, <1>6, <1>11, <1>12, <1>13, OneMoves

LEMMA AfterSwitchFlags ==
    ASSUME NEW C, Control(C), NEW x \in Tasklets, NEW r
    PROVE  /\ AfterSwitch(x, r)[x].alive <=> tk[x].alive /\ CameBackUnfinished(x)
           /\ AfterSwitch(x, r)[x].paused <=> tk[x].paused \/ tk[x].tagged
           /\ AfterSwitch(x, r)[x].remove <=> tk[x].remove \/ r # "ok"
           /\ ~AfterSwitch(x, r)[x].tagged
           /\ AfterSwitch(x, r)[x].transfer = tk[x].transfer
           /\ AfterSwitch(x, r)[x].firstRun = tk[x].firstRun
           /\ AfterSwitch(x, r)[x].exc = tk[x].exc
           /\ AfterSwitch(x, r)[x].dir = tk[x].dir /\ AfterSwitch(x, r)[x].args = tk[x].args
           /\ \A u \in Tasklets \ {x} : AfterSwitch(x, r)[u] = tk[u]
<1>. DEFINE a == tk[x].alive /\ CameBackUnfinished(x)
            p == tk[x].paused \/ tk[x].tagged
            m == tk[x].remove \/ r # "ok"
            v == [tk[x] EXCEPT !.alive = a, !.paused = p, !.tagged = FALSE, !.remove = m]
            y == AfterSwitch(x, r)
<1>1. tk \in [Tasklets -> TaskletType] /\ tk[x] \in TaskletType
  BY DEF Control, Types, TaskletsFit
<1>2. y = [tk EXCEPT ![x] = v]
  BY <1>1 DEF AfterSwitch
<1>3. a \in BOOLEAN /\ p \in BOOLEAN /\ m \in BOOLEAN
  OBVIOUS
<1>4. /\ (a <=> tk[x].alive /\ CameBackUnfinished(x)) /\ (p <=> tk[x].paused \/ tk[x].tagged)
      /\ (m <=> tk[x].remove \/ r # "ok")
  OBVIOUS
<1>. HIDE DEF a, p, m
<1>5. /\ v.alive = a /\ v.paused = p /\ v.tagged = FALSE /\ v.remove = m
      /\ v.transfer = tk[x].transfer /\ v.firstRun = tk[x].firstRun /\ v.exc = tk[x].exc
      /\ v.dir = tk[x].dir /\ v.args = tk[x].args
  BY <1>1 DEF TaskletType
<1>. HIDE DEF v, y
<1>6. y[x] = v /\ \A u \in Tasklets \ {x} : y[u] = tk[u]
  BY <1>1, <1>2
<1>7. /\ y[x].alive <=> tk[x].alive /\ CameBackUnfinished(x)
      /\ y[x].paused <=> tk[x].paused \/ tk[x].tagged
      /\ y[x].remove <=> tk[x].remove \/ r # "ok"
      /\ ~y[x].tagged
      /\ y[x].transfer = tk[x].transfer /\ y[x].firstRun = tk[x].firstRun /\ y[x].exc = tk[x].exc
      /\ y[x].dir = tk[x].dir /\ y[x].args = tk[x].args
  BY <1>3, <1>4, <1>5, <1>6
<1>. QED
  BY <1>6, <1>7 DEF y

(* The frame on top of the running greenlet's stack is past its switch. *)
LEMMA PastTheSwitch ==
    ASSUME NEW C, Control(C), stack[active] # <<>>, Top.k \in {"Run", "Yield"}, Top.pc = "in",
           NEW r, Continue(<<[Top EXCEPT !.pc = "out"]>> \o Tail(stack[active]), r)
    PROVE  /\ active' = active /\ ret' = r
           /\ stack'[active] # <<>> /\ Head(stack'[active]).k = Top.k
           /\ Head(stack'[active]).pc = "out" /\ Head(stack'[active]).sw = Top.sw
           /\ Tail(stack'[active]) = Tail(stack[active])
           /\ \A t \in Tasklets \ {active} : stack'[t] = stack[t]
<1>. DEFINE f == [Top EXCEPT !.pc = "out"]
            s == <<f>> \o Tail(stack[active])
<1>1. Top \in Switching(active) /\ active \in Tasklets /\ Tail(stack[active]) \in Rests(C, active)
  BY InTheMiddle
<1>2. f \in Switching(active) /\ f.pc = "out" /\ f.sw = Top.sw /\ f.k = Top.k
  BY <1>1, MainAssumption DEF Switching, RunFrames, YieldFrames
<1>. HIDE DEF f
<1>3. s # <<>> /\ Head(s) = f /\ Tail(s) = Tail(stack[active])
  BY <1>1, <1>2, SwitchOnTop
<1>. HIDE DEF s
<1>4. Continue(s, r)
  BY DEF s, f
<1>5. stack' = [stack EXCEPT ![active] = s] /\ active' = active /\ ret' = r
  BY <1>3, <1>4 DEF Continue
<1>6. stack'[active] = s /\ \A t \in Tasklets \ {active} : stack'[t] = stack[t]
  BY <1>1, <1>5 DEF Control, Stacks
<1>. QED
  BY <1>2, <1>3, <1>5, <1>6

(* SwitchTo has guessed right how x has come back. *)
LEMMA LoopSwitchReturns ==
    ASSUME Control({}), Flags, SwitchReturns, active = Main
    PROVE  Flags'
<1>1. stack[active] # <<>> /\ Top.k = "Run" /\ Top.pc = "in" /\ AtFrame("Run", "in")
  <2>1. ~q.nullDeref /\ stack[active] # <<>> /\ Top.k \in {"Run", "Yield"} /\ Top.pc = "in"
    BY DEF SwitchReturns
  <2>. QED
    BY <2>1, InTheMiddle DEF AtFrame
<1>2. RunsOne
  BY <1>1, BackInTheLoop
<1>3. PICK x \in Tasklets \ {Main} :
         /\ x = Top.sw /\ Target = x /\ q.scheduled[x] /\ tk[x].parent = Main
         /\ Where(x) = IF Top.pc = "in" THEN "back" ELSE "out"
         /\ Fits(q.scheduled[x], q.reschedule[x], tk[x], gl[x].state, Where(x), ret)
         /\ tk[x] \in TaskletType /\ q.current \in {Main, x}
  BY <1>1, BackInTheLoop
<1>4. Fits(q.scheduled[x], q.reschedule[x], tk[x], gl[x].state, "back", ret)
  BY <1>1, <1>3
<1>5. tk[q.current].exc = "none"
  <2>1. tk[x].exc = "none"
    BY <1>4 DEF Fits
  <2>2. tk[Main].exc = "none"
    BY DEF Control, Types, TaskletsFit
  <2>. QED
    BY <1>3, <2>1, <2>2
<1>6. /\ tk' = AfterSwitch(x, ret) /\ q' = q /\ gl' = gl
      /\ Continue(<<[Top EXCEPT !.pc = "out"]>> \o Tail(stack[active]), ret)
  BY <1>3, <1>5 DEF SwitchReturns, Resumed
<1>7. /\ active' = Main /\ ret' = ret /\ stack'[Main] # <<>> /\ Head(stack'[Main]).k = "Run"
      /\ Head(stack'[Main]).pc = "out" /\ Head(stack'[Main]).sw = x
      /\ \A t \in Tasklets \ {Main} : stack'[t] = stack[t]
  BY <1>1, <1>3, <1>6, PastTheSwitch
<1>8. AtRun("out")' /\ ~AtRun("in")' /\ Target' = x
  BY <1>7 DEF AtRun, TopIs, Target
<1>9. /\ tk'[x].alive <=> tk[x].alive /\ CameBackUnfinished(x)
      /\ tk'[x].paused <=> tk[x].paused \/ tk[x].tagged
      /\ tk'[x].remove <=> tk[x].remove \/ ret # "ok"
      /\ ~tk'[x].tagged
      /\ tk'[x].transfer = tk[x].transfer
      /\ tk'[x].firstRun = tk[x].firstRun
      /\ tk'[x].exc = tk[x].exc
      /\ \A u \in Tasklets \ {x} : tk'[u] = tk[u]
  BY <1>6, AfterSwitchFlags
<1>10. CameBackUnfinished(x) <=> tk[x].transfer \/ tk[x].paused \/ q.reschedule[x] # "NONE" \/ tk[x].tagged
  <2>1. q.blockedOn[x] = NULL
    BY DEF Control, Types, QueueFits
  <2>. QED
    BY <2>1 DEF CameBackUnfinished, IsBlocked
<1>11. Fits(q'.scheduled[x], q'.reschedule[x], tk'[x], gl'[x].state, "out", ret')
  <2>. DEFINE s == q.scheduled[x]
              r == q.reschedule[x]
              k == tk[x]
              g == gl[x].state
              v == tk'[x]
  <2>1. /\ Fits(s, r, k, g, "back", ret) /\ s
        /\ v.alive <=> k.alive /\ (k.transfer \/ k.paused \/ r # "NONE" \/ k.tagged)
        /\ v.paused <=> k.paused \/ k.tagged
        /\ v.remove <=> k.remove \/ ret # "ok"
        /\ ~v.tagged /\ v.transfer = k.transfer /\ v.firstRun = k.firstRun /\ v.exc = k.exc
    BY <1>3, <1>4, <1>9, <1>10
  <2>. HIDE DEF s, r, k, g, v
  <2>2. Fits(s, r, v, g, "out", ret)
    BY <2>1 DEF Fits
  <2>. QED
    BY <1>6, <1>7, <2>2 DEF s, r, g, v
<1>12. Noted(x)' /\ Sleeps(x)'
  <2>1. Where(x)' = "out"
    BY <1>3, <1>7, <1>8 DEF Where
  <2>2. Sleeps(x)
    BY DEF Flags
  <2>3. Sleeps(x)'
    BY <1>6, <1>7, <2>2 DEF Sleeps, AtYield, TopIs
  <2>. QED
    BY <1>11, <2>1, <2>3 DEF Noted
<1>13. \A t \in Tasklets \ {Main, x} : Kept(t) /\ stack'[t] = stack[t]
  BY <1>6, <1>7, <1>9 DEF Kept
<1>14. tk'[Main].alive
  BY <1>3, <1>9, MainAssumption DEF Flags
<1>. QED
  BY <1>2, <1>3, <1>7, <1>8, <1>12, <1>13, <1>14, OneMoves

(* Who is woken goes on, or raises what was thrown at it. *)
LEMMA YieldSwitchReturns ==
    ASSUME Control({}), Flags, SwitchReturns, active # Main
    PROVE  Flags'
<1>1. /\ stack[active] # <<>> /\ Top.k = "Yield" /\ Top.pc = "in" /\ active \in Tasklets
      /\ Top.sw = Main
  <2>1. stack[active] # <<>> /\ Top.k \in {"Run", "Yield"} /\ Top.pc = "in"
    BY DEF SwitchReturns
  <2>2. Top \in YieldFrames(active) /\ active \in Tasklets
    BY <2>1, InTheMiddle
  <2>. QED
    BY <2>1, <2>2 DEF YieldFrames
<1>2. PICK x \in Tasklets \ {Main} : x = active
  BY <1>1
<1>3. q.current = x
  BY <1>2, RunByMain
<1>4. Fits(q.scheduled[x], q.reschedule[x], tk[x], gl[x].state, "waking", ret)
  <2>1. ~AtYield(x, "head") /\ AtYield(x, "in")
    BY <1>1, <1>2 DEF AtYield, TopIs, Top
  <2>2. Where(x) = "waking"
    BY <1>2, <2>1 DEF Where
  <2>. QED
    BY <2>2 DEF Flags, Noted
<1>. DEFINE raised == [tk EXCEPT ![x].exc = "none"]
            back == AfterSwitch(Main, ret)
<1>5. /\ tk' = IF tk[x].exc # "none" THEN raised ELSE back
      /\ q' = q /\ gl' = gl
      /\ \E r : Continue(<<[Top EXCEPT !.pc = "out"]>> \o Tail(stack[active]), r)
  BY <1>1, <1>3 DEF SwitchReturns, Resumed
<1>6. /\ active' = x /\ stack'[x] # <<>> /\ Head(stack'[x]).pc = "out"
      /\ \A t \in Tasklets \ {x} : stack'[t] = stack[t]
  BY <1>1, <1>2, <1>5, PastTheSwitch
<1>7. /\ SameFlags(tk'[x], tk[x]) /\ tk'[x].exc = "none" /\ tk'[Main].alive
      /\ \A u \in Tasklets \ {Main, x} : tk'[u] = tk[u]
  <2>1. CASE tk[x].exc # "none"
    <3>1. tk \in [Tasklets -> TaskletType] /\ tk[x] \in TaskletType
      BY DEF Control, Types, TaskletsFit
    <3>. DEFINE v == [tk[x] EXCEPT !.exc = "none"]
    <3>2. SameFlags(v, tk[x]) /\ v.exc = "none"
      BY <3>1 DEF TaskletType, SameFlags
    <3>3. tk' = [tk EXCEPT ![x] = v]
      BY <1>5, <2>1
    <3>. HIDE DEF v
    <3>4. tk'[x] = v /\ \A u \in Tasklets \ {x} : tk'[u] = tk[u]
      BY <3>1, <3>3
    <3>. QED
      BY <3>2, <3>4, MainAssumption DEF Flags
  <2>2. CASE tk[x].exc = "none"
    <3>1. tk' = back
      BY <1>5, <2>2
    <3>2. tk'[Main].alive /\ \A u \in Tasklets \ {Main} : tk'[u] = tk[u]
      <4>1. CameBackUnfinished(Main)
        BY DEF CameBackUnfinished
      <4>2. /\ back[Main].alive <=> tk[Main].alive /\ CameBackUnfinished(Main)
            /\ \A u \in Tasklets \ {Main} : back[u] = tk[u]
        BY AfterSwitchFlags, MainAssumption
      <4>. HIDE DEF back
      <4>. QED
        BY <3>1, <4>1, <4>2 DEF Flags
    <3>. QED
      BY <2>2, <3>2 DEF SameFlags
  <2>. QED
    BY <2>1, <2>2
<1>8. Fits(q'.scheduled[x], q'.reschedule[x], tk'[x], gl'[x].state, "here", ret')
  <2>. DEFINE s == q.scheduled[x]
              r == q.reschedule[x]
              k == tk[x]
              g == gl[x].state
              v == tk'[x]
  <2>1. Fits(s, r, k, g, "waking", ret) /\ SameFlags(v, k) /\ v.exc = "none"
    BY <1>4, <1>7
  <2>. HIDE DEF s, r, k, g, v
  <2>2. Fits(s, r, v, g, "here", ret')
    BY <2>1 DEF Fits, SameFlags
  <2>. QED
    BY <1>5, <2>2 DEF s, r, g, v
<1>9. Noted(x)' /\ Sleeps(x)'
  <2>1. Where(x)' = "here"
    BY <1>6 DEF Where, AtYield, TopIs
  <2>. QED
    BY <1>6, <1>8, <2>1 DEF Noted, Sleeps
<1>10. \A t \in Tasklets \ {Main, x} : Kept(t) /\ stack'[t] = stack[t]
  BY <1>5, <1>6, <1>7 DEF Kept
<1>. QED
  BY <1>2, <1>6, <1>7, <1>9, <1>10, OneMoves

(* Nobody starts who was killed first; an exception that waits for a tasklet *)
(* is taken by that tasklet, or by one that has not started.                *)
Proper == \A t \in Tasklets :
    /\ gl[t].state = "new" /\ tk[t].exc = "TaskletExit" => gl'[t].state # "started"
    /\ tk[t].exc # "none" /\ tk'[t].exc = "none" => active = t \/ tk[t].firstRun

(* A tasklet that gives control away comes back to the loop with a wish noted. *)
LEMMA YieldSwitchesKeepsFlags ==
    ASSUME Control({}), Flags, NoTrap, YieldSwitches \/ YieldStaysBlocked
    PROVE  Flags' /\ Proper
<1>1. ~YieldStaysBlocked
  <2>1. ASSUME AtFrame("Yield", "out") PROVE ~IsBlocked(q, Top.t)
    <3>1. Top.t = active /\ active \in Tasklets
      BY <2>1, InTheMiddle DEF AtFrame
    <3>. QED
      BY <3>1 DEF IsBlocked, Control, Types, QueueFits
  <2>. QED
    BY <2>1 DEF YieldStaysBlocked
<1>2. stack[active] # <<>> /\ Top.k = "Yield" /\ Top.pc = "head" /\ YieldSwitches
  BY <1>1 DEF YieldSwitches, AtFrame
<1>3. PICK x \in Tasklets \ {Main} : x = active /\ Top.t = x
  BY <1>2, InTheMiddle
<1>4. /\ AtRun("in") /\ Target = x /\ q.current = x /\ tk[x].parent = Main
      /\ gl[x].state = "started" /\ gl[Main].state = "started" /\ Main # NULL
  BY <1>3, RunByMain, NullAssumption, MainAssumption DEF Control, Types, GreenletsFit
<1>. DEFINE f == [Top EXCEPT !.pc = "in", !.sw = Main]
            s == <<f>> \o Tail(stack[active])
<1>5. SwitchTo(Top, Main, q, tk, gl)
  BY <1>2, <1>3, <1>4 DEF YieldSwitches
<1>6. ~IsSwitchTrapped
  BY DEF IsSwitchTrapped, Control, Types, ManagerFits
<1>7. Landing(gl, Main) = Main
  BY <1>4, LandsOnMain, MainAssumption DEF Control, Types
<1>8. /\ stack' = [stack EXCEPT ![active] = <<f>> \o Tail(@)] /\ active' = Main
      /\ ret' = IF gl[Main].state = "new" THEN "none" ELSE "ok"
      /\ q' = SetCurrentTasklet(q, Main)
      /\ tk' = [tk EXCEPT ![Main].paused = FALSE, ![Main].firstRun = FALSE]
      /\ gl' = [gl EXCEPT ![Main].state = "started"]
  <2>1. tk[Main].exc = "none"
    BY DEF Control, Types, TaskletsFit
  <2>. QED
    BY <1>5, <1>6, <1>7, <2>1 DEF SwitchTo, DiesUnstarted
<1>9. ret' = "ok" /\ stack' = [stack EXCEPT ![active] = s]
  BY <1>4, <1>8
<1>10. s # <<>> /\ Head(s) = f /\ f.k = "Yield" /\ f.pc = "in"
  <2>1. Top \in YieldFrames(active) /\ Tail(stack[active]) \in Rests({}, active) /\ active # Main
    BY <1>2, <1>3, InTheMiddle
  <2>2. f \in Switching(active) /\ f.k = "Yield" /\ f.pc = "in"
    BY <2>1 DEF YieldFrames, Switching
  <2>. HIDE DEF f
  <2>. QED
    BY <2>1, <2>2, SwitchOnTop
<1>. HIDE DEF s, f
<1>11. stack'[x] = s /\ \A t \in Tasklets \ {x} : stack'[t] = stack[t]
  BY <1>3, <1>9 DEF Control, Stacks
<1>12. AtRun("in")' /\ Target' = x
  BY <1>4, <1>11, MainAssumption DEF AtRun, TopIs, Target
<1>13. q'.scheduled = q.scheduled /\ q'.reschedule = q.reschedule
  BY <1>8, SetsCurrent, MainAssumption DEF Control, Types, QueueFits
<1>14. /\ tk'[Main].alive /\ \A u \in Tasklets \ {Main} : tk'[u] = tk[u] /\ gl'[u] = gl[u]
  <2>1. tk \in [Tasklets -> TaskletType] /\ tk[Main] \in TaskletType /\ gl \in [Tasklets -> GreenletType]
    BY MainAssumption DEF Control, Types, TaskletsFit, GreenletsFit
  <2>. DEFINE v == [tk[Main] EXCEPT !.paused = FALSE, !.firstRun = FALSE]
  <2>2. v.alive
    BY <2>1 DEF TaskletType, Flags
  <2>3. tk' = [tk EXCEPT ![Main] = v]
    BY <1>8, <2>1, MainAssumption
  <2>. HIDE DEF v
  <2>. QED
    BY <1>8, <2>1, <2>2, <2>3, MainAssumption
<1>15. Fits(q'.scheduled[x], q'.reschedule[x], tk'[x], gl'[x].state, "back", ret')
  <2>1. AtYield(x, "head")
    BY <1>2, <1>3 DEF AtYield, TopIs, Top
  <2>2. Where(x) = "leaving"
    BY <1>3, <2>1 DEF Where
  <2>3. Fits(q.scheduled[x], q.reschedule[x], tk[x], gl[x].state, "leaving", ret)
    BY <2>2 DEF Flags, Noted
  <2>4. Fits(q.scheduled[x], q.reschedule[x], tk[x], gl[x].state, "back", ret')
    BY <1>4, <1>9, <2>3 DEF Fits
  <2>. QED
    BY <1>13, <1>14, <2>4
<1>16. Noted(x)' /\ Sleeps(x)'
  <2>1. Where(x)' = "back"
    BY <1>8, <1>12 DEF Where
  <2>2. AtYield(x, "in")'
    BY <1>10, <1>11 DEF AtYield, TopIs
  <2>. QED
    BY <1>15, <2>1, <2>2 DEF Noted, Sleeps
<1>17. \A t \in Tasklets \ {Main, x} : Kept(t) /\ stack'[t] = stack[t]
  BY <1>11, <1>13, <1>14 DEF Kept
<1>18. Proper
  <2>1. tk[Main].exc = "none"
    BY DEF Control, Types, TaskletsFit
  <2>. QED
    BY <1>4, <1>14, <2>1 DEF Proper
<1>. QED
  BY <1>3, <1>8, <1>12, <1>14, <1>16, <1>17, <1>18, OneMoves

(* The next tasklet is woken, starts, or ends before it has started. *)
LEMMA RunSwitchesKeepsFlags ==
    ASSUME Control({}), Flags, NoTrap, RunSwitches
    PROVE  Flags' /\ Proper
<1>1. stack[active] # <<>> /\ Top.k = "Run" /\ Top.pc = "head" /\ ~RunIsOver(Top)
  BY DEF RunSwitches, AtFrame
<1>2. active = Main /\ Top.base = Main /\ ~RunsOne /\ q.current = Main
  BY <1>1, InTheLoop
<1>3. PICK x \in Tasklets \ {Main} : x = q.next[Main] /\ q.scheduled[x]
  <2>1. q.next[Main] # NULL
    BY <1>1, <1>2 DEF RunIsOver
  <2>. QED
    BY <2>1, GoodQueue, MainAssumption DEF Control, Types, QueueFits
<1>. DEFINE k0 == [tk[x] EXCEPT !.parent = Main]
            tk0 == Adopted(tk, x, Main)
            g0 == Parented(gl, x, Main)
            out == [Top EXCEPT !.pc = "out", !.sw = x]
            in == [Top EXCEPT !.pc = "in", !.sw = x]
            rest == Tail(stack[Main])
<1>4. ~IsSwitchTrapped
  BY DEF IsSwitchTrapped, Control, Types, ManagerFits
<1>5. SwitchTo(Top, x, q, tk0, g0)
  BY <1>2, <1>3 DEF RunSwitches
<1>6. /\ tk \in [Tasklets -> TaskletType] /\ tk[x] \in TaskletType
      /\ gl \in [Tasklets -> GreenletType] /\ GreenletsFit(gl) /\ Q!Good(q)
  BY DEF Control, Types, TaskletsFit, GreenletsFit, QueueFits
<1>7. /\ tk0 \in [Tasklets -> TaskletType] /\ tk0[x] \in TaskletType
      /\ SameFlags(tk0[x], tk[x]) /\ tk0[x].exc = tk[x].exc
      /\ \A u \in Tasklets \ {x} : tk0[u] = tk[u]
  <2>1. k0 \in TaskletType /\ SameFlags(k0, tk[x]) /\ k0.exc = tk[x].exc
    BY <1>6, MainAssumption DEF TaskletType, SameFlags
  <2>2. tk0 = [tk EXCEPT ![x] = k0]
    BY DEF Adopted
  <2>. HIDE DEF k0, tk0
  <2>3. tk0[x] = k0 /\ (\A u \in Tasklets \ {x} : tk0[u] = tk[u]) /\ tk0 \in [Tasklets -> TaskletType]
    BY <1>6, <2>1, <2>2
  <2>. QED
    BY <2>1, <2>3
<1>8. /\ g0 \in [Tasklets -> GreenletType] /\ g0[x].parent = Main /\ \A u \in Tasklets : g0[u].state = gl[u].state
      /\ GreenletsFit(g0)
  <2>1. Main # NULL /\ Main \in Tasklets
    BY MainAssumption, NullAssumption
  <2>2. /\ g0 \in [Tasklets -> GreenletType] /\ g0[x].parent = Main /\ g0[x].state = gl[x].state
        /\ \A u \in Tasklets : u # x => g0[u] = gl[u]
    BY <1>6, <2>1 DEF Parented, GreenletType
  <2>. HIDE DEF g0
  <2>. QED
    BY <1>3, <1>6, <2>1, <2>2 DEF GreenletsFit
<1>9. /\ out \in Switching(Main) /\ out.pc = "out" /\ out.sw = x /\ out.k = "Run"
      /\ in \in Switching(Main) /\ in.pc = "in" /\ in.sw = x /\ in.k = "Run"
  <2>1. Top \in RunFrames
    BY <1>1, <1>2, InTheMiddle
  <2>. QED
    BY <2>1 DEF RunFrames, Switching
<1>10. rest \in Rests({}, Main)
  BY <1>1, <1>2, InTheMiddle
<1>. HIDE DEF k0, tk0, g0, out, in, rest
<1>11. Fits(q.scheduled[x], q.reschedule[x], tk[x], gl[x].state, "away", ret)
  <2>1. Where(x) = "away"
    BY <1>2 DEF Where, RunsOne
  <2>. QED
    BY <2>1 DEF Flags, Noted
<1>12. /\ tk[x].alive /\ gl[x].state \in {"new", "started"} /\ q.reschedule[x] = "NONE"
       /\ (tk[x].firstRun <=> gl[x].state = "new") /\ ~tk[x].tagged
  BY <1>3, <1>6, <1>11 DEF Fits, GreenletType
<1>13. /\ tk[Main].alive /\ active = Main /\ ~RunsOne
  BY <1>2 DEF Flags
(* Back at once: t has not been switched to. *)
<1>14. ASSUME NEW v, NEW r, Continue(<<out>> \o rest, r), q' = q, tk' = [tk0 EXCEPT ![x] = v], gl' = g0,
              Fits(TRUE, "NONE", v, gl[x].state, "out", r), gl[x].state = "new"
       PROVE  Flags' /\ Proper
  <2>. DEFINE s == <<out>> \o rest
  <2>1. s # <<>> /\ Head(s) = out
    BY <1>9, <1>10, SwitchOnTop
  <2>. HIDE DEF s
  <2>2. active' = Main /\ ret' = r /\ stack' = [stack EXCEPT ![active] = s]
    BY <1>2, <1>14, <2>1 DEF Continue, s
  <2>3. stack'[Main] = s /\ \A t \in Tasklets \ {Main} : stack'[t] = stack[t]
    BY <1>2, <2>2, MainAssumption DEF Control, Stacks
  <2>4. AtRun("out")' /\ ~AtRun("in")' /\ Target' = x
    BY <1>9, <2>1, <2>3 DEF AtRun, TopIs, Target
  <2>5. tk'[x] = v /\ \A u \in Tasklets \ {x} : tk'[u] = tk[u]
    BY <1>7, <1>14
  <2>6. Noted(x)' /\ Sleeps(x)'
    <3>1. Where(x)' = "out"
      BY <2>2, <2>4 DEF Where
    <3>2. q.scheduled[x] = TRUE
      BY <1>3, <1>6, GoodQueue DEF QueueType
    <3>3. Fits(q'.scheduled[x], q'.reschedule[x], tk'[x], gl'[x].state, "out", ret')
      BY <1>8, <1>12, <1>14, <2>2, <2>5, <3>2
    <3>4. gl'[x].state # "started"
      BY <1>8, <1>14
    <3>. QED
      BY <3>1, <3>3, <3>4 DEF Noted, Sleeps
  <2>7. \A t \in Tasklets \ {Main, x} : Kept(t) /\ stack'[t] = stack[t]
    BY <1>8, <1>14, <2>3, <2>5 DEF Kept
  <2>8. tk'[Main].alive
    BY <1>13, <2>5, MainAssumption
  <2>9. Proper
    BY <1>8, <1>12, <1>14, <2>5 DEF Proper
  <2>. QED
    BY <1>13, <2>2, <2>4, <2>6, <2>7, <2>8, <2>9, OneMoves
<1>15. CASE DiesUnstarted(tk0, x)
  <2>. DEFINE v == [tk0[x] EXCEPT !.alive = FALSE]
  <2>1. Continue(<<out>> \o rest, "ok") /\ q' = q /\ tk' = [tk0 EXCEPT ![x] = v] /\ gl' = g0
    BY <1>2, <1>4, <1>5, <1>7, <1>15 DEF SwitchTo, out, rest, DeadUnstarted
  <2>2. /\ ~v.alive /\ v.transfer = tk0[x].transfer /\ v.firstRun = tk0[x].firstRun /\ v.paused = tk0[x].paused
        /\ v.remove = tk0[x].remove /\ v.tagged = tk0[x].tagged /\ v.exc = tk0[x].exc
    BY <1>7 DEF TaskletType
  <2>. HIDE DEF v
  <2>3. gl[x].state = "new"
    BY <1>7, <1>12, <1>15 DEF DiesUnstarted, SameFlags
  <2>4. Fits(TRUE, "NONE", v, gl[x].state, "out", "ok")
    <3>. DEFINE k == tk[x]
    <3>1. /\ ~v.alive /\ v.transfer = k.transfer /\ v.firstRun = k.firstRun /\ v.exc = k.exc
          /\ v.tagged = k.tagged /\ k.firstRun /\ ~k.tagged
      BY <1>7, <1>12, <2>2, <2>3 DEF SameFlags
    <3>2. ~k.transfer
      BY <1>11 DEF Fits
    <3>. HIDE DEF k
    <3>. QED
      BY <2>3, <3>1, <3>2 DEF Fits
  <2>. QED
    BY <1>14, <2>1, <2>3, <2>4
<1>16. CASE ~DiesUnstarted(tk0, x) /\ tk0[x].firstRun /\ tk0[x].exc = "Error"
  <2>. DEFINE v == [tk0[x] EXCEPT !.exc = "none", !.remove = TRUE]
  <2>1. /\ Continue(<<out>> \o rest, "Error") /\ q' = q /\ tk' = [tk0 EXCEPT ![x] = v] /\ gl' = g0
    BY <1>2, <1>4, <1>5, <1>7, <1>16 DEF SwitchTo, out, rest
  <2>2. /\ v.remove /\ v.transfer = tk0[x].transfer /\ v.firstRun = tk0[x].firstRun /\ v.paused = tk0[x].paused
        /\ v.alive = tk0[x].alive /\ v.tagged = tk0[x].tagged /\ v.exc = "none"
    BY <1>7 DEF TaskletType
  <2>. HIDE DEF v
  <2>3. gl[x].state = "new"
    BY <1>7, <1>12, <1>16 DEF SameFlags
  <2>4. Fits(TRUE, "NONE", v, gl[x].state, "out", "Error")
    <3>. DEFINE k == tk[x]
    <3>1. /\ v.remove /\ v.transfer = k.transfer /\ v.firstRun = k.firstRun /\ v.exc = "none"
          /\ v.tagged = k.tagged /\ k.firstRun /\ ~k.tagged
      BY <1>7, <1>12, <2>2, <2>3 DEF SameFlags
    <3>2. ~k.transfer
      BY <1>11 DEF Fits
    <3>. HIDE DEF k
    <3>. QED
      BY <2>3, <3>1, <3>2 DEF Fits
  <2>. QED
    BY <1>14, <2>1, <2>3, <2>4
<1>17. CASE ~DiesUnstarted(tk0, x) /\ ~(tk0[x].firstRun /\ tk0[x].exc = "Error")
  <2>. DEFINE v == [tk0[x] EXCEPT !.paused = FALSE, !.firstRun = FALSE]
              s == <<in>> \o rest
  <2>1. Landing(g0, x) = x
    <3>1. g0[x].state # "dead"
      BY <1>8, <1>12
    <3>. QED
      BY <1>8, <3>1, LandsOnMain
  <2>2. /\ stack' = [stack EXCEPT ![active] = <<in>> \o Tail(@)]
        /\ active' = x
        /\ q' = SetCurrentTasklet(q, x)
        /\ tk' = [tk0 EXCEPT ![x].paused = FALSE, ![x].firstRun = FALSE]
        /\ gl' = [g0 EXCEPT ![x].state = "started"]
    BY <1>4, <1>5, <1>17, <2>1 DEF SwitchTo, in
  <2>3. tk' = [tk0 EXCEPT ![x] = v]
    BY <1>7, <2>2
  <2>4. /\ ~v.paused /\ ~v.firstRun /\ v.transfer = tk0[x].transfer /\ v.alive = tk0[x].alive
        /\ v.tagged = tk0[x].tagged /\ v.exc = tk0[x].exc
    BY <1>7 DEF TaskletType
  <2>. HIDE DEF v
  <2>5. tk'[x] = v /\ \A u \in Tasklets \ {x} : tk'[u] = tk[u]
    BY <1>7, <2>3
  <2>6. gl'[x].state = "started" /\ \A u \in Tasklets \ {x} : gl'[u].state = gl[u].state
    BY <1>8, <2>2 DEF GreenletType
  <2>7. q'.scheduled = q.scheduled /\ q'.reschedule = q.reschedule
    BY <1>6, <2>2, SetsCurrent
  <2>8. \A t \in Tasklets \ {Main} : stack'[t] = stack[t]
    BY <1>2, <2>2 DEF Control, Stacks
  <2>9. AtYield(x, "in") \/ (stack[x] = <<>> /\ gl[x].state = "new")
    <3>1. stack[x] # <<>> => AtYield(x, "in")
      BY <1>2 DEF Control, Suspended
    <3>2. gl[x].state = "started" => AtYield(x, "in")
      BY <1>2 DEF Flags, Sleeps
    <3>. QED
      BY <1>12, <3>1, <3>2
  <2>10. stack[x] = <<>> /\ gl[x].state = "new" => tk[x].exc = "none"
    BY <1>6, <1>7, <1>12, <1>17 DEF DiesUnstarted, SameFlags, TaskletType, Errors
  <2>11. Where(x)' = IF AtYield(x, "in") THEN "waking" ELSE "here"
    <3>1. ~AtYield(x, "head")
      BY <2>9 DEF AtYield, TopIs
    <3>2. \A pc : AtYield(x, pc)' <=> AtYield(x, pc)
      BY <2>8 DEF AtYield, TopIs
    <3>. QED
      BY <2>2, <3>1, <3>2 DEF Where
  <2>12. Fits(q'.scheduled[x], q'.reschedule[x], tk'[x], gl'[x].state, Where(x)', ret')
    <3>. DEFINE k == tk[x]
                sc == q.scheduled[x]
    <3>1. /\ ~v.paused /\ ~v.firstRun /\ v.transfer = k.transfer /\ v.alive = k.alive
          /\ v.tagged = k.tagged /\ v.exc = k.exc /\ k.alive /\ ~k.tagged /\ sc
      BY <1>3, <1>7, <1>12, <2>4 DEF SameFlags
    <3>2. ~k.transfer
      BY <1>11 DEF Fits
    <3>3. Where(x)' = "waking" \/ (Where(x)' = "here" /\ k.exc = "none")
      BY <2>9, <2>10, <2>11
    <3>. HIDE DEF k, sc
    <3>4. \A at \in {"waking", "here"} : (at = "here" => k.exc = "none") => Fits(sc, "NONE", v, "started", at, ret')
      BY <3>1, <3>2 DEF Fits
    <3>5. Fits(sc, "NONE", v, "started", Where(x)', ret')
      BY <3>3, <3>4
    <3>6. q'.scheduled[x] = sc /\ q'.reschedule[x] = "NONE"
      BY <1>12, <2>7 DEF sc
    <3>. QED
      BY <2>5, <2>6, <3>5, <3>6
  <2>13. Noted(x)' /\ Sleeps(x)'
    BY <2>2, <2>12 DEF Noted, Sleeps
  <2>14. \A t \in Tasklets \ {Main, x} : Kept(t) /\ stack'[t] = stack[t]
    BY <2>5, <2>6, <2>7, <2>8 DEF Kept
  <2>15. tk'[Main].alive
    BY <1>13, <2>5, MainAssumption
  <2>16. Proper
    <3>1. ~(gl[x].state = "new" /\ tk[x].exc = "TaskletExit")
      BY <1>7, <1>12, <1>17 DEF DiesUnstarted, SameFlags
    <3>2. tk'[x].exc = tk[x].exc
      BY <1>7, <2>4, <2>5
    <3>. QED
      BY <2>5, <2>6, <3>1, <3>2 DEF Proper
  <2>. QED
    BY <1>13, <2>2, <2>13, <2>14, <2>15, <2>16, OneMoves
<1>. QED
  BY <1>15, <1>16, <1>17

--------------------------------------------------------------------------------
(* Every step keeps the flags. *)

LEMMA CallsAreProper ==
    ASSUME Control({}), Flags, Flat, Python
    PROVE  Proper
<1>1. /\ tk \in [Tasklets -> TaskletType] /\ gl \in [Tasklets -> GreenletType]
      /\ \A t \in Tasklets : tk[t].exc # "none" => gl[t].state # "new" \/ tk[t].firstRun
  <2>1. tk \in [Tasklets -> TaskletType] /\ gl \in [Tasklets -> GreenletType] /\ tk[Main].exc = "none"
    BY DEF Control, Types, TaskletsFit, GreenletsFit
  <2>2. \A t \in Tasklets \ {Main} : gl[t].state = "new" => tk[t].firstRun
    BY DEF Flags, Noted, Fits
  <2>. QED
    BY <2>1, <2>2
<1>. DEFINE SameExc == \A t \in Tasklets : tk'[t].exc = tk[t].exc
            SameStates == \A t \in Tasklets : gl'[t].state = gl[t].state
            TakenByThem == \A t \in Tasklets :
                        tk[t].exc # "none" /\ tk'[t].exc = "none" => active = t \/ tk[t].firstRun
<1>2. TakenByThem /\ SameStates => Proper
  BY DEF Proper
<1>3. SameExc => TakenByThem
  OBVIOUS
<1>4. ASSUME Schedule \/ (\E t \in Tasklets : Run(t)) PROVE tk' = tk /\ gl' = gl
  <2>1. \A q0, conts : Yield(q0, tk, conts) => tk' = tk /\ gl' = gl
    BY DEF Yield
  <2>. QED
    BY <1>4, <2>1 DEF Schedule, Run, RunTasklet, Flat
<1>5. ASSUME ScheduleRemove PROVE SameExc /\ gl' = gl
  <2>1. tk' = [tk EXCEPT ![q.current].tagged = TRUE] /\ gl' = gl
    BY <1>5 DEF ScheduleRemove, Yield
  <2>. QED
    BY <1>1, <2>1 DEF TaskletType
<1>6. ASSUME NEW t \in Tasklets, Setup(t) PROVE Proper
  <2>1. SameExc
    <3>1. \/ tk' = [tk EXCEPT ![t].paused = TRUE, ![t].firstRun = TRUE]
          \/ tk' = [tk EXCEPT ![t].alive = TRUE, ![t].paused = FALSE, ![t].firstRun = TRUE]
      BY <1>6 DEF Setup
    <3>. QED
      BY <1>1, <3>1 DEF TaskletType
  <2>2. gl' = Replaced(t, Unborn) \/ gl' = Rebirth(t)
    BY <1>6 DEF Setup
  <2>3. \A u \in Tasklets : gl'[u].state = gl[u].state \/ gl'[u].state # "started"
    BY <2>2, ReplacedStates DEF Unborn, Rebirth
  <2>. QED
    BY <2>1, <2>3 DEF Proper
<1>7. ASSUME NEW t \in Tasklets, Bind(t) PROVE Proper
  <2>1. SameExc
    <3>1. tk' = [tk EXCEPT ![t].alive = TRUE, ![t].paused = TRUE, ![t].firstRun = TRUE]
      BY <1>7 DEF Bind
    <3>. QED
      BY <1>1, <3>1 DEF TaskletType
  <2>2. gl' = Rebirth(t)
    BY <1>7 DEF Bind
  <2>3. \A u \in Tasklets : gl'[u].state = gl[u].state \/ gl'[u].state # "started"
    BY <2>2, ReplacedStates DEF Rebirth
  <2>. QED
    BY <2>1, <2>3 DEF Proper
<1>8. ASSUME NEW t \in Tasklets, Unbind(t) PROVE Proper
  <2>1. SameExc
    <3>1. tk' = tk \/ tk' = [tk EXCEPT ![t].alive = FALSE]
      BY <1>8 DEF Unbind
    <3>. QED
      BY <1>1, <3>1 DEF TaskletType
  <2>2. gl' = gl \/ gl' = Replaced(t, Unborn)
    BY <1>8 DEF Unbind
  <2>3. \A u \in Tasklets : gl'[u].state = gl[u].state \/ gl'[u].state # "started"
    BY <2>2, ReplacedStates DEF Unborn
  <2>. QED
    BY <2>1, <2>3 DEF Proper
<1>9. ASSUME NEW t \in Tasklets, Insert(t) \/ Remove(t) PROVE SameExc /\ gl' = gl
  <2>1. gl' = gl /\ (tk' = tk \/ \E b \in BOOLEAN : tk' = [tk EXCEPT ![t].paused = b])
    BY <1>9 DEF Insert, Remove
  <2>. QED
    BY <1>1, <2>1 DEF TaskletType
<1>10. ASSUME NEW t \in Tasklets, Switch(t) PROVE FALSE
  BY <1>10, CallIsMade, FlatCalls DEF Switch
<1>11. \A q0, tk0, conts, t : ~Nested /\ RunTasklet(t, q0, tk0, conts) => tk' = tk0 /\ gl' = gl
  BY DEF RunTasklet, Yield
<1>12. ASSUME NEW t \in Tasklets, NEW pending \in BOOLEAN, Kill(t, pending) PROVE Proper
  <2>1. /\ KillTasklet(t, pending, <<>>) /\ ~Nested /\ \E op : Calls(op)
    BY <1>12 DEF Kill, Flat
  <2>2. q.current = active
    BY <2>1, CallIsMade
  <2>3. /\ gl' = gl
        /\ \/ tk' = tk
           \/ t = active /\ tk' = [tk EXCEPT ![t].exc = "none"]
           \/ tk' = [tk EXCEPT ![t].exc = "TaskletExit"]
           \/ \E d : tk' = [tk EXCEPT ![t].exc = "TaskletExit", ![t].killPending = TRUE, ![t].dir = d]
    BY <1>11, <2>1, <2>2 DEF KillTasklet
  <2>4. TakenByThem
    BY <1>1, <2>3 DEF TaskletType
  <2>. QED
    BY <1>2, <2>3, <2>4
<1>13. ASSUME NEW t \in Tasklets, NEW pending \in BOOLEAN, Throw(t, pending) PROVE Proper
  <2>1. (\E op : Calls(op)) /\ ~Nested /\ t # Main
    BY <1>13 DEF Throw, Flat
  <2>2. q.current = active /\ stack[active] \in Rests({}, active)
    BY <2>1, CallIsMade
  <2>3. /\ gl' = gl
        /\ \/ (t = active \/ ~tk[t].alive) /\ tk' = [tk EXCEPT ![t].exc = "none"]
           \/ tk' = [tk EXCEPT ![t].exc = "Error"]
    BY <1>11, <1>13, <2>1, <2>2 DEF Throw
  <2>4. t # active /\ ~tk[t].alive => tk[t].exc = "none" \/ tk[t].firstRun
    BY <2>1, <2>2, FlagsInACall DEF Fits
  <2>5. TakenByThem
    BY <1>1, <2>3, <2>4 DEF TaskletType
  <2>. QED
    BY <1>2, <2>3, <2>5
<1>14. ASSUME \/ RunScheduler \/ (\E n \in 1..MaxLimit : RunNTasklets(n)) \/ RunTaskletsForTime
              \/ (\E delta \in {-1, 1} : SwitchTrap(delta)) \/ Catch
       PROVE  tk' = tk /\ gl' = gl
  BY <1>14 DEF RunScheduler, RunNTasklets, RunTaskletsForTime, SwitchTrap, Catch
<1>15. ASSUME Finish \/ Raise \/ Propagate \/ Swallow PROVE Proper
  <2>1. tk' = tk /\ gl' = [gl EXCEPT ![active].state = "dead"]
    BY <1>15 DEF Finish, Raise, Propagate, Swallow, Dies
  <2>2. \A u \in Tasklets : gl'[u].state = gl[u].state \/ gl'[u].state # "started"
    BY <1>1, <2>1 DEF GreenletType
  <2>. QED
    BY <2>1, <2>2 DEF Proper
<1>. HIDE DEF TakenByThem, SameExc, SameStates
<1>16. tk' = tk /\ gl' = gl => Proper
  BY DEF Proper
<1>17. SameExc /\ gl' = gl => Proper
  BY <1>2, <1>3 DEF SameStates
<1>. QED
  BY <1>4, <1>5, <1>6, <1>7, <1>8, <1>9, <1>10, <1>12, <1>13, <1>14, <1>15, <1>16, <1>17 DEF Python

(* A program that keeps to Flat and Plain. *)
LEMMA PythonKeepsFlags ==
    ASSUME Control({}), Flags, Flat, Plain, Python
    PROVE  Flags'
<1>1. ASSUME NEW t \in Tasklets,
             \/ Run(t) \/ Setup(t) \/ Bind(t) \/ Unbind(t) \/ Insert(t) \/ Remove(t) \/ Switch(t)
             \/ \E pending \in BOOLEAN : Kill(t, pending) \/ Throw(t, pending)
      PROVE  Flags'
  <2>1. ~Switch(t)
    BY CallIsMade, FlatCalls DEF Switch
  <2>. QED
    BY <1>1, <2>1, RunKeepsFlags, SetupKeepsFlags, BindKeepsFlags, UnbindKeepsFlags,
       InsertKeepsFlags, RemoveKeepsFlags, KillKeepsFlags, ThrowKeepsFlags
<1>2. ASSUME Finish \/ Raise \/ Propagate \/ Swallow PROVE Flags'
  <2>1. stack[active] = <<>> /\ \E r \in Outcomes : Dies(r)
    BY <1>2, RetIsAnOutcome, SimpleOutcomes
       DEF Finish, Raise, Propagate, Swallow, Calls, Running, Raising, InPython
  <2>. QED
    BY <2>1, DiesKeepsFlags
<1>3. ASSUME NEW delta \in {-1, 1}, SwitchTrap(delta) PROVE FALSE
  BY <1>3, CallIsMade DEF SwitchTrap, Plain, NoTrap, AllOps, CalledBy
<1>. QED
  BY <1>1, <1>2, <1>3, ScheduleKeepsFlags, ScheduleRemoveKeepsFlags, RunSchedulerKeepsFlags,
     CatchKeepsFlags DEF Python

(* Where SwitchTo or Run takes an exception, it is that of the tasklet it is about. *)
LEMMA OtherStepsAreProper ==
    ASSUME Control({}), Flags, SwitchReturns \/ RunContinues \/ RunFails
    PROVE  Proper
<1>1. tk \in [Tasklets -> TaskletType] /\ gl \in [Tasklets -> GreenletType] /\ tk[Main].exc = "none"
  BY DEF Control, Types, TaskletsFit, GreenletsFit
<1>2. ASSUME SwitchReturns PROVE Proper
  <2>1. stack[active] # <<>> /\ Top.k \in {"Run", "Yield"} /\ Top.pc = "in" /\ ~q.nullDeref /\ gl' = gl
        /\ tk' = IF tk[q.current].exc # "none" THEN [tk EXCEPT ![q.current].exc = "none"]
                 ELSE AfterSwitch(Top.sw, ret)
    BY <1>2 DEF SwitchReturns, Resumed
  <2>2. tk[q.current].exc # "none" => q.current = active
    <3>1. active # Main => q.current = active
      BY RunByMain
    <3>2. active = Main => tk[q.current].exc = "none"
      <4>. SUFFICES ASSUME active = Main PROVE tk[q.current].exc = "none"
        OBVIOUS
      <4>1. AtFrame("Run", "in")
        BY <2>1, InTheMiddle DEF AtFrame
      <4>. QED
        BY <1>1, <2>1, <4>1, BackInTheLoop DEF Fits
    <3>. QED
      BY <3>1, <3>2
  <2>3. Top.sw \in Tasklets
    <3>1. Top \in Switching(active) /\ active \in Tasklets
      BY <2>1, InTheMiddle
    <3>. QED
      BY <2>1, <3>1, MainAssumption DEF Switching, RunFrames, YieldFrames
  <2>4. CASE tk[q.current].exc # "none"
    BY <1>1, <2>1, <2>2, <2>4 DEF Proper, TaskletType
  <2>5. CASE tk[q.current].exc = "none"
    <3>1. \A t \in Tasklets : tk'[t].exc = tk[t].exc
      BY <2>1, <2>3, <2>5, AfterSwitchFlags
    <3>. QED
      BY <2>1, <3>1 DEF Proper
  <2>. QED
    BY <2>4, <2>5
<1>3. ASSUME RunContinues PROVE Proper
  <2>1. AtFrame("Run", "out") /\ Top.pc = "out"
    BY <1>3 DEF RunContinues, AtFrame
  <2>2. PICK x \in Tasklets \ {Main} :
           x = Top.sw /\ Fits(q.scheduled[x], q.reschedule[x], tk[x], gl[x].state, "out", ret)
    BY <2>1, BackInTheLoop
  <2>3. ret = "TaskletExit" => tk[x].exc = "none"
    BY <2>2 DEF Fits
  <2>4. \A t \in Tasklets : tk'[t].exc = tk[t].exc
    <3>1. tk' = [tk EXCEPT ![x].exc = IF ret = "TaskletExit" THEN "none" ELSE @,
                           ![x].parent = IF tk[x].alive THEN @ ELSE NULL]
      BY <1>3, <2>2 DEF RunContinues
    <3>. QED
      BY <1>1, <2>2, <2>3, <3>1 DEF TaskletType
  <2>5. \A t \in Tasklets : gl'[t].state = gl[t].state
    <3>1. gl' = gl \/ gl' = Parented(gl, x, NULL)
      BY <1>3, <2>2 DEF RunContinues
    <3>. QED
      BY <1>1, <3>1 DEF Parented, GreenletType
  <2>. QED
    BY <2>4, <2>5 DEF Proper
<1>4. ASSUME RunFails PROVE Proper
  <2>1. AtFrame("Run", "out")
    BY <1>4 DEF RunFails
  <2>2. PICK x \in Tasklets : x = Top.sw
    BY <2>1, BackInTheLoop
  <2>3. /\ tk' = tk \/ tk' = [tk EXCEPT ![x].parent = NULL]
        /\ gl' = gl \/ gl' = Parented(gl, x, NULL)
    BY <1>4, <2>2 DEF RunFails
  <2>4. \A t \in Tasklets : tk'[t].exc = tk[t].exc /\ gl'[t].state = gl[t].state
    BY <2>3, ParentForgotten
  <2>. QED
    BY <2>4 DEF Proper
<1>. QED
  BY <1>2, <1>3, <1>4

LEMMA SchedulerKeepsFlags ==
    ASSUME Control({}), Flags, NoTrap, Scheduler
    PROVE  Flags' /\ Proper
<1>1. ASSUME SwitchReturns \/ RunContinues \/ RunFails PROVE Flags' /\ Proper
  BY <1>1, LoopSwitchReturns, YieldSwitchReturns, RunContinuesKeepsFlags, RunFailsKeepsFlags,
     OtherStepsAreProper
<1>2. ASSUME RunEnds \/ RunCannotAdopt \/ YieldReturns PROVE Flags' /\ Proper
  BY <1>2, RunEndsKeepsFlags, YieldReturnsKeepsFlags DEF Proper, RunEnds, RunCannotAdopt, YieldReturns
<1>3. ASSUME YieldMainReturns \/ KillReturns \/ LimitedRunReturns PROVE Flags' /\ Proper
  BY <1>3, ReturnsKeepFlags DEF Proper, YieldMainReturns, KillReturns, LimitedRunReturns
<1>. QED
  BY <1>1, <1>2, <1>3, RunSwitchesKeepsFlags, YieldSwitchesKeepsFlags, SwitchIsNotCalled DEF Scheduler

LEMMA StutterKeepsFlags ==
    ASSUME Flags, UNCHANGED vars
    PROVE  Flags' /\ Proper
<1>1. Proper
  BY DEF vars, Proper
<1>. QED
  BY <1>1 DEF vars, Flags, Noted, Sleeps, Where, AtYield, AtRun, TopIs, Target

LEMMA NextKeepsFlags ==
    ASSUME Control({}), Flags, Flat, Plain, [Next]_vars
    PROVE  Flags' /\ Proper
<1>1. NoTrap
  BY DEF Plain
<1>. QED
  BY <1>1, PythonKeepsFlags, CallsAreProper, SchedulerKeepsFlags, StutterKeepsFlags DEF Next, MainIdle

LEMMA FlagsAreCalm ==
    ASSUME Control({}), Flags
    PROVE  Calm
<1>. SUFFICES ASSUME active = Main, AtRun("in") PROVE tk[q.current].exc # "Error"
  BY DEF Calm
<1>1. AtFrame("Run", "in")
  <2>1. ~q.nullDeref
    BY GoodQueue DEF Control, Types, QueueFits
  <2>. QED
    BY <2>1 DEF AtFrame, AtRun, TopIs, Top
<1>2. tk[Main].exc = "none" /\ Top.pc = "in"
  BY <1>1 DEF Control, Types, TaskletsFit, AtFrame
<1>. QED
  BY <1>1, <1>2, BackInTheLoop DEF Fits

LEMMA InitFlags ==
    ASSUME Init
    PROVE  Flags
<1>1. tk[Main].alive
  BY MainAssumption DEF Init
<1>2. ASSUME NEW t \in Tasklets \ {Main} PROVE Noted(t) /\ Sleeps(t)
  <2>1. active = Main /\ \A u \in Tasklets : stack[u] = <<>>
    BY DEF Init
  <2>2. Where(t) = "away"
    BY <2>1, MainAssumption DEF Where, AtRun, TopIs
  <2>3. ~q.scheduled[t] /\ q.reschedule[t] = "NONE" /\ gl[t].state = "unborn"
    BY DEF Init, InitQueue
  <2>4. /\ ~tk[t].alive /\ ~tk[t].transfer /\ tk[t].exc = "none" /\ ~tk[t].tagged
    BY DEF Init
  <2>5. Fits(q.scheduled[t], q.reschedule[t], tk[t], gl[t].state, "away", ret)
    BY <2>3, <2>4 DEF Fits
  <2>. QED
    BY <2>2, <2>3, <2>5 DEF Noted, Sleeps
<1>. QED
  BY <1>1, <1>2 DEF Flags

(* The inductive invariant.  Control: main runs the only loop, whoever else *)
(* has begun is suspended in its Yield, and parents, current tasklet and     *)
(* queue say so.  Flags: what is noted on a tasklet fits the place it is at. *)
THEOREM SchedulerInvariant ==
    ASSUME Flat, Plain
    PROVE  Spec => [](Control({}) /\ Flags)
<1>1. Init => Control({}) /\ Flags
  BY InitIsUnderControl, InitFlags
<1>2. (Control({}) /\ Flags) /\ [Next]_vars => (Control({}) /\ Flags)'
  <2>. SUFFICES ASSUME Control({}), Flags, [Next]_vars PROVE Control({})' /\ Flags'
    OBVIOUS
  <2>1. Calm
    BY FlagsAreCalm
  <2>. QED
    BY <2>1, NextKeepsControl, NextKeepsFlags
<1>. QED
  BY <1>1, <1>2, PTL DEF Spec

--------------------------------------------------------------------------------
(* The theorems.  They are about the scheduler on its own, without nesting, *)
(* for programs that keep to Flat; what they say of the flags needs Plain   *)
(* as well, and the others hold too where no exceptions are thrown.         *)

LEMMA AlwaysUnderControl ==
    ASSUME Flat, NoThrow \/ Plain
    PROVE  Spec => [](Control({}) /\ Calm)
<1>1. CASE NoThrow
  <2>1. Init => Control({})
    BY InitIsUnderControl
  <2>2. Control({}) => Calm
    BY <1>1, QuietIsCalm
  <2>3. Control({}) /\ Calm /\ [Next]_vars => Control({})'
    BY NextKeepsControl
  <2>. QED
    BY <2>1, <2>2, <2>3, PTL DEF Spec
<1>2. CASE Plain
  <2>1. Control({}) /\ Flags => Control({}) /\ Calm
    BY FlagsAreCalm
  <2>. QED
    BY <1>2, <2>1, SchedulerInvariant, PTL
<1>. QED
  BY <1>1, <1>2

(* Every variable keeps its type: the run queue, the flags of the tasklets, *)
(* the greenlets, and the limits of the ScheduleManager, whose countdown    *)
(* never goes below -1, which stands for no limit.                          *)
THEOREM FlatTypeCorrect ==
    ASSUME Flat, NoThrow \/ Plain
    PROVE  Spec => []TypeOK
<1>1. Control({}) /\ Calm => TypeOK
  BY ControlShows
<1>. QED
  BY <1>1, AlwaysUnderControl, PTL

(* The tasklet whose code runs is the one that m_currentTasklet, and so     *)
(* getcurrent(), names, although both are set in different places and a     *)
(* switch that fails, or a greenlet that dies, changes one without the      *)
(* other.                                                                   *)
THEOREM FlatCurrentIsActive ==
    ASSUME Flat, NoThrow \/ Plain
    PROVE  Spec => []CurrentIsActive
<1>1. Control({}) /\ Calm => CurrentIsActive
  BY ControlShows
<1>. QED
  BY <1>1, AlwaysUnderControl, PTL

(* Whoever waits in the loop of Run is the parent of the tasklet it has     *)
(* switched to, so that control comes back to it when that tasklet yields   *)
(* or its greenlet dies.                                                    *)
THEOREM FlatRunnersWait ==
    ASSUME Flat, NoThrow \/ Plain
    PROVE  Spec => []RunnersWait
<1>1. Control({}) /\ Calm => RunnersWait
  BY ControlShows
<1>. QED
  BY <1>1, AlwaysUnderControl, PTL

(* The limits in the ScheduleManager are those of the call of               *)
(* RunNTasklets or RunTaskletsForTime that main waits in, and there are     *)
(* none when it waits in no such call, however that call has ended.         *)
THEOREM FlatLimitsMatch ==
    ASSUME Flat, NoThrow \/ Plain
    PROVE  Spec => []LimitsMatchTheCall
<1>1. Control({}) /\ Calm => LimitsMatchTheCall
  BY DEF Control
<1>. QED
  BY <1>1, AlwaysUnderControl, PTL

(* The scheduler implements the queue: whatever call is made, and however   *)
(* many are suspended in the middle of Run and Yield, each step changes the *)
(* queue as one of RunQueue's operations does, or not at all.  So what      *)
(* RunQueueProofs says of RunQueue holds of the scheduler's queue.          *)
THEOREM FlatQueueSpec ==
    ASSUME Flat, NoThrow \/ Plain
    PROVE  Spec => QueueSpec
<1>1. (Control({}) /\ Calm) /\ [Next]_vars => [Queue!Next]_q
  BY NextIsAStep
<1>. QED
  BY <1>1, InitIsInit, AlwaysUnderControl, PTL DEF Spec, QueueSpec, Queue!Spec

(* Under switch_trap, SwitchTo refuses before it changes anything: whatever *)
(* call is made, control leaves the running greenlet only when its code     *)
(* ends.                                                                    *)
THEOREM FlatTrapKeepsControl ==
    ASSUME Flat, NoThrow \/ Plain
    PROVE  Spec => TrapKeepsControl
<1>1. ASSUME Control({}) /\ Calm, [Next]_vars
      PROVE  [mgr.trap > 0 /\ active' # active => gl'[active].state = "dead"]_vars
  <2>1. ASSUME Next, mgr.trap > 0, active' # active PROVE gl'[active].state = "dead"
    BY <1>1, <2>1, CallsStayHere, SwitchesAreTrapped DEF Next, MainIdle, vars
  <2>. QED
    BY <1>1, <2>1
<1>. QED
  BY <1>1, AlwaysUnderControl, PTL DEF Spec, TrapKeepsControl

(* A tasklet whose greenlet can go on and that nobody has paused, blocked or *)
(* marked for removal is in the run queue: the four places that put one back *)
(* in, and the two that take one out, never leave it out together.           *)
THEOREM FlatNoLostTasklet ==
    ASSUME Flat, Plain
    PROVE  Spec => []NoLostTasklet
<1>1. ASSUME Control({}), Flags PROVE NoLostTasklet
  <2>1. q.scheduled[Main]
    BY <1>1, GoodQueue DEF Control, Types, QueueFits
  <2>2. ASSUME NEW t \in Tasklets \ {Main}, gl[t].state \in {"new", "started"}, tk[t].alive,
               ~tk[t].paused, ~tk[t].remove
        PROVE  q.scheduled[t]
    <3>1. Noted(t)
      BY <1>1, <2>2 DEF Flags
    <3>. QED
      BY <2>2, <3>1 DEF Noted, Fits
  <2>. QED
    BY <2>1, <2>2 DEF NoLostTasklet
<1>. QED
  BY <1>1, SchedulerInvariant, PTL

LEMMA FlagsInCode ==
    ASSUME Control({}), Flags, InCode, NEW t \in Tasklets \ {Main}
    PROVE  Fits(q.scheduled[t], q.reschedule[t], tk[t], gl[t].state,
                IF t = active THEN "here" ELSE "away", ret)
<1>1. stack[active] \in Rests({}, active)
  BY EmptyStack DEF InCode, Running, InPython
<1>2. Where(t) = IF t = active THEN "here" ELSE "away"
  BY <1>1, WhereInACall
<1>3. Noted(t)
  BY DEF Flags
<1>. QED
  BY <1>2, <1>3 DEF Noted

(* Whoever is in the run queue while code runs has a greenlet that can be    *)
(* switched to: one that has ended has been dropped before anyone else ran,  *)
(* and one that is bound anew is not in it.                                  *)
THEOREM FlatQueuedCanRun ==
    ASSUME Flat, Plain
    PROVE  Spec => []QueuedCanRun
<1>1. ASSUME Control({}), Flags PROVE QueuedCanRun
  <2>. SUFFICES ASSUME InCode, NEW t \in Tasklets, q.scheduled[t]
                PROVE  gl[t].state \in {"new", "started"}
    BY DEF QueuedCanRun
  <2>1. CASE t = Main
    BY <1>1, <2>1 DEF Control, Types, GreenletsFit
  <2>2. CASE t # Main
    <3>1. gl[t].state \in {"unborn", "new", "started", "dead"}
      BY <1>1 DEF Control, Types, GreenletsFit, GreenletType
    <3>2. Fits(q.scheduled[t], q.reschedule[t], tk[t], gl[t].state,
               IF t = active THEN "here" ELSE "away", ret)
      BY <1>1, <2>2, FlagsInCode
    <3>3. gl[t].state # "unborn"
      BY <3>2 DEF Fits
    <3>4. gl[t].state # "dead"
      BY <3>2 DEF Fits
    <3>. QED
      BY <3>1, <3>3, <3>4
  <2>. QED
    BY <2>1, <2>2
<1>. QED
  BY <1>1, SchedulerInvariant, PTL

(* SwitchTo's guess of how a switch has come back is right: a tasklet is     *)
(* alive from its first step until its code ends, also when it was killed,   *)
(* taken out of the queue or put back into it while it was suspended.        *)
THEOREM FlatAliveUntilDone ==
    ASSUME Flat, Plain
    PROVE  Spec => []AliveUntilDone
<1>1. ASSUME Control({}), Flags PROVE AliveUntilDone
  <2>1. tk[Main].alive /\ gl[Main].state = "started"
    BY <1>1 DEF Flags, Control, Types, GreenletsFit
  <2>2. ASSUME InCode, NEW t \in Tasklets \ {Main}
        PROVE  (gl[t].state = "started" => tk[t].alive) /\ (gl[t].state = "dead" => ~tk[t].alive)
    <3>1. Fits(q.scheduled[t], q.reschedule[t], tk[t], gl[t].state,
               IF t = active THEN "here" ELSE "away", ret)
      BY <1>1, <2>2, FlagsInCode
    <3>. QED
      BY <3>1 DEF Fits
  <2>. QED
    BY <2>1, <2>2 DEF AliveUntilDone, AliveWhileItRuns, DoneIsNotAlive
<1>. QED
  BY <1>1, SchedulerInvariant, PTL

(* SwitchTo takes the pending exception of m_currentTasklet when a switch    *)
(* comes back: this is always the tasklet that comes back, or one whose      *)
(* first switch has failed.                                                  *)
THEOREM FlatThrownAtItsTarget ==
    ASSUME Flat, Plain
    PROVE  Spec => ThrownAtItsTarget
<1>1. ASSUME Control({}) /\ Flags, [Next]_vars
      PROVE  [\A t \in Tasklets : tk[t].exc # "none" /\ tk'[t].exc = "none"
                                  => active = t \/ tk[t].firstRun]_vars
  BY <1>1, NextKeepsFlags DEF Proper
<1>. QED
  BY <1>1, SchedulerInvariant, PTL DEF Spec, ThrownAtItsTarget
--------------------------------------------------------------------------------
(* Kill, when it returns.  Where the links of the queue lead decides who    *)
(* runs after whom.                                                         *)

(* Whoever is behind u in the queue has u in front of it. *)
LEMMA LinksMatch ==
    ASSUME NEW x, Q!Good(x), NEW t \in Tasklets \ {Main}, x.scheduled[t], NEW u \in Tasklets
    PROVE  x.prev[t] = u <=> x.next[u] = t
<1>1. PICK s \in [0..x.count -> Tasklets] : Q!Lists(s, x)
  BY DEF Q!Good, Q!WellFormed
<1>2. x.count \in Nat /\ t # NULL
  BY NullAssumption DEF Q!Good, Q!WellFormed
<1>. DEFINE n == x.count
<1>3. /\ s[0] = Main
      /\ \A i, j \in 0..n : s[i] = s[j] => i = j
      /\ \A v \in Tasklets : x.scheduled[v] <=> \E i \in 0..n : s[i] = v
      /\ \A i \in 0..n : x.next[s[i]] = IF i = n THEN NULL ELSE s[i+1]
      /\ \A i \in 0..n : x.prev[s[i]] = IF i = 0 THEN NULL ELSE s[i-1]
      /\ \A v \in Tasklets : ~x.scheduled[v] => x.next[v] = NULL
  BY <1>1 DEF Q!Lists
<1>. HIDE DEF n
<1>4. n \in Nat
  BY <1>2 DEF n
<1>5. PICK i \in 0..n : s[i] = t
  BY <1>3
<1>6. i # 0 /\ i - 1 \in 0..n /\ i - 1 # n /\ (i - 1) + 1 = i
  BY <1>3, <1>4, <1>5
<1>7. x.prev[t] = s[i-1] /\ x.next[s[i-1]] = t
  BY <1>3, <1>5, <1>6
<1>8. ASSUME x.next[u] = t PROVE u = s[i-1]
  <2>1. PICK j \in 0..n : s[j] = u
    BY <1>2, <1>3, <1>8
  <2>2. j # n /\ s[j+1] = t /\ j + 1 \in 0..n
    BY <1>2, <1>3, <1>4, <1>8, <2>1
  <2>3. j + 1 = i
    BY <1>3, <1>5, <2>2
  <2>. QED
    BY <1>4, <2>1, <2>3
<1>. QED
  BY <1>7, <1>8

LEMMA LinksAfterRemoving ==
    ASSUME NEW x, Q!Good(x), NEW t \in Tasklets \ {Main}, x.scheduled[t], NEW u \in Tasklets,
           NEW y, y = RemoveTasklet(x, t) \/ y = DropFromQueue(x, t)
    PROVE  y.next[u] = IF u = t THEN NULL ELSE IF x.next[u] = t THEN x.next[t] ELSE x.next[u]
<1>1. Q!Unlinked(x, y, t)
  BY SameInserts, SameMoves, RunQueueAssumptions, Q!RemoveKeepsTheList, Q!DropKeepsTheList
<1>2. y.next[u] = IF u = t THEN NULL ELSE IF u = x.prev[t] THEN x.next[t] ELSE x.next[u]
  BY <1>1 DEF Q!Unlinked
<1>. QED
  BY <1>2, LinksMatch

(* Whoever is somewhere behind another in the queue is behind it still. *)
LEMMA LinksAfterInserting ==
    ASSUME NEW x, Q!Good(x), NEW t \in Tasklets, NEW u \in Tasklets, x.next[u] # NULL
    PROVE  InsertTasklet(x, t).next[u] = x.next[u]
<1>. DEFINE y == InsertTasklet(x, t)
<1>1. IF x.scheduled[t] THEN y.next = x.next ELSE Q!Linked(x, y, t, x.tail)
  BY SameInserts, RunQueueAssumptions, Q!InsertKeepsTheList
<1>2. x.next[x.tail] = NULL
  BY RunQueueAssumptions, Q!ListFacts DEF Q!Good
<1>3. ~x.scheduled[t] => x.next[t] = NULL
  BY DEF Q!Good, Q!WellFormed, Q!Lists
<1>. HIDE DEF y
<1>4. y.next[u] = x.next[u]
  BY <1>1, <1>2, <1>3 DEF Q!Linked
<1>. QED
  BY <1>4 DEF y

LEMMA LinksAfterRunNext ==
    ASSUME NEW x, Q!Good(x), NEW t \in Tasklets, ~x.scheduled[t], x.scheduled[x.current],
           NEW u \in Tasklets
    PROVE  InsertTaskletToRunNext(x, t).next[u] =
              IF u = x.current THEN t ELSE IF u = t THEN x.next[x.current] ELSE x.next[u]
<1>. DEFINE y == InsertTaskletToRunNext(x, t)
<1>1. Q!Linked(x, y, t, x.current)
  BY SameInserts, RunQueueAssumptions, Q!InsertToRunNextKeepsTheList
<1>. HIDE DEF y
<1>2. y.next[u] = IF u = x.current THEN t ELSE IF u = t THEN x.next[x.current] ELSE x.next[u]
  BY <1>1 DEF Q!Linked
<1>. QED
  BY <1>2 DEF y

LEMMA LinksAfterMoving ==
    ASSUME NEW x, Q!Good(x), NEW t \in Tasklets \ {Main}, t # x.current, x.scheduled[x.current]
    PROVE  LET y == MoveToRunNext(x, t)
           IN  /\ y.next[x.current] = t /\ y.reschedule[x.current] = "FRONT_PLUS_ONE"
               /\ \A u \in Tasklets \ {t, x.current} : x.next[u] # t => y.next[u] = x.next[u]
<1>. DEFINE out == IF x.scheduled[t] THEN RemoveTasklet(x, t) ELSE x
            in == InsertTaskletToRunNext(out, t)
            y == SetReschedule(in, x.current, "FRONT_PLUS_ONE")
<1>1. /\ Q!Good(out) /\ out.current = x.current /\ out.scheduled[out.current] /\ ~out.scheduled[t]
      /\ x.current \in Tasklets
  BY RemoveRemoves DEF Removed, Q!Good
<1>2. \A u \in Tasklets \ {t} : x.next[u] # t => out.next[u] = x.next[u]
  BY LinksAfterRemoving
<1>. HIDE DEF out
<1>3. \A u \in Tasklets : in.next[u] =
          IF u = out.current THEN t ELSE IF u = t THEN out.next[out.current] ELSE out.next[u]
  BY <1>1, LinksAfterRunNext
<1>4. in \in QueueType
  BY <1>1, InsertsInsert, GoodQueue DEF Inserted
<1>. HIDE DEF in
<1>5. y.next = in.next /\ y.reschedule[x.current] = "FRONT_PLUS_ONE"
  BY <1>1, <1>4 DEF SetReschedule, QueueType
<1>6. y = MoveToRunNext(x, t)
  BY DEF y, in, out, MoveToRunNext
<1>. HIDE DEF y
<1>7. /\ y.next[x.current] = t
      /\ \A u \in Tasklets \ {t, x.current} : x.next[u] # t => y.next[u] = x.next[u]
  BY <1>1, <1>2, <1>3, <1>5
<1>. QED
  BY <1>5, <1>6, <1>7

(* The first of the queue gives control back: who was behind it is first    *)
(* now, and has it behind itself if it was to come back second.             *)
LEMMA LinksAfterReturning ==
    ASSUME NEW x, Q!Good(x), NEW t \in Tasklets \ {Main}, x.scheduled[t], x.next[Main] = t,
           NEW y, y = ReturnToRunner(x, t, Main)
    PROVE  /\ x.reschedule[t] = "NONE" => y.next[Main] = x.next[t]
           /\ x.reschedule[t] = "FRONT_PLUS_ONE" =>
                \A v \in Tasklets : x.next[t] = v => y.next[Main] = v /\ y.next[v] = t
<1>. DEFINE c == SetCurrentTasklet(x, Main)
            d == DropFromQueue(c, t)
<1>1. /\ Q!Good(c) /\ c.current = Main /\ c.scheduled = x.scheduled
      /\ c.reschedule = x.reschedule /\ \A u : c.next[u] = x.next[u]
  BY SetsCurrent, MainAssumption
<1>. HIDE DEF c
<1>2. /\ Q!Good(d) /\ d.current = Main /\ d.reschedule = x.reschedule
      /\ \A u \in Tasklets : d.scheduled[u] <=> (u # t /\ x.scheduled[u])
  BY <1>1, SameMoves, RunQueueAssumptions, Q!DropKeepsTheList
<1>3. d.next[Main] = x.next[t]
  BY <1>1, MainAssumption, LinksAfterRemoving
<1>4. y = ReinsertAsAsked(d, t)
  BY MainAssumption, NullAssumption DEF c, d, ReturnToRunner
<1>. HIDE DEF d
<1>5. x.reschedule[t] = "NONE" => y.next[Main] = x.next[t]
  BY <1>2, <1>3, <1>4 DEF ReinsertAsAsked
<1>6. ASSUME x.reschedule[t] = "FRONT_PLUS_ONE", NEW v \in Tasklets, x.next[t] = v
      PROVE  y.next[Main] = v /\ y.next[v] = t
  <2>. DEFINE e == RemoveTasklet(d, v)
              f == InsertTaskletToRunNext(e, t)
              g == InsertTaskletToRunNext(f, v)
  <2>1. v \in Tasklets \ {Main, t} /\ d.scheduled[v] /\ v # NULL
    <3>1. v # NULL /\ x.next[t] # NULL
      BY <1>6, NullAssumption
    <3>2. v \in Tasklets \ {Main, t} /\ x.scheduled[v]
      BY <1>6, <3>1, RunQueueAssumptions, Q!ListFacts DEF Q!Good
    <3>. QED
      BY <1>2, <3>1, <3>2
  <2>2. y = SetReschedule(g, t, "NONE")
    <3>1. d.next[d.current] = v
      BY <1>2, <1>3, <1>6
    <3>2. InsertBehindFront(d, t) = g
      BY <2>1, <3>1 DEF InsertBehindFront
    <3>3. d.reschedule[t] = "FRONT_PLUS_ONE"
      BY <1>2, <1>6
    <3>4. ReinsertAsAsked(d, t) = SetReschedule(InsertBehindFront(d, t), t, "NONE")
      BY <3>3 DEF ReinsertAsAsked
    <3>. QED
      BY <1>4, <3>2, <3>4
  <2>3. Removed(d, e, v)
    BY <1>2, <2>1, RemoveRemoves
  <2>. HIDE DEF e
  <2>4. /\ Q!Good(e) /\ e.current = Main /\ e.scheduled[e.current]
        /\ ~e.scheduled[v] /\ ~e.scheduled[t]
    BY <1>2, <2>3, GoodQueue, MainAssumption DEF Removed
  <2>5. Inserted(e, f, t) /\ f.next[Main] = t
    <3>1. f.next[Main] = t
      BY <2>4, MainAssumption, LinksAfterRunNext
    <3>. QED
      BY <2>4, <3>1, InsertsInsert
  <2>. HIDE DEF f
  <2>6. Q!Good(f) /\ f.current = Main /\ f.scheduled[f.current] /\ ~f.scheduled[v]
    BY <2>1, <2>4, <2>5, MainAssumption DEF Inserted
  <2>7. g.next[Main] = v /\ g.next[v] = t
    BY <2>1, <2>5, <2>6, MainAssumption, LinksAfterRunNext
  <2>8. g \in QueueType
    BY <2>6, InsertsInsert, GoodQueue DEF Inserted
  <2>. HIDE DEF g
  <2>. QED
    BY <2>2, <2>7, <2>8 DEF SetReschedule, QueueType
<1>. QED
  BY <1>5, <1>6
--------------------------------------------------------------------------------
(* Who is killed, and where it is until it has ended.                       *)

(* No run has a limit, and no tasklet but main binds another or handles      *)
(* what it is made to raise.                                                *)
SureKills ==
    /\ MainOps \cap {"run_n_tasklets", "run_for_time"} = {}
    /\ TaskletOps \cap {"setup", "bind", "catch"} = {}

(* The frames s are those of one who waits for v to be killed. *)
KillIn(s, v) == \E i \in DOMAIN s : s[i].k = "Kill" /\ s[i].t = v

Kills(t, v) == KillIn(stack[t], v)

Picked(v) == active = Main /\ AtRun("head") /\ q.next[Main] = v

(* v is the next to run, with the exception that ends it; has got it; has   *)
(* ended; and SwitchTo has noted that.                                      *)
Dying(v) ==
    \/ Picked(v) /\ tk[v].exc = "TaskletExit"
    \/ active = v /\ AtYield(v, "in") /\ tk[v].exc = "TaskletExit"
    \/ active = v /\ ret = "TaskletExit" /\ ~AtYield(v, "in") /\ ~AtYield(v, "head")
    \/ active = Main /\ AtRun("in") /\ Target = v /\ gl[v].state = "dead" /\ ret = "TaskletExit"
    \/ active = Main /\ AtRun("out") /\ Target = v /\ ~tk[v].alive /\ ret # "Error"

(* The tasklet a has killed v and is on its way to the loop, to come back   *)
(* behind v.                                                                *)
ComesBehind(a, v) ==
    /\ tk[v].exc = "TaskletExit" /\ q.next[a] = v /\ q.reschedule[a] = "FRONT_PLUS_ONE"
    /\ \/ active = a /\ AtYield(a, "head")
       \/ active = Main /\ RunsOne /\ Target = a

Outlived(a, v) == ~tk[v].alive /\ (Picked(a) \/ (active = a /\ ~AtYield(a, "head")))

Coming(a, v) ==
    \/ ComesBehind(a, v)
    \/ Dying(v) /\ q.next[Main] = v /\ q.next[v] = a
    \/ Outlived(a, v)

KillsEnd ==
    /\ \A v \in Tasklets : Kills(Main, v) => v # Main /\ (Dying(v) \/ ~tk[v].alive)
    /\ \A a \in Tasklets \ {Main} : \A v \in Tasklets :
          Kills(a, v) => v \notin {Main, a} /\ Coming(a, v)

(* Main's loop does not stop before the queue is empty, and runs the first  *)
(* of it; who waits in a call has begun.                                    *)
RunsThrough ==
    /\ mgr.runType = "STANDARD" /\ gl[Main].parent = NULL
    /\ stack[Main] # <<>> /\ Head(stack[Main]).k = "Run" =>
          ~Head(stack[Main]).until /\ ~Head(stack[Main]).done
    /\ RunsOne => q.next[Main] = Target
    /\ \A t \in Tasklets \ {Main} : stack[t] # <<>> => gl[t].state = "started"

LEMMA NoKillInNothing == \A v : ~KillIn(<<>>, v)
BY DEF KillIn

LEMMA KillOnTop ==
    ASSUME NEW S, NEW r \in Seq(S), NEW f, NEW v
    PROVE  KillIn(<<f>> \o r, v) <=> (f.k = "Kill" /\ f.t = v) \/ KillIn(r, v)
<1>. DEFINE T == S \cup {f}
            s == <<f>> \o r
<1>1. <<f>> \in Seq(T) /\ Len(<<f>>) = 1 /\ r \in Seq(T) /\ Len(r) \in Nat
  <2>1. r \in Seq(T)
    BY SeqMonotonic
  <2>. QED
    BY <2>1
<1>2. /\ s \in Seq(T) /\ Len(s) = Len(<<f>>) + Len(r)
      /\ \A i \in 1..(Len(<<f>>) + Len(r)) :
            s[i] = IF i <= Len(<<f>>) THEN <<f>>[i] ELSE r[i - Len(<<f>>)]
  BY <1>1, ConcatProperties
<1>3. /\ DOMAIN s = 1..(Len(r) + 1) /\ DOMAIN r = 1..Len(r)
      /\ \A i \in 1..(Len(r) + 1) : s[i] = IF i <= 1 THEN f ELSE r[i - 1]
  BY <1>1, <1>2
<1>. HIDE DEF s
<1>4. ASSUME NEW i \in DOMAIN r PROVE i + 1 \in DOMAIN s /\ s[i + 1] = r[i]
  BY <1>1, <1>3
<1>5. 1 \in DOMAIN s /\ s[1] = f
  BY <1>1, <1>3
<1>6. ASSUME NEW i \in DOMAIN s, i # 1 PROVE i - 1 \in DOMAIN r /\ s[i] = r[i - 1]
  BY <1>1, <1>3, <1>6
<1>7. KillIn(s, v) <=> (f.k = "Kill" /\ f.t = v) \/ KillIn(r, v)
  BY <1>4, <1>5, <1>6 DEF KillIn
<1>. QED
  BY <1>7 DEF s

LEMMA KillBelow ==
    ASSUME NEW S, NEW s \in Seq(S), s # <<>>, NEW v
    PROVE  KillIn(s, v) <=> (Head(s).k = "Kill" /\ Head(s).t = v) \/ KillIn(Tail(s), v)
<1>1. Tail(s) \in Seq(S) /\ s = <<Head(s)>> \o Tail(s)
  BY TopAndTail
<1>. DEFINE f == Head(s)
            r == Tail(s)
<1>2. KillIn(<<f>> \o r, v) <=> (f.k = "Kill" /\ f.t = v) \/ KillIn(r, v)
  BY <1>1, KillOnTop
<1>. QED
  BY <1>1, <1>2

LEMMA StackIsASequence ==
    ASSUME NEW C, Control(C), NEW t \in Tasklets
    PROVE  stack[t] \in Seq(Switching(t) \cup PlainFrames(C) \cup LimitedFrames)
<1>1. stack[t] \in Rests(C, t) \/ Switches(C, t, stack[t])
  BY DEF Control, Stacks
<1>2. CASE stack[t] \in Rests(C, t)
  <2>1. stack[t] \in Seq(PlainFrames(C) \cup LimitedFrames)
    BY <1>2, RestsAreSequences
  <2>. QED
    BY <2>1
<1>3. CASE Switches(C, t, stack[t])
  BY <1>3 DEF Switches
<1>. QED
  BY <1>1, <1>2, <1>3

(* Nobody new is killed: those who are, are no better off than before. *)
LEMMA KillsGoOn ==
    ASSUME KillsEnd,
           \A t, v \in Tasklets : Kills(t, v)' => Kills(t, v),
           \A v \in Tasklets : ~tk[v].alive => ~tk'[v].alive,
           \A v \in Tasklets \ {Main} : Kills(Main, v) /\ Dying(v) => Dying(v)' \/ ~tk'[v].alive,
           \A a \in Tasklets \ {Main} : \A v \in Tasklets \ {Main, a} :
              Kills(a, v) /\ Coming(a, v) => Coming(a, v)'
    PROVE  KillsEnd'
<1>1. ASSUME NEW v \in Tasklets, Kills(Main, v)' PROVE v # Main /\ (Dying(v)' \/ ~tk'[v].alive)
  BY <1>1, MainAssumption DEF KillsEnd
<1>2. ASSUME NEW a \in Tasklets \ {Main}, NEW v \in Tasklets, Kills(a, v)'
      PROVE  v \notin {Main, a} /\ Coming(a, v)'
  BY <1>2 DEF KillsEnd
<1>. QED
  BY <1>1, <1>2 DEF KillsEnd

(* Nobody but main stands above main. *)
LEMMA NoneAboveMain ==
    ASSUME NEW g, g[Main].parent = NULL
    PROVE  Lineage(g, Main) = {Main}
<1>. DEFINE N == Cardinality(Tasklets)
            P(f) == f = [n \in 0..N |->
                           IF n = 0 THEN Main ELSE IF f[n-1] = NULL THEN NULL ELSE g[f[n-1]].parent]
            w == [n \in 0..N |-> IF n = 0 THEN Main ELSE NULL]
            up == CHOOSE f : P(f)
<1>1. N \in Nat \ {0} /\ Main # NULL
  BY SizeOfTasklets, MainAssumption, NullAssumption
<1>. HIDE DEF N
<1>2. ASSUME NEW n \in 0..N
      PROVE  w[n] = IF n = 0 THEN Main ELSE IF w[n-1] = NULL THEN NULL ELSE g[w[n-1]].parent
  <2>1. CASE n = 0
    BY <2>1
  <2>2. CASE n # 0
    <3>1. n - 1 \in 0..N /\ w[n] = NULL /\ w[n-1] = IF n - 1 = 0 THEN Main ELSE NULL
      BY <1>1, <2>2
    <3>. QED
      BY <1>1, <2>2, <3>1
  <2>. QED
    BY <2>1, <2>2
<1>3. P(w)
  BY <1>2
<1>4. P(up)
  BY <1>3
<1>5. w[0] = Main /\ 0 \in 0..N /\ \A n \in 0..N : n # 0 => w[n] = NULL
  BY <1>1
<1>. HIDE DEF up, w
<1>6. GoAlike(0, N, up, w)
  <2>1. up[0] = w[0]
    BY <1>1, <1>4, <1>5
  <2>2. ASSUME NEW n \in (0 + 1)..N, up[n-1] = w[n-1] PROVE up[n] = w[n]
    <3>1. n \in 0..N /\ n # 0
      BY <1>1
    <3>2. up[n] = IF up[n-1] = NULL THEN NULL ELSE g[up[n-1]].parent
      BY <1>4, <3>1
    <3>3. w[n] = IF w[n-1] = NULL THEN NULL ELSE g[w[n-1]].parent
      BY <1>2, <3>1
    <3>. QED
      BY <2>2, <3>2, <3>3
  <2>. QED
    BY <2>1, <2>2 DEF GoAlike
<1>7. \A n \in 0..N : up[n] = w[n]
  BY <1>1, <1>6, SameWalk
<1>8. Lineage(g, Main) = {up[n] : n \in 0..N} \ {NULL}
  BY DEF Lineage, up, N
<1>. QED
  BY <1>1, <1>5, <1>7, <1>8

--------------------------------------------------------------------------------
(* Calls.                                                                    *)

(* While Python code runs nobody waits for one who is being killed, unless  *)
(* the code that runs is itself being killed.                               *)
LEMMA NobodyWaits ==
    ASSUME Control({}), KillsEnd, stack[active] = <<>>, ret # "TaskletExit" \/ active = Main
    PROVE  /\ \A a \in Tasklets \ {Main} : \A v \in Tasklets : ~Kills(a, v)
           /\ \A v \in Tasklets : Kills(Main, v) => v # Main /\ ~tk[v].alive
<1>1. \A t, k, pc : active = t => ~TopIs(t, k, pc)
  BY DEF TopIs
<1>2. ~Picked(active) /\ \A v : ~Picked(v)
  BY <1>1 DEF Picked, AtRun
<1>3. \A v \in Tasklets \ {Main} : ~Dying(v)
  BY <1>1, <1>2 DEF Dying, AtRun, AtYield
<1>4. \A a, v : ~ComesBehind(a, v)
  BY <1>1 DEF ComesBehind, RunsOne, AtRun, AtYield
<1>5. ASSUME NEW a \in Tasklets \ {Main}, NEW v \in Tasklets, Kills(a, v) PROVE FALSE
  <2>1. v \notin {Main, a} /\ Coming(a, v)
    BY <1>5 DEF KillsEnd
  <2>2. Outlived(a, v)
    BY <1>3, <1>4, <2>1 DEF Coming
  <2>3. active = a
    BY <1>2, <2>2 DEF Outlived
  <2>. QED
    BY <1>5, <2>3, NoKillInNothing DEF Kills
<1>. QED
  BY <1>3, <1>5 DEF KillsEnd

LEMMA CallRunsThrough ==
    ASSUME Control({}), RunsThrough, stack[active] = <<>>, active' = active, NEW fs,
           stack' = [stack EXCEPT ![active] = fs],
           fs # <<>> => Head(fs).k # "Run" \/ (active = Main /\ Head(fs) = RunFrame(Main, NULL, FALSE)),
           mgr'.runType = mgr.runType, gl'[Main].parent = NULL,
           \A t \in Tasklets \ {Main} : gl[t].state = "started" => gl'[t].state = "started",
           active # Main => q'.next[Main] = q.next[Main]
    PROVE  RunsThrough'
<1>1. active \in Tasklets /\ stack'[active] = fs /\ \A t \in Tasklets \ {active} : stack'[t] = stack[t]
  BY DEF Control, Types, Stacks
<1>2. ASSUME active = Main
      PROVE  /\ stack'[Main] # <<>> /\ Head(stack'[Main]).k = "Run" =>
                   ~Head(stack'[Main]).until /\ ~Head(stack'[Main]).done
             /\ ~RunsOne'
  <2>1. stack'[Main] = fs /\ fs # <<>> /\ Head(fs).k = "Run" => Head(fs) = RunFrame(Main, NULL, FALSE)
    BY <1>1, <1>2
  <2>. QED
    BY <1>1, <1>2, <2>1 DEF RunFrame, RunsOne, AtRun, TopIs
<1>3. ASSUME active # Main
      PROVE  /\ stack'[Main] # <<>> /\ Head(stack'[Main]).k = "Run" =>
                   ~Head(stack'[Main]).until /\ ~Head(stack'[Main]).done
             /\ RunsOne' => q'.next[Main] = Target'
  <2>1. stack'[Main] = stack[Main]
    BY <1>1, <1>3, MainAssumption
  <2>. QED
    BY <1>3, <2>1 DEF RunsThrough, RunsOne, AtRun, TopIs, Target
<1>4. \A t \in Tasklets \ {Main} : stack'[t] # <<>> => gl'[t].state = "started"
  <2>1. active # Main => gl[active].state = "started"
    BY RunByMain
  <2>. QED
    BY <1>1, <2>1 DEF RunsThrough
<1>. QED
  BY <1>2, <1>3, <1>4 DEF RunsThrough

(* A call that kills nobody, or not yet. *)
LEMMA CallEndsKills ==
    ASSUME Control({}), KillsEnd, stack[active] = <<>>, ret # "TaskletExit" \/ active = Main,
           active' = active, NEW fs, stack' = [stack EXCEPT ![active] = fs],
           \A v : ~KillIn(fs, v),
           active # Main => \A v \in Tasklets : ~tk[v].alive => ~tk'[v].alive
    PROVE  KillsEnd'
<1>1. active \in Tasklets /\ stack'[active] = fs /\ \A t \in Tasklets \ {active} : stack'[t] = stack[t]
  BY DEF Control, Types, Stacks
<1>2. \A t, v \in Tasklets : Kills(t, v)' => t # active /\ Kills(t, v)
  BY <1>1 DEF Kills
<1>3. \A a \in Tasklets \ {Main} : \A v \in Tasklets : ~Kills(a, v)'
  BY <1>2, NobodyWaits
<1>4. \A v \in Tasklets : Kills(Main, v)' => v # Main /\ ~tk'[v].alive
  BY <1>2, NobodyWaits, MainAssumption
<1>. QED
  BY <1>3, <1>4 DEF KillsEnd

(* The frame with which Yield is entered. *)
CallFrame == IF active = Main THEN RunFrame(Main, NULL, FALSE) ELSE YieldFrame(active)

LEMMA FramesOfCalls ==
    /\ CallFrame.k # "Kill"
    /\ CallFrame.k # "Run" \/ (active = Main /\ CallFrame = RunFrame(Main, NULL, FALSE))
BY DEF CallFrame, RunFrame, YieldFrame

(* Nobody is blocked: main, too, always runs the queue. *)
LEMMA YieldIsPushed ==
    ASSUME Control({}), stack[active] = <<>>, NEW conts \in Seq(PlainFrames({})),
           NEW q0, NEW tk0, q0.current = active, q0.blockedOn[Main] = NULL, Yield(q0, tk0, conts)
    PROVE  /\ active' = active /\ ret' = "none"
           /\ stack' = [stack EXCEPT ![active] = <<CallFrame>> \o conts]
           /\ q' = q0 /\ tk' = tk0 /\ gl' = gl
<1>1. q' = q0 /\ tk' = tk0 /\ gl' = gl
  BY DEF Yield
<1>2. ~IsBlocked(q0, Main)
  BY DEF IsBlocked
<1>3. <<CallFrame>> \o conts # <<>>
  BY PutOnTop
<1>. DEFINE T == PlainFrames({}) \cup {CallFrame}
            f == CallFrame
<1>4. <<f>> \in Seq(T) /\ conts \in Seq(T)
  BY SeqMonotonic
<1>. HIDE DEF T, f
<1>5. <<f>> \o conts \in Seq(T) /\ (<<f>> \o conts) \o <<>> = <<f>> \o conts
  BY <1>4, ConcatProperties, ConcatEmptySeq
<1>6. <<f>> \o <<>> = <<f>>
  BY <1>4, ConcatEmptySeq
<1>7. Push(<<f>> \o conts)
  <2>1. CASE active # Main
    BY <2>1 DEF Yield, f, CallFrame
  <2>2. CASE active = Main
    <3>1. f = RunFrame(Main, NULL, IsBlocked(q0, Main))
      <4>1. IsBlocked(q0, Main) = FALSE
        BY <1>2 DEF IsBlocked
      <4>. QED
        BY <2>2, <4>1 DEF f, CallFrame
    <3>2. Push(<<f>> \o (IF IsBlocked(q0, Main) THEN <<Then("Yield.main", Main)>> ELSE <<>>) \o conts)
      BY <1>2, <2>2, <3>1 DEF Yield
    <3>3. (IF IsBlocked(q0, Main) THEN <<Then("Yield.main", Main)>> ELSE <<>>) = <<>>
      BY <1>2
    <3>. QED
      BY <1>6, <3>2, <3>3
  <2>. QED
    BY <2>1, <2>2
<1>8. Continue(<<f>> \o conts, "none")
  BY <1>5, <1>7 DEF Push
<1>9. active' = active /\ ret' = "none" /\ stack' = [stack EXCEPT ![active] = <<f>> \o conts]
  BY <1>8 DEF Continue
<1>. QED
  BY <1>1, <1>9 DEF f

(* What a call leaves as it is: limits, main's greenlet, who has begun, and *)
(* while a tasklet runs the link it hangs on, and who is dead.              *)
Harmless ==
    /\ mgr'.runType = mgr.runType /\ gl'[Main].parent = NULL
    /\ \A t \in Tasklets \ {Main} : gl[t].state = "started" => gl'[t].state = "started"
    /\ active # Main => /\ q'.next[Main] = q.next[Main]
                        /\ \A v \in Tasklets : ~tk[v].alive => ~tk'[v].alive

LEMMA HarmlessAnswer ==
    ASSUME Control({}), KillsEnd, RunsThrough, stack[active] = <<>>, ret # "TaskletExit" \/ active = Main,
           NEW r, Answer(<<>>, r), Harmless
    PROVE  KillsEnd' /\ RunsThrough'
<1>1. <<>> \o stack[active] = <<>>
  OBVIOUS
<1>2. active' = active /\ stack' = [stack EXCEPT ![active] = <<>>]
  BY <1>1 DEF Answer, Continue
<1>. QED
  BY <1>2, NoKillInNothing, CallEndsKills, CallRunsThrough DEF Harmless

LEMMA HarmlessYield ==
    ASSUME Control({}), KillsEnd, RunsThrough, stack[active] = <<>>, ret # "TaskletExit" \/ active = Main,
           NEW q0, NEW tk0, q0.current = active, q0.blockedOn[Main] = NULL, Yield(q0, tk0, <<>>), Harmless
    PROVE  KillsEnd' /\ RunsThrough'
<1>. DEFINE f == CallFrame
            fs == <<f>> \o <<>>
<1>1. active' = active /\ stack' = [stack EXCEPT ![active] = fs]
  BY NoConts, YieldIsPushed
<1>2. f.k # "Kill" /\ (f.k # "Run" \/ (active = Main /\ f = RunFrame(Main, NULL, FALSE)))
  BY FramesOfCalls
<1>. HIDE DEF f
<1>3. fs # <<>> /\ Head(fs) = f
  OBVIOUS
<1>4. \A v : ~KillIn(fs, v)
  <2>1. <<>> \in Seq({f})
    OBVIOUS
  <2>. QED
    BY <1>2, <2>1, KillOnTop, NoKillInNothing
<1>. HIDE DEF fs
<1>. QED
  BY <1>1, <1>2, <1>3, <1>4, CallEndsKills, CallRunsThrough DEF Harmless

(* A good queue, whose current tasklet runs, and main is not blocked. *)
QuietQueue(x) == Q!Good(x) /\ x.current = active /\ x.blockedOn[Main] = NULL

(* While a tasklet runs it is right behind main, and stays there. *)
LEMMA FirstOfTheQueue ==
    ASSUME Control({}), RunsThrough, active # Main
    PROVE  q.next[Main] = active
BY RunByMain DEF RunsThrough, RunsOne

LEMMA QueueOfACall ==
    ASSUME Control({}), stack[active] = <<>>
    PROVE  /\ QuietQueue(q) /\ q.current = active /\ active \in Tasklets /\ q.scheduled[active]
           /\ \A t \in Tasklets : q.blockedOn[t] = NULL
<1>1. stack[active] \in Rests({}, active)
  BY EmptyStack
<1>2. Q!Good(q) /\ q.current = active /\ active \in Tasklets /\ \A t \in Tasklets : q.blockedOn[t] = NULL
  BY <1>1, InPlace DEF Safe, QueueStays, QueueFits
<1>3. q.scheduled[active]
  BY <1>1, <1>2, Here, GoodQueue
<1>. QED
  BY <1>2, <1>3, MainAssumption DEF QuietQueue

(* Tasklet::Run puts t behind the one who calls. *)
LEMMA RunsBehind ==
    ASSUME Control({}), RunsThrough, stack[active] = <<>>, NEW x, QuietQueue(x), x.scheduled[active],
           active # Main => x.next[Main] = q.next[Main],
           NEW t \in Tasklets \ {Main, active}
    PROVE  LET y == MoveToRunNext(x, t)
           IN  /\ QuietQueue(y) /\ (active # Main => y.next[Main] = q.next[Main])
               /\ y.next[active] = t /\ y.reschedule[active] = "FRONT_PLUS_ONE"
<1>. DEFINE y == MoveToRunNext(x, t)
<1>1. Q!Good(x) /\ x.current = active /\ x.scheduled[x.current] /\ t # x.current
  BY DEF QuietQueue
<1>2. /\ y.next[active] = t /\ y.reschedule[active] = "FRONT_PLUS_ONE"
      /\ \A u \in Tasklets \ {t, active} : x.next[u] # t => y.next[u] = x.next[u]
  BY <1>1, LinksAfterMoving
<1>3. Moved(x, y, t)
  BY <1>1, MoveMoves
<1>. HIDE DEF y
<1>4. QuietQueue(y)
  BY <1>1, <1>3, MainAssumption DEF Moved, QuietQueue
<1>5. active # Main => y.next[Main] = q.next[Main]
  BY <1>2, FirstOfTheQueue, MainAssumption
<1>. QED
  BY <1>2, <1>4, <1>5 DEF y

(* Tasklet::Run, called by Python code with nothing left to do after it. *)
LEMMA HarmlessRun ==
    ASSUME Control({}), KillsEnd, RunsThrough, stack[active] = <<>>, ret # "TaskletExit" \/ active = Main,
           ~Nested, NEW x, QuietQueue(x), x.scheduled[active], active # Main => x.next[Main] = q.next[Main],
           NEW t \in Tasklets \ {Main, active}, NEW tk0,
           \A v \in Tasklets : ~tk[v].alive => ~tk0[v].alive,
           RunTasklet(t, x, tk0, <<>>), mgr' = mgr
    PROVE  KillsEnd' /\ RunsThrough'
<1>1. gl[Main].parent = NULL
  BY DEF RunsThrough
<1>2. CASE ~tk0[t].alive \/ IsBlocked(x, t)
  <2>1. Answer(<<>>, "Error") /\ q' = x /\ tk' = tk0 /\ gl' = gl
    BY <1>2 DEF RunTasklet
  <2>2. Harmless
    BY <1>1, <2>1 DEF Harmless
  <2>. QED
    BY <2>1, <2>2, HarmlessAnswer
<1>3. CASE ~(~tk0[t].alive \/ IsBlocked(x, t))
  <2>. DEFINE y == MoveToRunNext(x, t)
  <2>1. Yield(y, tk0, <<>>)
    BY <1>3 DEF RunTasklet
  <2>2. QuietQueue(y) /\ (active # Main => y.next[Main] = q.next[Main])
    BY RunsBehind
  <2>. HIDE DEF y
  <2>3. q' = y /\ tk' = tk0 /\ gl' = gl
    BY <2>1 DEF Yield
  <2>4. Harmless
    BY <1>1, <2>2, <2>3 DEF Harmless
  <2>. QED
    BY <2>1, <2>2, <2>4, HarmlessYield DEF QuietQueue
<1>. QED
  BY <1>2, <1>3

LEMMA CalledQuietly ==
    ASSUME Control({}), KillsEnd, RunsThrough, NEW op, Calls(op)
    PROVE  /\ stack[active] = <<>> /\ ret = "none" /\ CalledBy(op) /\ gl[Main].parent = NULL
           /\ QuietQueue(q) /\ q.current = active /\ active \in Tasklets /\ q.scheduled[active]
           /\ \A t \in Tasklets : ~IsBlocked(q, t)
           /\ tk \in [Tasklets -> TaskletType] /\ q \in QueueType
BY CallIsMade, QueueOfACall, GoodQueue DEF RunsThrough, QuietQueue, IsBlocked, TaskletsStay, TaskletsFit

LEMMA ScheduleEndsKills ==
    ASSUME Control({}), KillsEnd, RunsThrough, Schedule \/ ScheduleRemove
    PROVE  KillsEnd' /\ RunsThrough'
<1>. DEFINE q0 == SetReschedule(q, q.current, "BACK")
            tk0 == [tk EXCEPT ![q.current].tagged = TRUE]
<1>1. PICK op : Calls(op)
  BY DEF Schedule, ScheduleRemove
<1>2. /\ stack[active] = <<>> /\ ret = "none" /\ gl[Main].parent = NULL
      /\ QuietQueue(q) /\ q.current = active /\ active \in Tasklets
      /\ tk \in [Tasklets -> TaskletType] /\ q \in QueueType
  BY <1>1, CalledQuietly
<1>3. q0.next = q.next /\ q0.current = active /\ q0.blockedOn[Main] = NULL
  BY <1>2 DEF SetReschedule, QueueType, QuietQueue
<1>4. \A v \in Tasklets : tk0[v].alive = tk[v].alive
  BY <1>2 DEF TaskletType
<1>5. Yield(q0, tk, <<>>) \/ Yield(q, tk0, <<>>)
  BY DEF Schedule, ScheduleRemove
<1>6. mgr' = mgr
  BY DEF Schedule, ScheduleRemove
<1>. HIDE DEF q0, tk0
<1>7. CASE Yield(q0, tk, <<>>)
  <2>1. q' = q0 /\ tk' = tk /\ gl' = gl
    BY <1>7 DEF Yield
  <2>2. Harmless
    BY <1>2, <1>3, <1>6, <2>1 DEF Harmless
  <2>. QED
    BY <1>2, <1>3, <1>7, <2>2, HarmlessYield
<1>8. CASE Yield(q, tk0, <<>>)
  <2>1. q' = q /\ tk' = tk0 /\ gl' = gl
    BY <1>8 DEF Yield
  <2>2. Harmless
    BY <1>2, <1>4, <1>6, <2>1 DEF Harmless
  <2>. QED
    BY <1>2, <1>8, <2>2, HarmlessYield DEF QuietQueue
<1>. QED
  BY <1>5, <1>7, <1>8

LEMMA RunEndsKills ==
    ASSUME Control({}), KillsEnd, RunsThrough, Flat, NEW t \in Tasklets, Run(t)
    PROVE  KillsEnd' /\ RunsThrough'
<1>1. Calls("run") /\ RunTasklet(t, q, tk, <<>>) /\ mgr' = mgr
      /\ ~Nested /\ t \in Tasklets \ {Main, active}
  BY DEF Run, Flat
<1>. QED
  BY <1>1, CalledQuietly, HarmlessRun

(* A greenlet that has not begun, or has ended, is replaced. *)
LEMMA OthersAreNotReplaced ==
    ASSUME Control({}), gl[Main].parent = NULL, NEW t \in Tasklets, gl[t].state # "started", NEW g
    PROVE  /\ t # Main /\ Replaced(t, g)[Main].parent = NULL
           /\ \A u \in Tasklets : gl[u].state = "started" => Replaced(t, g)[u].state = "started"
<1>1. gl \in [Tasklets -> GreenletType] /\ gl[Main].state = "started" /\ Main \in Tasklets
  BY MainAssumption DEF Control, Types, GreenletsFit
<1>2. t # Main /\ t # NULL
  BY <1>1, NullAssumption
<1>3. Replaced(t, g)[Main] = gl[Main]
  BY <1>1, <1>2 DEF Replaced
<1>4. ASSUME NEW u \in Tasklets, gl[u].state = "started" PROVE Replaced(t, g)[u].state = "started"
  <2>1. Replaced(t, g)[u] = IF gl[u].parent = t THEN [gl[u] EXCEPT !.parent = Landing(gl, t)] ELSE gl[u]
    BY <1>4 DEF Replaced
  <2>2. gl[u] \in GreenletType
    BY <1>1
  <2>. QED
    BY <1>4, <2>1, <2>2 DEF GreenletType
<1>. QED
  BY <1>2, <1>3, <1>4

LEMMA SetupEndsKills ==
    ASSUME Control({}), KillsEnd, RunsThrough, SureKills, NEW t \in Tasklets, Setup(t) \/ Bind(t)
    PROVE  KillsEnd' /\ RunsThrough'
<1>1. PICK op \in {"setup", "bind"} : Calls(op)
  BY DEF Setup, Bind
<1>2. active = Main
  BY <1>1, CalledQuietly DEF CalledBy, SureKills
<1>3. /\ mgr' = mgr /\ gl[t].state # "started"
      /\ \E r : Answer(<<>>, r)
      /\ gl' = Replaced(t, Unborn) \/ gl' = Rebirth(t)
  BY DEF Setup, Bind, Rebindable
<1>4. Harmless
  BY <1>1, <1>2, <1>3, CalledQuietly, OthersAreNotReplaced DEF Harmless, Rebirth
<1>. QED
  BY <1>1, <1>3, <1>4, CalledQuietly, HarmlessAnswer

LEMMA UnbindEndsKills ==
    ASSUME Control({}), KillsEnd, RunsThrough, NEW t \in Tasklets, Unbind(t)
    PROVE  KillsEnd' /\ RunsThrough'
<1>1. /\ Calls("unbind") /\ gl[t].state # "started" /\ q' = q /\ mgr' = mgr
      /\ \E r : Answer(<<>>, r)
      /\ gl' = Replaced(t, Unborn) \/ gl' = gl
      /\ tk' = [tk EXCEPT ![t].alive = FALSE] \/ tk' = tk
  BY DEF Unbind
<1>2. \A v \in Tasklets : ~tk[v].alive => ~tk'[v].alive
  BY <1>1, CalledQuietly DEF TaskletType
<1>3. Harmless
  BY <1>1, <1>2, CalledQuietly, OthersAreNotReplaced DEF Harmless
<1>. QED
  BY <1>1, <1>3, CalledQuietly, HarmlessAnswer

LEMMA InsertEndsKills ==
    ASSUME Control({}), KillsEnd, RunsThrough, NEW t \in Tasklets, Insert(t)
    PROVE  KillsEnd' /\ RunsThrough'
<1>1. PICK op : Calls(op)
  BY DEF Insert
<1>2. /\ gl' = gl /\ mgr' = mgr /\ \E r : Answer(<<>>, r)
      /\ \/ q' = q /\ tk' = tk
         \/ q' = InsertTasklet(q, t) /\ tk' = [tk EXCEPT ![t].paused = FALSE]
  BY DEF Insert
<1>3. \A v \in Tasklets : tk'[v].alive = tk[v].alive
  BY <1>1, <1>2, CalledQuietly DEF TaskletType
<1>4. active # Main => q'.next[Main] = q.next[Main]
  <2>1. active # Main => q.next[Main] # NULL
    BY <1>1, CalledQuietly, FirstOfTheQueue, NullAssumption
  <2>. QED
    BY <1>1, <1>2, <2>1, CalledQuietly, LinksAfterInserting, MainAssumption DEF QuietQueue
<1>5. Harmless
  BY <1>1, <1>2, <1>3, <1>4, CalledQuietly DEF Harmless
<1>. QED
  BY <1>1, <1>2, <1>5, CalledQuietly, HarmlessAnswer

LEMMA RemoveEndsKills ==
    ASSUME Control({}), KillsEnd, RunsThrough, Flat, NEW t \in Tasklets, Remove(t)
    PROVE  KillsEnd' /\ RunsThrough'
<1>1. PICK op : Calls(op)
  BY DEF Remove
<1>2. /\ gl' = gl /\ mgr' = mgr /\ \E r : Answer(<<>>, r)
      /\ \/ q' = q /\ tk' = tk
         \/ q.scheduled[t] /\ q' = RemoveTasklet(q, t) /\ tk' = [tk EXCEPT ![t].paused = TRUE]
  BY DEF Remove
<1>3. \A v \in Tasklets : tk'[v].alive = tk[v].alive
  BY <1>1, <1>2, CalledQuietly DEF TaskletType
<1>4. t \notin {Main, active}
  BY RemoveKeepsControl
<1>5. ASSUME active # Main PROVE q'.next[Main] = q.next[Main]
  <2>1. q.next[Main] # t
    BY <1>4, <1>5, FirstOfTheQueue
  <2>. QED
    BY <1>1, <1>2, <1>4, <2>1, CalledQuietly, LinksAfterRemoving, MainAssumption DEF QuietQueue
<1>6. Harmless
  BY <1>1, <1>2, <1>3, <1>5, CalledQuietly DEF Harmless
<1>. QED
  BY <1>1, <1>2, <1>6, CalledQuietly, HarmlessAnswer

LEMMA RunSchedulerEndsKills ==
    ASSUME Control({}), KillsEnd, RunsThrough, Flat, RunScheduler
    PROVE  KillsEnd' /\ RunsThrough'
<1>. DEFINE f == RunFrame(Main, NULL, FALSE)
            fs == <<f>>
<1>1. /\ Calls("run_scheduler") /\ Push(<<RunFrame(q.current, NULL, FALSE)>>)
      /\ q' = q /\ tk' = tk /\ gl' = gl /\ mgr' = mgr
  BY DEF RunScheduler
<1>2. /\ active = Main /\ q.current = Main /\ stack[active] = <<>> /\ ret = "none"
      /\ gl[Main].parent = NULL
  BY <1>1, CalledQuietly, FlatCalls
<1>3. f.k = "Run"
  BY DEF RunFrame
<1>. HIDE DEF f
<1>4. <<f>> \o <<>> = <<f>> /\ fs # <<>> /\ Head(fs) = f
  OBVIOUS
<1>5. \A v : ~KillIn(fs, v)
  <2>1. <<>> \in Seq({f})
    OBVIOUS
  <2>2. \A v : ~KillIn(<<f>> \o <<>>, v)
    BY <1>3, <2>1, KillOnTop, NoKillInNothing
  <2>. QED
    BY <1>4, <2>2
<1>6. active' = active /\ stack' = [stack EXCEPT ![active] = fs]
  <2>1. Continue(<<f>> \o stack[active], "none")
    BY <1>1, <1>2 DEF Push, f
  <2>. QED
    BY <1>2, <1>4, <2>1 DEF Continue
<1>. HIDE DEF fs
<1>7. KillsEnd'
  BY <1>2, <1>5, <1>6, CallEndsKills
<1>8. RunsThrough'
  BY <1>1, <1>2, <1>4, <1>6, CallRunsThrough DEF f
<1>. QED
  BY <1>7, <1>8

LEMMA CatchEndsKills ==
    ASSUME Control({}), KillsEnd, RunsThrough, SureKills, Catch
    PROVE  KillsEnd' /\ RunsThrough'
<1>1. active = Main /\ stack[active] = <<>> /\ Answer(<<>>, "ok")
  BY DEF Catch, Raising, InPython, SureKills
<1>2. Harmless
  BY <1>1 DEF Catch, Harmless, RunsThrough
<1>. QED
  BY <1>1, <1>2, HarmlessAnswer

LEMMA QueueOfAThrow ==
    ASSUME Control({}), RunsThrough, stack[active] = <<>>, NEW t \in Tasklets
    PROVE  LET u == Unblock(q, t)
               i == InsertTasklet(q, t)
               iu == InsertTasklet(u, t)
           IN  /\ QuietQueue(u) /\ u.scheduled[active] /\ u.next = q.next
               /\ \A x \in {i, SetReschedule(iu, t, "NONE")} : active # Main => x.next[Main] = q.next[Main]
               /\ LET s == SetReschedule(u, t, "NONE")
                  IN  QuietQueue(s) /\ s.scheduled[active] /\ s.next = q.next
                      /\ s.blockedOn[t] = NULL /\ u.blockedOn[t] = NULL
<1>. DEFINE u == Unblock(q, t)
            s == SetReschedule(u, t, "NONE")
            i == InsertTasklet(q, t)
            iu == InsertTasklet(u, t)
            is == SetReschedule(iu, t, "NONE")
<1>1. QuietQueue(q) /\ q.scheduled[active] /\ q \in QueueType
  BY QueueOfACall, GoodQueue DEF QuietQueue
<1>2. u.next = q.next /\ Freed(q, u, t, NULL)
  BY <1>1, BlocksFree DEF QuietQueue, Unblock, QueueType
<1>. HIDE DEF u
<1>3. QuietQueue(u) /\ u.scheduled[active] /\ u \in QueueType /\ u.blockedOn[t] = NULL
  BY <1>1, <1>2, GoodQueue, MainAssumption DEF Freed, QuietQueue
<1>4. s.next = q.next /\ Flagged(u, s, t, "NONE")
  BY <1>2, <1>3, MarksFlag DEF QuietQueue, SetReschedule, QueueType, RescheduleType
<1>. HIDE DEF s
<1>5. QuietQueue(s) /\ s.scheduled[active] /\ s.blockedOn[t] = NULL
  BY <1>3, <1>4 DEF Flagged, QuietQueue
<1>6. active # Main => q.next[Main] # NULL
  BY FirstOfTheQueue, QueueOfACall, NullAssumption
<1>7. active # Main => i.next[Main] = q.next[Main] /\ iu.next[Main] = q.next[Main]
  BY <1>1, <1>2, <1>3, <1>6, MainAssumption, LinksAfterInserting DEF QuietQueue
<1>8. iu \in QueueType
  BY <1>3, InsertsInsert, GoodQueue DEF Inserted, QuietQueue
<1>. HIDE DEF i, iu
<1>9. is.next = iu.next
  BY <1>8 DEF SetReschedule, QueueType
<1>. HIDE DEF is
<1>10. \A x \in {i, is} : active # Main => x.next[Main] = q.next[Main]
  BY <1>7, <1>9
<1>. QED
  BY <1>2, <1>3, <1>4, <1>5, <1>10 DEF u, s, i, iu, is

LEMMA ThrowEndsKills ==
    ASSUME Control({}), KillsEnd, RunsThrough, Flat, NEW t \in Tasklets, NEW pending \in BOOLEAN,
           Throw(t, pending)
    PROVE  KillsEnd' /\ RunsThrough'
<1>. DEFINE thrown == [tk EXCEPT ![t].exc = "Error"]
            undone == [tk EXCEPT ![t].exc = "none"]
<1>1. PICK op : Calls(op)
  BY DEF Throw
<1>2. mgr' = mgr /\ t # Main /\ ~Nested
  BY DEF Throw, Flat
<1>3. \A v \in Tasklets : thrown[v].alive = tk[v].alive /\ undone[v].alive = tk[v].alive
  BY <1>1, CalledQuietly DEF TaskletType
<1>4. /\ stack[active] = <<>> /\ ret = "none" /\ gl[Main].parent = NULL
      /\ q.current = active /\ ~IsBlocked(q, t)
  BY <1>1, CalledQuietly
<1>5. CASE q.current = t \/ ~tk[t].alive
  <2>1. Answer(<<>>, "Error") /\ tk' = undone /\ q' = q /\ gl' = gl
    BY <1>4, <1>5 DEF Throw
  <2>2. Harmless
    BY <1>2, <1>3, <1>4, <2>1 DEF Harmless
  <2>. QED
    BY <1>4, <2>1, <2>2, HarmlessAnswer
<1>6. CASE ~(q.current = t \/ ~tk[t].alive) /\ pending
  <2>1. Answer(<<>>, "ok") /\ q' = InsertTasklet(q, t) /\ tk' = thrown /\ gl' = gl
    BY <1>6 DEF Throw
  <2>2. active # Main => q'.next[Main] = q.next[Main]
    BY <1>4, <2>1, QueueOfAThrow
  <2>3. Harmless
    BY <1>2, <1>3, <1>4, <2>1, <2>2 DEF Harmless
  <2>. QED
    BY <1>4, <2>1, <2>3, HarmlessAnswer
<1>7. CASE ~(q.current = t \/ ~tk[t].alive) /\ ~pending
  <2>. DEFINE x == Unblock(q, t)
  <2>1. RunTasklet(t, x, thrown, <<>>)
    BY <1>4, <1>7 DEF Throw
  <2>2. QuietQueue(x) /\ x.scheduled[active] /\ x.next = q.next
    BY <1>4, QueueOfAThrow
  <2>3. t \in Tasklets \ {Main, active}
    BY <1>2, <1>4, <1>7
  <2>. HIDE DEF x, thrown, undone
  <2>. QED
    BY <1>2, <1>3, <1>4, <2>1, <2>2, <2>3, HarmlessRun
<1>. QED
  BY <1>5, <1>6, <1>7

(* Who kills at once has its victim behind it, or behind main. *)
LEMMA KillNowEndsKills ==
    ASSUME Control({}), KillsEnd, RunsThrough, stack[active] = <<>>, ret = "none",
           NEW x, QuietQueue(x), x.scheduled[active], x.next = q.next,
           NEW t \in Tasklets \ {Main, active}, NEW tk0, tk0[t].exc = "TaskletExit",
           \A v \in Tasklets : tk0[v].alive = tk[v].alive,
           Yield(MoveToRunNext(x, t), tk0, <<RestoreBlocked(t, NULL)>>), mgr' = mgr
    PROVE  KillsEnd' /\ RunsThrough'
<1>. DEFINE y == MoveToRunNext(x, t)
            w == RestoreBlocked(t, NULL)
            f == CallFrame
            rest == <<w>>
            fs == <<f>> \o rest
<1>1. /\ QuietQueue(y) /\ (active # Main => y.next[Main] = q.next[Main])
      /\ y.next[active] = t /\ y.reschedule[active] = "FRONT_PLUS_ONE"
  BY RunsBehind
<1>. HIDE DEF y
<1>2. rest \in Seq(PlainFrames({})) /\ w.k = "Kill" /\ w.t = t
  BY DEF RestoreBlocked, PlainFrames
<1>3. Yield(y, tk0, rest)
  BY DEF y
<1>. HIDE DEF rest
<1>4. /\ active' = active /\ stack' = [stack EXCEPT ![active] = fs]
      /\ q' = y /\ tk' = tk0 /\ gl' = gl
  BY <1>1, <1>2, <1>3, YieldIsPushed DEF QuietQueue
<1>5. /\ f.k # "Kill" /\ (f.k # "Run" \/ (active = Main /\ f = RunFrame(Main, NULL, FALSE)))
      /\ f.pc = "head" /\ (active = Main => f.k = "Run") /\ (active # Main => f.k = "Yield")
  BY FramesOfCalls DEF CallFrame, RunFrame, YieldFrame
<1>. HIDE DEF f, w
<1>6. fs # <<>> /\ Head(fs) = f
  BY <1>2, PutOnTop
<1>7. \A v : KillIn(fs, v) <=> v = t
  <2>1. \A v : KillIn(rest, v) <=> v = t
    <3>1. rest = <<w>> \o <<>> /\ <<>> \in Seq({w})
      BY DEF rest
    <3>. QED
      BY <1>2, <3>1, KillOnTop, NoKillInNothing
  <2>. QED
    BY <1>2, <1>5, <2>1, KillOnTop
<1>. HIDE DEF fs
<1>8. active \in Tasklets /\ stack'[active] = fs /\ \A u \in Tasklets \ {active} : stack'[u] = stack[u]
  BY <1>4 DEF Control, Types, Stacks
<1>9. RunsThrough'
  <2>1. gl'[Main].parent = NULL /\ mgr'.runType = mgr.runType
    BY <1>4 DEF RunsThrough
  <2>. QED
    BY <1>1, <1>4, <1>5, <1>6, <2>1, CallRunsThrough
<1>10. ASSUME NEW v \in Tasklets, Kills(Main, v)' PROVE v # Main /\ (Dying(v)' \/ ~tk'[v].alive)
  <2>1. CASE active = Main
    <3>1. v = t
      BY <1>7, <1>8, <1>10, <2>1 DEF Kills
    <3>2. AtRun("head")'
      BY <1>5, <1>6, <1>8, <2>1 DEF AtRun, TopIs
    <3>3. Picked(v)' /\ tk'[v].exc = "TaskletExit"
      BY <1>1, <1>4, <2>1, <3>1, <3>2 DEF Picked
    <3>. QED
      BY <3>1, <3>3 DEF Dying
  <2>2. CASE active # Main
    <3>1. Kills(Main, v)
      BY <1>8, <1>10, <2>2, MainAssumption DEF Kills
    <3>. QED
      BY <1>4, <3>1, NobodyWaits
  <2>. QED
    BY <2>1, <2>2
<1>11. ASSUME NEW a \in Tasklets \ {Main}, NEW v \in Tasklets, Kills(a, v)'
       PROVE  v \notin {Main, a} /\ Coming(a, v)'
  <2>1. a = active
    <3>1. a # active => Kills(a, v)
      BY <1>8, <1>11 DEF Kills
    <3>. QED
      BY <3>1, NobodyWaits
  <2>2. v = t
    BY <1>7, <1>8, <1>11, <2>1 DEF Kills
  <2>3. AtYield(a, "head")'
    BY <1>5, <1>6, <1>8, <2>1 DEF AtYield, TopIs
  <2>4. ComesBehind(a, v)'
    BY <1>1, <1>4, <2>1, <2>2, <2>3 DEF ComesBehind
  <2>. QED
    BY <2>1, <2>2, <2>4 DEF Coming
<1>. QED
  BY <1>9, <1>10, <1>11 DEF KillsEnd

LEMMA KillEndsKills ==
    ASSUME Control({}), KillsEnd, RunsThrough, Flat, NEW t \in Tasklets, NEW pending \in BOOLEAN,
           Kill(t, pending)
    PROVE  KillsEnd' /\ RunsThrough'
<1>. DEFINE quiet == SetReschedule(Unblock(q, t), t, "NONE")
            tk1 == [tk EXCEPT ![t].exc = "TaskletExit"]
<1>1. PICK op : Calls(op)
  BY DEF Kill
<1>2. KillTasklet(t, pending, <<>>) /\ mgr' = mgr /\ t # Main /\ ~Nested
  BY DEF Kill, Flat
<1>3. /\ stack[active] = <<>> /\ ret = "none" /\ gl[Main].parent = NULL
      /\ q.current = active /\ q.blockedOn[t] = NULL /\ tk \in [Tasklets -> TaskletType]
  BY <1>1, CalledQuietly DEF IsBlocked
<1>4. /\ \A v \in Tasklets : tk1[v].alive = tk[v].alive
      /\ tk1[t].exc = "TaskletExit"
  BY <1>3 DEF TaskletType
<1>5. CASE ~tk[t].alive \/ tk[t].killPending
  <2>1. Answer(<<>>, "ok") /\ q' = q /\ tk' = tk /\ gl' = gl
    BY <1>2, <1>5 DEF KillTasklet
  <2>2. Harmless
    BY <1>2, <1>3, <2>1 DEF Harmless
  <2>. QED
    BY <1>3, <2>1, <2>2, HarmlessAnswer
<1>6. CASE ~(~tk[t].alive \/ tk[t].killPending) /\ q.current = t
  <2>1. /\ Answer(<<>>, "TaskletExit") /\ q' = Unblock(q, t) /\ gl' = gl
        /\ tk' = [tk EXCEPT ![t].exc = "none"]
    BY <1>2, <1>6 DEF KillTasklet
  <2>2. q'.next = q.next
    BY <1>3, <2>1, QueueOfAThrow
  <2>3. \A v \in Tasklets : tk'[v].alive = tk[v].alive
    BY <1>3, <2>1 DEF TaskletType
  <2>4. Harmless
    BY <1>2, <1>3, <2>1, <2>2, <2>3 DEF Harmless
  <2>. QED
    BY <1>3, <2>1, <2>4, HarmlessAnswer
<1>7. CASE ~(~tk[t].alive \/ tk[t].killPending) /\ q.current # t /\ pending
  <2>1. /\ Answer(<<>>, "ok") /\ gl' = gl
        /\ q' = SetReschedule(InsertTasklet(Unblock(q, t), t), t, "NONE")
        /\ tk' = [tk EXCEPT ![t].exc = "TaskletExit", ![t].killPending = TRUE,
                            ![t].dir = @]
    BY <1>2, <1>3, <1>7 DEF KillTasklet
  <2>2. active # Main => q'.next[Main] = q.next[Main]
    BY <1>3, <2>1, QueueOfAThrow
  <2>3. \A v \in Tasklets : tk'[v].alive = tk[v].alive
    BY <1>3, <2>1 DEF TaskletType
  <2>4. Harmless
    BY <1>2, <1>3, <2>1, <2>2, <2>3 DEF Harmless
  <2>. QED
    BY <1>3, <2>1, <2>4, HarmlessAnswer
<1>8. CASE ~(~tk[t].alive \/ tk[t].killPending) /\ q.current # t /\ ~pending
  <2>1. RunTasklet(t, quiet, tk1, <<RestoreBlocked(t, NULL)>> \o <<>>)
    BY <1>2, <1>3, <1>8 DEF KillTasklet
  <2>2. <<RestoreBlocked(t, NULL)>> \o <<>> = <<RestoreBlocked(t, NULL)>>
    OBVIOUS
  <2>3. QuietQueue(quiet) /\ quiet.scheduled[active] /\ quiet.next = q.next /\ ~IsBlocked(quiet, t)
    BY <1>3, QueueOfAThrow DEF IsBlocked
  <2>4. tk1[t].alive
    BY <1>4, <1>8
  <2>. HIDE DEF quiet, tk1
  <2>5. Yield(MoveToRunNext(quiet, t), tk1, <<RestoreBlocked(t, NULL)>>)
    BY <1>2, <2>1, <2>2, <2>3, <2>4 DEF RunTasklet
  <2>. QED
    BY <1>2, <1>3, <1>4, <1>8, <2>3, <2>5, KillNowEndsKills
<1>. QED
  BY <1>5, <1>6, <1>7, <1>8

--------------------------------------------------------------------------------
(* Steps that move control.                                                  *)

(* Only the frame of Run or Yield on top of the running greenlet changes. *)
LEMMA KillsStay ==
    ASSUME Control({}), Control({})', stack[active] # <<>>, Head(stack[active]).k # "Kill",
           stack'[active] # <<>>, Head(stack'[active]).k # "Kill",
           Tail(stack'[active]) = Tail(stack[active]),
           \A t \in Tasklets \ {active} : stack'[t] = stack[t]
    PROVE  \A t, v \in Tasklets : Kills(t, v)' <=> Kills(t, v)
<1>1. PICK x \in Tasklets : x = active
  BY DEF Control, Types
<1>. DEFINE S == Switching(x) \cup PlainFrames({}) \cup LimitedFrames
<1>2. stack[x] \in Seq(S) /\ stack'[x] \in Seq(S)
  <2>1. ASSUME NEW s, s \in Rests({}, x) \/ Switches({}, x, s) PROVE s \in Seq(S)
    <3>1. CASE s \in Rests({}, x)
      <4>1. s \in Seq(PlainFrames({}) \cup LimitedFrames)
        BY <3>1, RestsAreSequences
      <4>2. PlainFrames({}) \cup LimitedFrames \subseteq S
        OBVIOUS
      <4>. HIDE DEF S
      <4>. QED
        BY <4>1, <4>2, SeqMonotonic
    <3>2. CASE Switches({}, x, s)
      BY <3>2 DEF Switches
    <3>. QED
      BY <2>1, <3>1, <3>2
  <2>2. stack[x] \in Rests({}, x) \/ Switches({}, x, stack[x])
    BY DEF Control, Stacks
  <2>3. stack'[x] \in Rests({}, x) \/ Switches({}, x, stack'[x])
    BY DEF Control, Stacks
  <2>. QED
    BY <2>1, <2>2, <2>3
<1>. HIDE DEF S
<1>3. \A v : KillIn(stack'[x], v) <=> KillIn(stack[x], v)
  BY <1>1, <1>2, KillBelow
<1>. QED
  BY <1>1, <1>3 DEF Kills

(* The running greenlet returns to what is below. *)
LEMMA KillsBelowStay ==
    ASSUME Control({}), stack[active] # <<>>, NEW r, Return(r)
    PROVE  /\ \A t, v \in Tasklets : Kills(t, v)' => Kills(t, v)
           /\ \A t \in Tasklets \ {active} : stack'[t] = stack[t]
           /\ active' = active /\ active \in Tasklets
           /\ ret' = r \/ (r = "ok" /\ ret' = "none")
           /\ \A pc : ~TopIs(active, "Run", pc)' /\ ~TopIs(active, "Yield", pc)'
<1>1. PICK x \in Tasklets : x = active
  BY DEF Control, Types
<1>. DEFINE s == Tail(stack[x])
<1>2. /\ stack'[x] = s /\ active' = x /\ \A t \in Tasklets \ {x} : stack'[t] = stack[t]
      /\ ret' = r \/ (r = "ok" /\ ret' = "none")
  BY <1>1 DEF Return, Continue, Control, Stacks
<1>3. \A v : KillIn(s, v) => KillIn(stack[x], v)
  <2>1. stack[x] # <<>>
    BY <1>1
  <2>. QED
    BY <2>1, StackIsASequence, KillBelow
<1>4. s # <<>> => Head(s).k \notin {"Run", "Yield"}
  <2>1. Tail(stack[active]) \in Rests({}, active)
    <3>1. CASE Top.k \in {"Run", "Yield"}
      BY <3>1, InTheMiddle
    <3>2. CASE Top.k \notin {"Run", "Yield"}
      BY <3>2, RestOfACall, TopOfRest
    <3>. QED
      BY <3>1, <3>2
  <2>. QED
    BY <1>1, <2>1, TopOfRest
<1>. HIDE DEF s
<1>5. \A t, v \in Tasklets : Kills(t, v)' => Kills(t, v)
  BY <1>2, <1>3 DEF Kills
<1>6. \A pc : ~TopIs(active, "Run", pc)' /\ ~TopIs(active, "Yield", pc)'
  BY <1>1, <1>2, <1>4 DEF TopIs
<1>. QED
  BY <1>1, <1>2, <1>5, <1>6

(* Where control is tells who can be dying, and who comes. *)
LEMMA DyingWhere ==
    ASSUME NEW v \in Tasklets \ {Main}, Dying(v)
    PROVE  /\ active = Main => \/ AtRun("head") /\ q.next[Main] = v /\ tk[v].exc = "TaskletExit"
                               \/ AtRun("in") /\ Target = v /\ gl[v].state = "dead" /\ ret = "TaskletExit"
                               \/ AtRun("out") /\ Target = v /\ ~tk[v].alive /\ ret # "Error"
           /\ active # Main => /\ active = v /\ ~AtYield(v, "head")
                               /\ \/ AtYield(v, "in") /\ tk[v].exc = "TaskletExit"
                                  \/ ~AtYield(v, "in") /\ ret = "TaskletExit"
<1>1. AtYield(v, "in") => ~AtYield(v, "head")
  BY DEF AtYield, TopIs
<1>. QED
  BY <1>1 DEF Dying, Picked

LEMMA DiesEndsKills ==
    ASSUME Control({}), KillsEnd, RunsThrough, stack[active] = <<>>, NEW r \in Outcomes, Dies(r),
           ret = "TaskletExit" => r = "TaskletExit"
    PROVE  KillsEnd' /\ RunsThrough'
<1>1. /\ active # Main /\ active \in Tasklets /\ q' = q /\ tk' = tk /\ stack' = stack /\ mgr' = mgr
      /\ ret' = r
      /\ gl' = [gl EXCEPT ![active].state = "dead"] /\ gl'[active].state = "dead"
      /\ gl \in [Tasklets -> GreenletType]
  BY DiesKeepsControl DEF Dies, Control, Types, GreenletsFit
<1>2. AtRun("in") /\ Target = active
  BY <1>1, RunByMain
<1>3. active' = Main
  <2>. DEFINE g == [gl EXCEPT ![active].state = "dead"]
  <2>1. active' = Landing(g, g[active].parent)
    BY DEF Dies
  <2>2. GreenletsFit(g)
    BY <1>1, DiesKeepsControl DEF Control, Types
  <2>3. g[active].state = "dead" /\ g[Main].state = "started"
    BY <1>1, <2>2 DEF GreenletsFit
  <2>. HIDE DEF g
  <2>4. g[active].parent = Main
    BY <1>1, <2>2, <2>3 DEF GreenletsFit
  <2>. QED
    BY <2>1, <2>2, <2>3, <2>4, MainAssumption, LandsOnMain
<1>4. PICK x \in Tasklets \ {Main} : x = active
  BY <1>1
<1>5. AtRun("in")' /\ Target' = x /\ RunsOne'
  BY <1>1, <1>2, <1>4 DEF RunsOne, AtRun, TopIs, Target
<1>6. \A t \in Tasklets \ {x} : gl'[t] = gl[t]
  BY <1>1, <1>4
<1>7. RunsThrough'
  <2>1. RunsOne /\ Target = x
    BY <1>2, <1>4 DEF RunsOne
  <2>. QED
    BY <1>1, <1>4, <1>5, <1>6, <2>1, MainAssumption DEF RunsThrough
<1>8. \A t, v \in Tasklets : Kills(t, v)' => Kills(t, v)
  BY <1>1 DEF Kills
<1>9. \A k, pc : ~TopIs(x, k, pc)
  BY <1>4 DEF TopIs
<1>10. ASSUME NEW v \in Tasklets \ {Main}, Dying(v) PROVE Dying(v)'
  <2>1. active = v /\ ret = "TaskletExit"
    BY <1>4, <1>9, <1>10, DyingWhere DEF AtYield
  <2>2. gl'[v].state = "dead" /\ ret' = "TaskletExit" /\ Target' = v
    BY <1>1, <1>4, <1>5, <2>1
  <2>. QED
    BY <1>3, <1>5, <2>2 DEF Dying
<1>11. ASSUME NEW a \in Tasklets \ {Main}, NEW v \in Tasklets \ {Main, a}, Kills(a, v), Coming(a, v)
       PROVE  Coming(a, v)'
  <2>1. a # x
    BY <1>4, <1>11, NoKillInNothing DEF Kills
  <2>2. ~ComesBehind(a, v) /\ ~Outlived(a, v)
    BY <1>4, <2>1 DEF ComesBehind, Outlived, Picked
  <2>3. Dying(v) /\ q.next[Main] = v /\ q.next[v] = a
    BY <1>11, <2>2 DEF Coming
  <2>. QED
    BY <1>1, <1>10, <2>3 DEF Coming
<1>12. KillsEnd'
  BY <1>1, <1>8, <1>10, <1>11, KillsGoOn
<1>. QED
  BY <1>7, <1>12

(* What is alive after SwitchTo, and what main's loop was switched to. *)
LEMMA LoopSwitchEndsKills ==
    ASSUME Control({}), Flags, Control({})', Flags', KillsEnd, RunsThrough, SwitchReturns, active = Main
    PROVE  KillsEnd' /\ RunsThrough'
<1>1. stack[active] # <<>> /\ Top.k = "Run" /\ Top.pc = "in" /\ AtFrame("Run", "in")
  <2>1. ~q.nullDeref /\ stack[active] # <<>> /\ Top.k \in {"Run", "Yield"} /\ Top.pc = "in"
    BY DEF SwitchReturns
  <2>. QED
    BY <2>1, InTheMiddle DEF AtFrame
<1>2. PICK x \in Tasklets \ {Main} :
         /\ x = Top.sw /\ Target = x
         /\ Where(x) = IF Top.pc = "in" THEN "back" ELSE "out"
         /\ Fits(q.scheduled[x], q.reschedule[x], tk[x], gl[x].state, Where(x), ret)
         /\ q.current \in {Main, x}
  BY <1>1, BackInTheLoop
<1>3. tk[q.current].exc = "none"
  <2>1. Fits(q.scheduled[x], q.reschedule[x], tk[x], gl[x].state, "back", ret)
    BY <1>1, <1>2
  <2>2. tk[x].exc = "none"
    BY <2>1 DEF Fits
  <2>3. tk[Main].exc = "none"
    BY DEF Control, Types, TaskletsFit
  <2>. QED
    BY <1>2, <2>2, <2>3
<1>. DEFINE f == [Top EXCEPT !.pc = "out"]
<1>4. /\ tk' = AfterSwitch(x, ret) /\ q' = q /\ gl' = gl /\ mgr' = mgr
      /\ Continue(<<f>> \o Tail(stack[active]), ret)
  BY <1>2, <1>3 DEF SwitchReturns, Resumed
<1>5. Top \in RunFrames /\ Tail(stack[Main]) \in Rests({}, Main)
  BY <1>1, InTheMiddle
<1>6. /\ f \in Switching(Main) /\ f.k = "Run" /\ f.pc = "out" /\ f.sw = x /\ f.until = Top.until
      /\ f.done = Top.done
  BY <1>1, <1>2, <1>5 DEF RunFrames, Switching
<1>. HIDE DEF f
<1>. DEFINE s == <<f>> \o Tail(stack[Main])
<1>7. s # <<>> /\ Head(s) = f /\ Tail(s) = Tail(stack[Main])
  BY <1>5, <1>6, SwitchOnTop
<1>. HIDE DEF s
<1>8. /\ active' = Main /\ ret' = ret /\ stack'[Main] = s
      /\ \A t \in Tasklets \ {Main} : stack'[t] = stack[t]
  <2>1. Continue(s, ret)
    BY <1>4 DEF s
  <2>. QED
    BY <1>7, <2>1, MainAssumption DEF Continue, Control, Stacks
<1>9. AtRun("out")' /\ ~AtRun("in")' /\ Target' = x /\ RunsOne'
  BY <1>6, <1>7, <1>8 DEF AtRun, TopIs, Target, RunsOne
<1>10. AtRun("in") /\ ~AtRun("out") /\ ~AtRun("head") /\ RunsOne
  BY <1>1 DEF AtRun, TopIs, Top, RunsOne
<1>11. \A t, v \in Tasklets : Kills(t, v)' => Kills(t, v)
  <2>1. Head(stack[active]).k # "Kill" /\ Head(stack'[active]).k # "Kill"
        /\ Tail(stack'[active]) = Tail(stack[active]) /\ stack'[active] # <<>>
    BY <1>1, <1>6, <1>7, <1>8 DEF Top
  <2>. QED
    BY <1>1, <1>8, <2>1, KillsStay
<1>12. RunsThrough'
  <2>1. ~Top.until /\ ~Top.done
    BY <1>1 DEF RunsThrough, Top
  <2>2. /\ stack'[Main] # <<>> /\ ~Head(stack'[Main]).until /\ ~Head(stack'[Main]).done
    BY <1>6, <1>7, <1>8, <2>1
  <2>3. q'.next[Main] = Target'
    BY <1>2, <1>4, <1>9, <1>10 DEF RunsThrough
  <2>. QED
    BY <1>4, <1>8, <2>2, <2>3 DEF RunsThrough
<1>13. \A v \in Tasklets : tk'[v].exc = tk[v].exc /\ (~tk[v].alive => ~tk'[v].alive)
  BY <1>4, AfterSwitchFlags
<1>14. ASSUME NEW v \in Tasklets \ {Main}, Dying(v) PROVE Dying(v)'
  <2>1. x = v /\ gl[v].state = "dead" /\ ret = "TaskletExit"
    BY <1>2, <1>10, <1>14, DyingWhere
  <2>2. Where(v)' = "out"
    BY <1>8, <1>9, <2>1 DEF Where
  <2>3. Fits(q'.scheduled[v], q'.reschedule[v], tk'[v], gl'[v].state, "out", ret')
    BY <2>2 DEF Flags, Noted
  <2>4. ~tk'[v].alive
    BY <1>4, <2>1, <2>3 DEF Fits
  <2>. QED
    BY <1>8, <1>9, <2>1, <2>4 DEF Dying
<1>15. ASSUME NEW a \in Tasklets \ {Main}, NEW v \in Tasklets \ {Main, a}, Coming(a, v)
       PROVE  Coming(a, v)'
  <2>1. ~Outlived(a, v)
    BY <1>10 DEF Outlived, Picked
  <2>2. CASE ComesBehind(a, v)
    <3>1. Target = a /\ tk[v].exc = "TaskletExit" /\ q.next[a] = v /\ q.reschedule[a] = "FRONT_PLUS_ONE"
      BY <2>2 DEF ComesBehind
    <3>. QED
      BY <1>2, <1>4, <1>8, <1>9, <1>13, <3>1 DEF ComesBehind, Coming
  <2>3. CASE Dying(v) /\ q.next[Main] = v /\ q.next[v] = a
    BY <1>4, <1>14, <2>3 DEF Coming
  <2>. QED
    BY <1>15, <2>1, <2>2, <2>3 DEF Coming
<1>16. KillsEnd'
  BY <1>11, <1>13, <1>14, <1>15, KillsGoOn
<1>. QED
  BY <1>12, <1>16

(* A tasklet's Yield moves on: main's loop is where it was. *)
LEMMA YieldSwitchEndsKills ==
    ASSUME Control({}), Flags, Control({})', KillsEnd, RunsThrough, SwitchReturns, active # Main
    PROVE  KillsEnd' /\ RunsThrough'
<1>1. stack[active] # <<>> /\ Top.k = "Yield" /\ Top.pc = "in" /\ Top.sw = Main
  <2>1. stack[active] # <<>> /\ Top.k \in {"Run", "Yield"} /\ Top.pc = "in"
    BY DEF SwitchReturns
  <2>2. Top \in YieldFrames(active)
    BY <2>1, InTheMiddle
  <2>. QED
    BY <2>1, <2>2 DEF YieldFrames
<1>2. PICK x \in Tasklets \ {Main} : x = active
  BY DEF Control, Types
<1>3. q.current = x /\ AtYield(x, "in") /\ ~AtYield(x, "head")
  BY <1>1, <1>2, RunByMain DEF AtYield, TopIs, Top
<1>. DEFINE raised == [tk EXCEPT ![x].exc = "none"]
            back == AfterSwitch(Main, ret)
            r == IF tk[x].exc # "none" THEN tk[x].exc ELSE ret
<1>4. /\ tk' = IF tk[x].exc # "none" THEN raised ELSE back
      /\ q' = q /\ gl' = gl /\ mgr' = mgr
      /\ Continue(<<[Top EXCEPT !.pc = "out"]>> \o Tail(stack[active]), r)
  BY <1>1, <1>3 DEF SwitchReturns, Resumed
<1>5. tk[x].exc = "TaskletExit" => r = "TaskletExit"
  OBVIOUS
<1>6. \A v \in Tasklets : ~tk[v].alive => ~tk'[v].alive
  <2>1. \A v \in Tasklets : raised[v].alive = tk[v].alive
    BY DEF Control, Types, TaskletsFit, TaskletType
  <2>2. \A v \in Tasklets : ~tk[v].alive => ~back[v].alive
    BY AfterSwitchFlags, MainAssumption
  <2>. HIDE DEF raised, back
  <2>. QED
    BY <1>4, <2>1, <2>2
<1>. HIDE DEF r
<1>7. /\ active' = x /\ ret' = r /\ stack'[x] # <<>> /\ Head(stack'[x]).k = "Yield"
      /\ Head(stack'[x]).pc = "out" /\ Tail(stack'[x]) = Tail(stack[x])
      /\ \A t \in Tasklets \ {x} : stack'[t] = stack[t]
  BY <1>1, <1>2, <1>4, PastTheSwitch
<1>8. ~AtYield(x, "in")' /\ ~AtYield(x, "head")'
  BY <1>7 DEF AtYield, TopIs
<1>9. \A t, v \in Tasklets : Kills(t, v)' => Kills(t, v)
  BY <1>1, <1>2, <1>7, KillsStay DEF Top
<1>10. RunsThrough'
  <2>1. stack'[Main] = stack[Main]
    BY <1>7, MainAssumption
  <2>2. stack[x] # <<>>
    BY <1>1, <1>2
  <2>. QED
    BY <1>4, <1>7, <2>1, <2>2 DEF RunsThrough, RunsOne, AtRun, TopIs, Target
<1>11. ASSUME NEW v \in Tasklets \ {Main}, Dying(v) PROVE Dying(v)'
  <2>1. v = x /\ tk[v].exc = "TaskletExit"
    BY <1>2, <1>3, <1>11, DyingWhere
  <2>. QED
    BY <1>5, <1>7, <1>8, <2>1 DEF Dying
<1>12. ASSUME NEW a \in Tasklets \ {Main}, NEW v \in Tasklets \ {Main, a}, Coming(a, v)
       PROVE  Coming(a, v)'
  <2>1. ~ComesBehind(a, v)
    BY <1>2, <1>3 DEF ComesBehind
  <2>2. CASE Dying(v) /\ q.next[Main] = v /\ q.next[v] = a
    BY <1>4, <1>11, <2>2 DEF Coming
  <2>3. CASE Outlived(a, v)
    <3>1. active = a /\ ~tk[v].alive
      BY <1>2, <2>3 DEF Outlived, Picked
    <3>2. Outlived(a, v)'
      BY <1>2, <1>6, <1>7, <1>8, <3>1 DEF Outlived
    <3>. QED
      BY <3>2 DEF Coming
  <2>. QED
    BY <1>12, <2>1, <2>2, <2>3 DEF Coming
<1>13. KillsEnd'
  BY <1>6, <1>9, <1>11, <1>12, KillsGoOn
<1>. QED
  BY <1>10, <1>13

(* Run or Yield returns, or the rest of a call, with the outcome r. *)
LEMMA ReturnRunsThrough ==
    ASSUME Control({}), RunsThrough, stack[active] # <<>>, NEW r, Return(r),
           mgr' = mgr, gl'[Main].parent = NULL, \A t \in Tasklets : gl'[t].state = gl[t].state,
           active # Main => q' = q
    PROVE  RunsThrough'
<1>1. /\ \A t \in Tasklets \ {active} : stack'[t] = stack[t]
      /\ active' = active /\ active \in Tasklets
      /\ \A pc : ~TopIs(active, "Run", pc)' /\ ~TopIs(active, "Yield", pc)'
  BY KillsBelowStay
<1>2. \A t \in Tasklets \ {Main} : stack'[t] # <<>> => gl'[t].state = "started"
  BY <1>1 DEF RunsThrough
<1>3. CASE active = Main
  <2>1. ~RunsOne' /\ (stack'[Main] # <<>> => Head(stack'[Main]).k # "Run")
    BY <1>1, <1>3 DEF RunsOne, AtRun, TopIs
  <2>. QED
    BY <1>2, <2>1 DEF RunsThrough
<1>4. CASE active # Main
  <2>1. stack'[Main] = stack[Main]
    BY <1>1, <1>4, MainAssumption
  <2>. QED
    BY <1>2, <1>4, <2>1 DEF RunsThrough, RunsOne, AtRun, TopIs, Target
<1>. QED
  BY <1>3, <1>4

LEMMA RunEndsEndsKills ==
    ASSUME Control({}), KillsEnd, RunsThrough, RunEnds
    PROVE  KillsEnd' /\ RunsThrough'
<1>1. /\ stack[active] # <<>> /\ Top.k = "Run" /\ Top.pc = "head" /\ RunIsOver(Top) /\ Return("ok")
      /\ q' = q /\ tk' = tk /\ gl' = gl /\ mgr' = mgr
  BY DEF RunEnds, AtFrame
<1>2. /\ active = Main /\ ~RunsOne /\ q.current = Main /\ Top.base = Main
      /\ stack[Main] # <<>> /\ Head(stack[Main]) = Top
  BY <1>1, InTheLoop
<1>3. q.next[Main] = NULL
  <2>1. ~Top.done /\ ~mgr.stop
    BY <1>1, <1>2 DEF RunsThrough, Control, LimitsMatchTheCall
  <2>2. q.next[Main] # Main
    BY GoodQueue, MainAssumption, NullAssumption DEF Control, Types, QueueFits
  <2>. QED
    BY <1>1, <1>2, <2>1, <2>2 DEF RunIsOver
<1>4. \A v \in Tasklets : ~Picked(v)
  BY <1>3, NullAssumption DEF Picked
<1>5. ASSUME NEW v \in Tasklets \ {Main}, Dying(v) PROVE FALSE
  BY <1>2, <1>3, <1>5, NullAssumption, DyingWhere DEF RunsOne
<1>6. ASSUME NEW a \in Tasklets \ {Main}, NEW v \in Tasklets \ {Main, a}, Coming(a, v) PROVE FALSE
  BY <1>2, <1>4, <1>5, <1>6 DEF Coming, ComesBehind, Outlived
<1>7. \A t, v \in Tasklets : Kills(t, v)' => Kills(t, v)
  BY <1>1, KillsBelowStay
<1>8. KillsEnd'
  BY <1>1, <1>5, <1>6, <1>7, KillsGoOn
<1>9. RunsThrough'
  BY <1>1, <1>2, ReturnRunsThrough DEF RunsThrough
<1>. QED
  BY <1>8, <1>9

(* Main is nobody's descendant: it can run whoever is queued. *)
LEMMA MainCanAdopt ==
    ASSUME Control({}), RunsThrough
    PROVE  ~RunCannotAdopt
<1>. SUFFICES ASSUME RunCannotAdopt PROVE FALSE
  OBVIOUS
<1>1. /\ stack[active] # <<>> /\ Top.k = "Run" /\ Top.pc = "head" /\ ~RunIsOver(Top)
      /\ RefusesParent(q.next[Top.base], q.current)
  BY DEF RunCannotAdopt, AtFrame
<1>2. Top.base = Main /\ q.current = Main
  BY <1>1, InTheLoop
<1>3. q.next[Main] \notin {NULL, Main}
  BY <1>1, <1>2 DEF RunIsOver
<1>4. q.next[Main] \in Lineage(gl, Main)
  BY <1>1, <1>2 DEF RefusesParent
<1>. QED
  BY <1>3, <1>4, NoneAboveMain DEF RunsThrough

LEMMA YieldReturnsEndsKills ==
    ASSUME Control({}), KillsEnd, RunsThrough, YieldReturns \/ YieldMainReturns \/ KillReturns
    PROVE  KillsEnd' /\ RunsThrough'
<1>1. /\ stack[active] # <<>> /\ tk' = tk /\ gl' = gl /\ mgr' = mgr
      /\ \/ Top.k = "Yield" /\ Top.pc = "out"
         \/ Top.k \notin {"Run", "Yield"}
  BY DEF YieldReturns, YieldMainReturns, KillReturns, AtFrame, AtThen
<1>2. \E r : Return(r) /\ (ret = "TaskletExit" => r = "TaskletExit")
  BY DEF YieldReturns, YieldMainReturns, KillReturns
<1>3. q' = q
  <2>1. ASSUME KillReturns PROVE q' = q
    <3>1. Top.k = "Kill" /\ Top \in PlainFrames({})
      BY <2>1, RestOfACall DEF KillReturns, AtThen, Limited
    <3>2. Top.c = NULL
      BY <3>1 DEF PlainFrames
    <3>. QED
      BY <2>1, <3>2 DEF KillReturns
  <2>. QED
    BY <2>1 DEF YieldReturns, YieldMainReturns
<1>4. PICK x \in Tasklets : x = active
  BY DEF Control, Types
<1>5. /\ \A t, v \in Tasklets : Kills(t, v)' => Kills(t, v)
      /\ active' = x /\ (ret = "TaskletExit" => ret' = "TaskletExit")
      /\ \A pc : ~TopIs(x, "Yield", pc)'
  BY <1>1, <1>2, <1>4, KillsBelowStay
<1>6. /\ \A pc : ~TopIs(x, "Run", pc)
      /\ ~AtYield(x, "head") /\ ~AtYield(x, "in")
  BY <1>1, <1>4, InTheMiddle DEF AtYield, TopIs, Top
<1>7. ~AtYield(x, "head")' /\ ~AtYield(x, "in")'
  BY <1>5 DEF AtYield
<1>8. x = Main => ~RunsOne /\ ~AtRun("head")
  BY <1>6 DEF RunsOne, AtRun
<1>9. ASSUME NEW v \in Tasklets \ {Main}, Dying(v) PROVE Dying(v)'
  <2>1. x = v /\ ret = "TaskletExit"
    BY <1>4, <1>6, <1>8, <1>9, DyingWhere DEF RunsOne
  <2>. QED
    BY <1>5, <1>7, <2>1 DEF Dying
<1>10. ASSUME NEW a \in Tasklets \ {Main}, NEW v \in Tasklets \ {Main, a}, Coming(a, v)
       PROVE  Coming(a, v)'
  <2>1. ~ComesBehind(a, v)
    BY <1>4, <1>6, <1>8 DEF ComesBehind
  <2>2. CASE Dying(v) /\ q.next[Main] = v /\ q.next[v] = a
    BY <1>3, <1>9, <2>2 DEF Coming
  <2>3. CASE Outlived(a, v)
    <3>1. x = a /\ ~tk[v].alive
      BY <1>4, <1>8, <2>3 DEF Outlived, Picked
    <3>2. Outlived(a, v)'
      BY <1>1, <1>5, <1>7, <3>1 DEF Outlived
    <3>. QED
      BY <3>2 DEF Coming
  <2>. QED
    BY <1>10, <2>1, <2>2, <2>3 DEF Coming
<1>11. KillsEnd'
  BY <1>1, <1>5, <1>9, <1>10, KillsGoOn
<1>12. RunsThrough'
  BY <1>1, <1>2, <1>3, ReturnRunsThrough DEF RunsThrough
<1>. QED
  BY <1>11, <1>12

(* The loop fails: nobody has asked to come back then. *)
LEMMA RunFailsEndsKills ==
    ASSUME Control({}), KillsEnd, RunsThrough, RunFails
    PROVE  KillsEnd' /\ RunsThrough'
<1>1. /\ stack[active] # <<>> /\ Top.k = "Run" /\ Top.pc = "out" /\ ret = "Error"
      /\ Return("Error") /\ mgr' = mgr
  BY DEF RunFails, AtFrame
<1>2. /\ active = Main /\ RunsOne /\ Target = Top.sw /\ Top.sw \in Tasklets \ {Main}
      /\ Head(stack[Main]) = Top /\ stack[Main] # <<>>
  BY <1>1, InTheLoop
<1>3. PICK x \in Tasklets \ {Main} : x = Top.sw
  BY <1>2
<1>4. /\ tk' = tk \/ tk' = [tk EXCEPT ![x].parent = NULL]
      /\ gl' = gl \/ gl' = Parented(gl, x, NULL)
  BY <1>3 DEF RunFails
<1>5. /\ \A v \in Tasklets : tk'[v].alive = tk[v].alive
      /\ \A v \in Tasklets : gl'[v].state = gl[v].state
      /\ gl'[Main].parent = NULL
  BY <1>4, MainAssumption
     DEF Control, Types, TaskletsFit, TaskletType, GreenletsFit, GreenletType, Parented, RunsThrough
<1>6. AtRun("out") /\ ~AtRun("in") /\ ~AtRun("head")
  BY <1>1, <1>2 DEF AtRun, TopIs
<1>7. ASSUME NEW v \in Tasklets \ {Main}, Dying(v) PROVE FALSE
  BY <1>1, <1>2, <1>6, <1>7, DyingWhere
<1>8. ASSUME NEW a \in Tasklets \ {Main}, NEW v \in Tasklets \ {Main, a}, Coming(a, v) PROVE FALSE
  <2>1. q.reschedule[a] # "FRONT_PLUS_ONE"
    BY <1>1, <1>2 DEF Control, Marks, ComesBackSecond
  <2>. QED
    BY <1>2, <1>6, <1>7, <1>8, <2>1 DEF Coming, ComesBehind, Outlived, Picked
<1>9. \A t, v \in Tasklets : Kills(t, v)' => Kills(t, v)
  BY <1>1, KillsBelowStay
<1>10. KillsEnd'
  BY <1>5, <1>7, <1>8, <1>9, KillsGoOn
<1>11. RunsThrough'
  BY <1>1, <1>2, <1>5, ReturnRunsThrough
<1>. QED
  BY <1>10, <1>11

(* The one who is next is switched to, or ends before it has begun. *)
LEMMA RunSwitchesEndsKills ==
    ASSUME Control({}), Flags, Control({})', NoTrap, KillsEnd, RunsThrough, RunSwitches
    PROVE  KillsEnd' /\ RunsThrough'
<1>1. stack[active] # <<>> /\ Top.k = "Run" /\ Top.pc = "head" /\ ~RunIsOver(Top)
  BY DEF RunSwitches, AtFrame
<1>2. active = Main /\ Top.base = Main /\ ~RunsOne /\ q.current = Main /\ Head(stack[Main]) = Top
      /\ stack[Main] # <<>>
  BY <1>1, InTheLoop
<1>3. PICK x \in Tasklets \ {Main} : x = q.next[Main] /\ q.scheduled[x]
  <2>1. q.next[Main] # NULL
    BY <1>1, <1>2 DEF RunIsOver
  <2>. QED
    BY <2>1, GoodQueue, MainAssumption DEF Control, Types, QueueFits
<1>. DEFINE k0 == [tk[x] EXCEPT !.parent = Main]
            tk0 == Adopted(tk, x, Main)
            g0 == Parented(gl, x, Main)
            out == [Top EXCEPT !.pc = "out", !.sw = x]
            in == [Top EXCEPT !.pc = "in", !.sw = x]
            rest == Tail(stack[Main])
<1>4. ~IsSwitchTrapped
  BY DEF IsSwitchTrapped, Control, Types, ManagerFits
<1>5. SwitchTo(Top, x, q, tk0, g0) /\ mgr' = mgr
  <2>1. PICK expired \in BOOLEAN : mgr' = LimitTested(mgr, expired)
    BY DEF RunSwitches
  <2>2. mgr' = mgr
    BY <1>2, <2>1 DEF LimitTested, RunsThrough
  <2>. QED
    BY <1>2, <1>3, <2>2 DEF RunSwitches
<1>6. /\ tk \in [Tasklets -> TaskletType] /\ tk[x] \in TaskletType
      /\ gl \in [Tasklets -> GreenletType] /\ GreenletsFit(gl) /\ Q!Good(q)
  BY DEF Control, Types, TaskletsFit, GreenletsFit, QueueFits
<1>7. /\ tk0 \in [Tasklets -> TaskletType] /\ tk0[x] \in TaskletType
      /\ tk0[x].alive = tk[x].alive /\ tk0[x].firstRun = tk[x].firstRun /\ tk0[x].exc = tk[x].exc
      /\ \A u \in Tasklets \ {x} : tk0[u] = tk[u]
  <2>1. k0 \in TaskletType /\ k0.alive = tk[x].alive /\ k0.firstRun = tk[x].firstRun /\ k0.exc = tk[x].exc
    BY <1>6, MainAssumption DEF TaskletType
  <2>2. tk0 = [tk EXCEPT ![x] = k0]
    BY DEF Adopted
  <2>. HIDE DEF k0, tk0
  <2>3. tk0[x] = k0 /\ (\A u \in Tasklets \ {x} : tk0[u] = tk[u]) /\ tk0 \in [Tasklets -> TaskletType]
    BY <1>6, <2>1, <2>2
  <2>. QED
    BY <2>1, <2>3
<1>8. /\ g0 \in [Tasklets -> GreenletType] /\ g0[x].parent = Main /\ GreenletsFit(g0)
      /\ \A u \in Tasklets : g0[u].state = gl[u].state
      /\ g0[Main] = gl[Main]
  <2>1. Main # NULL /\ Main \in Tasklets
    BY MainAssumption, NullAssumption
  <2>2. /\ g0 \in [Tasklets -> GreenletType] /\ g0[x].parent = Main /\ g0[x].state = gl[x].state
        /\ \A u \in Tasklets : u # x => g0[u] = gl[u]
    BY <1>6, <2>1 DEF Parented, GreenletType
  <2>. HIDE DEF g0
  <2>. QED
    BY <1>3, <1>6, <2>1, <2>2 DEF GreenletsFit
<1>9. /\ out \in Switching(Main) /\ out.pc = "out" /\ out.sw = x /\ out.k = "Run"
      /\ in \in Switching(Main) /\ in.pc = "in" /\ in.sw = x /\ in.k = "Run"
      /\ ~out.until /\ ~out.done /\ ~in.until /\ ~in.done
  <2>1. Top \in RunFrames
    BY <1>1, <1>2, InTheMiddle
  <2>2. ~Top.until /\ ~Top.done
    BY <1>1, <1>2 DEF RunsThrough
  <2>. QED
    BY <2>1, <2>2 DEF RunFrames, Switching
<1>10. rest \in Rests({}, Main)
  BY <1>1, <1>2, InTheMiddle
<1>. HIDE DEF k0, tk0, g0, out, in, rest
<1>11. Fits(q.scheduled[x], q.reschedule[x], tk[x], gl[x].state, "away", ret)
  <2>1. Where(x) = "away"
    BY <1>2 DEF Where, RunsOne
  <2>. QED
    BY <2>1 DEF Flags, Noted
<1>12. /\ tk[x].alive /\ gl[x].state \in {"new", "started"} /\ (tk[x].firstRun <=> gl[x].state = "new")
  BY <1>3, <1>6, <1>11 DEF Fits, GreenletType
<1>13. AtRun("head") /\ ~AtRun("in") /\ ~AtRun("out")
  BY <1>1, <1>2 DEF AtRun, TopIs
(* Who is dying is x; who comes back is x, or behind x. *)
<1>14. \A v \in Tasklets \ {Main} : Dying(v) => v = x /\ tk[x].exc = "TaskletExit"
  BY <1>2, <1>3, <1>13, DyingWhere
<1>15. \A a \in Tasklets \ {Main} : \A v \in Tasklets \ {Main, a} : Kills(a, v) /\ Coming(a, v) =>
          \/ Dying(v) /\ q.next[Main] = v /\ q.next[v] = a
          \/ a = x /\ ~tk[v].alive /\ gl[x].state = "started"
  <2>. SUFFICES ASSUME NEW a \in Tasklets \ {Main}, NEW v \in Tasklets \ {Main, a}, Kills(a, v), Coming(a, v),
                       ~(Dying(v) /\ q.next[Main] = v /\ q.next[v] = a)
                PROVE  a = x /\ ~tk[v].alive /\ gl[x].state = "started"
    OBVIOUS
  <2>1. ~ComesBehind(a, v)
    BY <1>2 DEF ComesBehind
  <2>2. Outlived(a, v)
    BY <2>1 DEF Coming
  <2>3. a = x /\ ~tk[v].alive
    BY <1>2, <1>3, <2>2 DEF Outlived, Picked
  <2>4. stack[x] # <<>>
    BY <2>3, NoKillInNothing DEF Kills
  <2>. QED
    BY <2>3, <2>4 DEF RunsThrough
(* The frame on top of main's stack waits for x from now on. *)
<1>16. ASSUME NEW f, f = out \/ f = in, stack' = [stack EXCEPT ![active] = <<f>> \o rest],
              q'.next[Main] = x, gl'[Main].parent = NULL,
              \A u \in Tasklets : gl[u].state = "started" => gl'[u].state = "started"
       PROVE  /\ RunsThrough'
              /\ \A t \in Tasklets \ {Main} : stack'[t] = stack[t]
              /\ AtRun("in")' <=> f = in
              /\ AtRun("out")' <=> f = out
              /\ Target' = x /\ RunsOne'
              /\ \A t, v \in Tasklets : Kills(t, v)' => Kills(t, v)
  <2>. DEFINE s == <<f>> \o rest
  <2>1. s # <<>> /\ Head(s) = f /\ Tail(s) = rest
    BY <1>9, <1>10, <1>16, SwitchOnTop
  <2>. HIDE DEF s
  <2>2. stack' = [stack EXCEPT ![active] = s]
    BY <1>16 DEF s
  <2>3. stack'[Main] = s /\ \A t \in Tasklets \ {Main} : stack'[t] = stack[t]
    BY <1>2, <2>2, MainAssumption DEF Control, Stacks
  <2>4. f.k = "Run" /\ f.pc \in {"in", "out"} /\ f.sw = x /\ ~f.until /\ ~f.done
    BY <1>9, <1>16
  <2>5. (f.pc = "in" <=> f = in) /\ (f.pc = "out" <=> f = out)
    BY <1>9, <1>16
  <2>6. /\ AtRun("in")' <=> f = in
        /\ AtRun("out")' <=> f = out
        /\ Target' = x /\ RunsOne'
    BY <2>1, <2>3, <2>4, <2>5 DEF AtRun, TopIs, Target, RunsOne
  <2>7. \A t, v \in Tasklets : Kills(t, v)' => Kills(t, v)
    <3>1. /\ Head(stack[active]).k # "Kill" /\ Head(stack'[active]).k # "Kill"
          /\ stack'[active] # <<>> /\ Tail(stack'[active]) = Tail(stack[active])
      BY <1>1, <1>2, <2>1, <2>3, <2>4 DEF rest
    <3>2. \A t \in Tasklets \ {active} : stack'[t] = stack[t]
      BY <1>2, <2>3
    <3>. QED
      BY <1>1, <3>1, <3>2, KillsStay
  <2>8. RunsThrough'
    <3>1. Head(stack'[Main]) = f /\ stack'[Main] # <<>>
      BY <2>1, <2>3
    <3>2. mgr'.runType = "STANDARD"
      BY <1>5 DEF RunsThrough
    <3>3. \A t \in Tasklets \ {Main} : stack'[t] # <<>> => gl'[t].state = "started"
      BY <1>16, <2>3 DEF RunsThrough
    <3>4. gl'[Main].parent = NULL
      BY <1>16
    <3>5. RunsOne' => q'.next[Main] = Target'
      BY <1>16, <2>6
    <3>. QED
      BY <2>4, <3>1, <3>2, <3>3, <3>4, <3>5 DEF RunsThrough
  <2>. QED
    BY <2>3, <2>6, <2>7, <2>8
<1>17. out # in
  BY <1>9
<1>18. q.next[Main] = x /\ gl[Main].parent = NULL
  BY <1>3 DEF RunsThrough
<1>19. CASE DiesUnstarted(tk0, x)
  <2>. DEFINE w == [tk0[x] EXCEPT !.alive = FALSE]
  <2>1. Continue(<<out>> \o rest, "ok") /\ q' = q /\ tk' = [tk0 EXCEPT ![x] = w] /\ gl' = g0
    BY <1>2, <1>4, <1>5, <1>7, <1>19 DEF SwitchTo, out, rest, DeadUnstarted
  <2>2. ~w.alive
    BY <1>7 DEF TaskletType
  <2>. HIDE DEF w
  <2>3. tk'[x] = w /\ \A u \in Tasklets \ {x} : tk'[u] = tk[u]
    BY <1>7, <2>1
  <2>4. ~tk'[x].alive /\ \A v \in Tasklets : ~tk[v].alive => ~tk'[v].alive
    BY <2>2, <2>3
  <2>5. gl[x].state = "new"
    BY <1>7, <1>12, <1>19 DEF DiesUnstarted
  <2>6. /\ active' = Main /\ ret' = "ok" /\ stack' = [stack EXCEPT ![active] = <<out>> \o rest]
        /\ gl'[Main].parent = NULL /\ \A u \in Tasklets : gl[u].state = "started" => gl'[u].state = "started"
    <3>. DEFINE s == <<out>> \o rest
    <3>1. s # <<>>
      BY <1>9, <1>10, SwitchOnTop
    <3>. HIDE DEF s
    <3>2. Continue(s, "ok")
      BY <2>1 DEF s
    <3>3. active' = Main /\ ret' = "ok" /\ stack' = [stack EXCEPT ![active] = s]
      BY <1>2, <3>1, <3>2 DEF Continue
    <3>. QED
      BY <1>8, <1>18, <2>1, <3>3 DEF s
  <2>7. RunsThrough' /\ AtRun("out")' /\ Target' = x /\ \A t, v \in Tasklets : Kills(t, v)' => Kills(t, v)
    BY <1>16, <1>18, <2>1, <2>6
  <2>8. Dying(x)'
    BY <2>4, <2>6, <2>7 DEF Dying
  <2>9. ASSUME NEW v \in Tasklets \ {Main}, Dying(v) PROVE Dying(v)'
    BY <1>14, <2>8, <2>9
  <2>10. ASSUME NEW a \in Tasklets \ {Main}, NEW v \in Tasklets \ {Main, a}, Kills(a, v), Coming(a, v)
         PROVE  Coming(a, v)'
    <3>1. Dying(v) /\ q.next[Main] = v /\ q.next[v] = a
      BY <1>15, <2>5, <2>10
    <3>. QED
      BY <2>1, <2>9, <3>1 DEF Coming
  <2>11. KillsEnd'
    BY <2>4, <2>7, <2>9, <2>10, KillsGoOn
  <2>. QED
    BY <2>7, <2>11
<1>20. CASE ~DiesUnstarted(tk0, x) /\ tk0[x].firstRun /\ tk0[x].exc = "Error"
  <2>. DEFINE w == [tk0[x] EXCEPT !.exc = "none", !.remove = TRUE]
  <2>1. Continue(<<out>> \o rest, "Error") /\ q' = q /\ tk' = [tk0 EXCEPT ![x] = w] /\ gl' = g0
    BY <1>2, <1>4, <1>5, <1>7, <1>20 DEF SwitchTo, out, rest
  <2>2. w.alive = tk[x].alive
    BY <1>7 DEF TaskletType
  <2>. HIDE DEF w
  <2>3. tk'[x] = w /\ \A u \in Tasklets \ {x} : tk'[u] = tk[u]
    BY <1>7, <2>1
  <2>4. \A v \in Tasklets : ~tk[v].alive => ~tk'[v].alive
    BY <2>2, <2>3
  <2>5. gl[x].state = "new" /\ tk[x].exc = "Error"
    BY <1>7, <1>12, <1>20
  <2>6. /\ stack' = [stack EXCEPT ![active] = <<out>> \o rest]
        /\ gl'[Main].parent = NULL /\ \A u \in Tasklets : gl[u].state = "started" => gl'[u].state = "started"
    BY <1>8, <1>18, <2>1 DEF Continue
  <2>7. RunsThrough' /\ \A t, v \in Tasklets : Kills(t, v)' => Kills(t, v)
    BY <1>16, <1>18, <2>1, <2>6
  <2>8. ASSUME NEW v \in Tasklets \ {Main}, Dying(v) PROVE FALSE
    BY <1>14, <2>5, <2>8
  <2>9. ASSUME NEW a \in Tasklets \ {Main}, NEW v \in Tasklets \ {Main, a}, Kills(a, v), Coming(a, v)
        PROVE  FALSE
    BY <1>15, <2>5, <2>8, <2>9
  <2>10. KillsEnd'
    BY <2>4, <2>7, <2>8, <2>9, KillsGoOn
  <2>. QED
    BY <2>7, <2>10
<1>21. CASE ~DiesUnstarted(tk0, x) /\ ~(tk0[x].firstRun /\ tk0[x].exc = "Error")
  <2>. DEFINE w == [tk0[x] EXCEPT !.paused = FALSE, !.firstRun = FALSE]
  <2>1. Landing(g0, x) = x
    <3>1. g0[x].state # "dead"
      BY <1>8, <1>12
    <3>. QED
      BY <1>8, <3>1, LandsOnMain
  <2>2. /\ stack' = [stack EXCEPT ![active] = <<in>> \o Tail(@)]
        /\ active' = x
        /\ q' = SetCurrentTasklet(q, x)
        /\ tk' = [tk0 EXCEPT ![x].paused = FALSE, ![x].firstRun = FALSE]
        /\ gl' = [g0 EXCEPT ![x].state = "started"]
    BY <1>4, <1>5, <1>21, <2>1 DEF SwitchTo, in
  <2>3. tk' = [tk0 EXCEPT ![x] = w]
    BY <1>7, <2>2
  <2>4. w.alive = tk[x].alive /\ w.exc = tk[x].exc
    BY <1>7 DEF TaskletType
  <2>. HIDE DEF w
  <2>5. tk'[x] = w /\ \A u \in Tasklets \ {x} : tk'[u] = tk[u]
    BY <1>7, <2>3
  <2>6. /\ gl'[Main].parent = NULL /\ \A u \in Tasklets : gl[u].state = "started" => gl'[u].state = "started"
    BY <1>8, <1>18, <2>2, MainAssumption DEF GreenletType
  <2>7. \A u : q'.next[u] = q.next[u]
    BY <1>6, <2>2, SetsCurrent
  <2>8. stack' = [stack EXCEPT ![active] = <<in>> \o rest]
    BY <1>2, <2>2 DEF rest, Control, Stacks
  <2>9. /\ RunsThrough' /\ \A t \in Tasklets \ {Main} : stack'[t] = stack[t]
        /\ \A t, v \in Tasklets : Kills(t, v)' => Kills(t, v)
    BY <1>16, <1>18, <2>6, <2>7, <2>8
  <2>10. \A v \in Tasklets : tk'[v].alive = tk[v].alive /\ tk'[v].exc = tk[v].exc
    BY <2>4, <2>5
  <2>11. AtYield(x, "in") \/ (stack[x] = <<>> /\ gl[x].state = "new")
    <3>1. stack[x] # <<>> => AtYield(x, "in")
      BY <1>2 DEF Control, Suspended
    <3>2. gl[x].state = "started" => AtYield(x, "in")
      BY <1>2 DEF Flags, Sleeps
    <3>. QED
      BY <1>12, <3>1, <3>2
  <2>12. AtYield(x, "in") => AtYield(x, "in")' /\ ~AtYield(x, "head")'
    BY <2>9 DEF AtYield, TopIs
  <2>13. ASSUME NEW v \in Tasklets \ {Main}, Dying(v) PROVE Dying(v)'
    <3>1. v = x /\ tk[x].exc = "TaskletExit"
      BY <1>14, <2>13
    <3>2. gl[x].state # "new"
      BY <1>7, <1>12, <1>21, <3>1 DEF DiesUnstarted
    <3>3. AtYield(x, "in")'
      BY <2>11, <2>12, <3>2
    <3>. QED
      BY <2>2, <2>10, <3>1, <3>3 DEF Dying
  <2>14. ASSUME NEW a \in Tasklets \ {Main}, NEW v \in Tasklets \ {Main, a}, Kills(a, v), Coming(a, v)
         PROVE  Coming(a, v)'
    <3>1. CASE Dying(v) /\ q.next[Main] = v /\ q.next[v] = a
      <4>1. Dying(v)'
        BY <2>13, <3>1
      <4>2. q'.next[Main] = v /\ q'.next[v] = a
        BY <2>7, <3>1
      <4>. QED
        BY <4>1, <4>2 DEF Coming
    <3>2. CASE a = x /\ ~tk[v].alive /\ gl[x].state = "started"
      <4>1. ~AtYield(a, "head")'
        BY <2>11, <2>12, <3>2
      <4>2. Outlived(a, v)'
        BY <2>2, <2>10, <3>2, <4>1 DEF Outlived
      <4>. QED
        BY <4>2 DEF Coming
    <3>. QED
      BY <1>15, <2>14, <3>1, <3>2
  <2>15. KillsEnd'
    BY <2>9, <2>10, <2>13, <2>14, KillsGoOn
  <2>. QED
    BY <2>9, <2>15
<1>. QED
  BY <1>19, <1>20, <1>21

(* The one that came back goes where it wished to: whoever it has killed is *)
(* then first, or has ended, and it is first itself.                        *)
LEMMA RunContinuesEndsKills ==
    ASSUME Control({}), Flags, Control({})', KillsEnd, RunsThrough, RunContinues
    PROVE  KillsEnd' /\ RunsThrough'
<1>1. AtFrame("Run", "out") /\ ret \in {"ok", "TaskletExit"} /\ Top.pc = "out" /\ Top.k = "Run"
      /\ stack[active] # <<>> /\ mgr' = mgr
  BY DEF RunContinues, AtFrame
<1>2. active = Main /\ RunsOne
  BY <1>1, BackInTheLoop
<1>3. PICK x \in Tasklets \ {Main} :
         /\ x = Top.sw /\ Target = x /\ q.scheduled[x] /\ tk[x].parent = Main
         /\ Where(x) = IF Top.pc = "in" THEN "back" ELSE "out"
         /\ Fits(q.scheduled[x], q.reschedule[x], tk[x], gl[x].state, Where(x), ret)
         /\ tk[x] \in TaskletType
  BY <1>1, BackInTheLoop
<1>4. Fits(q.scheduled[x], q.reschedule[x], tk[x], gl[x].state, "out", ret)
  BY <1>1, <1>3
<1>5. q.next[Main] = x
  BY <1>2, <1>3 DEF RunsThrough
<1>6. /\ Top \in RunFrames /\ Tail(stack[Main]) \in Rests({}, Main)
      /\ Head(stack[Main]) = Top /\ stack[Main] # <<>>
  BY <1>1, <1>2, InTheMiddle DEF Top
<1>. DEFINE f == [Top EXCEPT !.pc = "head", !.sw = NULL,
                             !.done = (Top.until /\ ~IsBlocked(q, Main)) \/ x = Top.end]
            s == <<f>> \o Tail(stack[Main])
<1>7. f \in Switching(Main) /\ f.pc = "head" /\ f.k = "Run" /\ ~f.until /\ ~f.done
  <2>1. ~Top.until /\ Top.end = NULL /\ x # NULL
    BY <1>6, NullAssumption DEF RunsThrough, RunFrames
  <2>2. f = [Top EXCEPT !.pc = "head", !.sw = NULL, !.done = FALSE]
    BY <2>1
  <2>. HIDE DEF f
  <2>. QED
    BY <1>6, <2>1, <2>2 DEF RunFrames, Switching
<1>8. Continue(s, "none")
  BY <1>2, <1>3 DEF RunContinues
<1>. HIDE DEF f
<1>9. s # <<>> /\ Head(s) = f /\ Tail(s) = Tail(stack[Main])
  BY <1>6, <1>7, SwitchOnTop
<1>. HIDE DEF s
<1>10. active' = Main /\ stack'[Main] = s /\ \A t \in Tasklets \ {Main} : stack'[t] = stack[t]
  BY <1>2, <1>8, MainAssumption DEF Continue, Control, Stacks
<1>11. AtRun("head")' /\ ~RunsOne' /\ AtRun("out") /\ ~AtRun("head") /\ ~AtRun("in")
  BY <1>1, <1>2, <1>7, <1>9, <1>10 DEF AtRun, TopIs, RunsOne, Top
<1>12. /\ \A u \in Tasklets : tk'[u].exc = tk[u].exc /\ tk'[u].alive = tk[u].alive
       /\ \A u \in Tasklets : gl'[u].state = gl[u].state
       /\ gl'[Main].parent = NULL
  <2>1. tk' = [tk EXCEPT ![x].exc = IF ret = "TaskletExit" THEN "none" ELSE @,
                         ![x].parent = IF tk[x].alive THEN @ ELSE NULL]
        /\ (gl' = gl \/ gl' = Parented(gl, x, NULL))
    BY <1>3 DEF RunContinues
  <2>2. ret = "TaskletExit" => tk[x].exc = "none"
    BY <1>4 DEF Fits
  <2>3. tk \in [Tasklets -> TaskletType] /\ gl \in [Tasklets -> GreenletType]
    BY DEF Control, Types, TaskletsFit, GreenletsFit
  <2>4. \A u \in Tasklets : tk'[u].exc = tk[u].exc /\ tk'[u].alive = tk[u].alive
    BY <2>1, <2>2, <2>3 DEF TaskletType
  <2>. QED
    BY <2>1, <2>3, <2>4, MainAssumption DEF Parented, GreenletType, RunsThrough
<1>13. /\ q.reschedule[x] = "NONE" => q'.next[Main] = q.next[x]
       /\ q.reschedule[x] = "FRONT_PLUS_ONE" =>
            \A v \in Tasklets : q.next[x] = v => q'.next[Main] = v /\ q'.next[v] = x
  <2>1. q' = ReturnToRunner(q, x, Main)
    BY <1>3, RunContinuesKeepsControl
  <2>2. Q!Good(q)
    BY DEF Control, Types, QueueFits
  <2>. QED
    BY <1>3, <1>5, <2>1, <2>2, LinksAfterReturning
<1>14. \A t, v \in Tasklets : Kills(t, v)' => Kills(t, v)
  <2>1. /\ Head(stack[active]).k # "Kill" /\ Head(stack'[active]).k # "Kill"
        /\ stack'[active] # <<>> /\ Tail(stack'[active]) = Tail(stack[active])
    BY <1>1, <1>2, <1>7, <1>9, <1>10 DEF Top
  <2>. QED
    BY <1>1, <1>2, <1>10, <2>1, KillsStay
<1>15. RunsThrough'
  <2>1. stack'[Main] # <<>> /\ ~Head(stack'[Main]).until /\ ~Head(stack'[Main]).done
    BY <1>7, <1>9, <1>10
  <2>2. \A t \in Tasklets \ {Main} : stack'[t] # <<>> => gl'[t].state = "started"
    BY <1>10, <1>12 DEF RunsThrough
  <2>3. mgr'.runType = "STANDARD"
    BY <1>1 DEF RunsThrough
  <2>. QED
    BY <1>11, <1>12, <2>1, <2>2, <2>3 DEF RunsThrough
<1>16. ASSUME NEW v \in Tasklets \ {Main}, Dying(v) PROVE v = x /\ ~tk[v].alive
  BY <1>2, <1>3, <1>11, <1>16, DyingWhere
<1>17. \A v \in Tasklets \ {Main} : Kills(Main, v) /\ Dying(v) => Dying(v)' \/ ~tk'[v].alive
  BY <1>12, <1>16
<1>18. ASSUME NEW a \in Tasklets \ {Main}, NEW v \in Tasklets \ {Main, a}, Coming(a, v)
       PROVE  Coming(a, v)'
  <2>1. ~Outlived(a, v)
    BY <1>2, <1>11 DEF Outlived, Picked
  <2>2. CASE ComesBehind(a, v)
    <3>1. a = x /\ tk[v].exc = "TaskletExit" /\ q.next[x] = v /\ q.reschedule[x] = "FRONT_PLUS_ONE"
      BY <1>2, <1>3, <2>2 DEF ComesBehind
    <3>2. q'.next[Main] = v /\ q'.next[v] = a
      BY <1>13, <3>1
    <3>3. Picked(v)'
      BY <1>10, <1>11, <3>2 DEF Picked
    <3>4. Dying(v)'
      BY <1>12, <3>1, <3>3 DEF Dying
    <3>. QED
      BY <3>2, <3>4 DEF Coming
  <2>3. CASE Dying(v) /\ q.next[Main] = v /\ q.next[v] = a
    <3>1. v = x /\ ~tk[x].alive
      BY <1>16, <2>3
    <3>2. q.reschedule[x] = "NONE"
      BY <1>4, <3>1 DEF Fits
    <3>3. Picked(a)'
      BY <1>10, <1>11, <1>13, <2>3, <3>1, <3>2 DEF Picked
    <3>4. Outlived(a, v)'
      BY <1>12, <3>1, <3>3 DEF Outlived
    <3>. QED
      BY <3>4 DEF Coming
  <2>. QED
    BY <1>18, <2>1, <2>2, <2>3 DEF Coming
<1>19. KillsEnd'
  BY <1>12, <1>14, <1>17, <1>18, KillsGoOn
<1>. QED
  BY <1>15, <1>19

(* Whoever gives control away to kill another comes to the loop. *)
LEMMA YieldSwitchesEndsKills ==
    ASSUME Control({}), Flags, Control({})', NoTrap, KillsEnd, RunsThrough,
           YieldSwitches \/ YieldStaysBlocked
    PROVE  KillsEnd' /\ RunsThrough'
<1>1. ~YieldStaysBlocked
  <2>1. ASSUME AtFrame("Yield", "out") PROVE ~IsBlocked(q, Top.t)
    <3>1. Top.t = active /\ active \in Tasklets
      BY <2>1, InTheMiddle DEF AtFrame
    <3>. QED
      BY <3>1 DEF IsBlocked, Control, Types, QueueFits
  <2>. QED
    BY <2>1 DEF YieldStaysBlocked
<1>2. stack[active] # <<>> /\ Top.k = "Yield" /\ Top.pc = "head" /\ YieldSwitches
  BY <1>1 DEF YieldSwitches, AtFrame
<1>3. PICK x \in Tasklets \ {Main} : x = active /\ Top.t = x
  BY <1>2, InTheMiddle
<1>4. /\ AtRun("in") /\ Target = x /\ q.current = x /\ tk[x].parent = Main
      /\ gl[x].state = "started" /\ gl[Main].state = "started" /\ Main # NULL
  BY <1>3, RunByMain, NullAssumption, MainAssumption DEF Control, Types, GreenletsFit
<1>. DEFINE f == [Top EXCEPT !.pc = "in", !.sw = Main]
            s == <<f>> \o Tail(stack[active])
<1>5. SwitchTo(Top, Main, q, tk, gl) /\ mgr' = mgr
  BY <1>2, <1>3, <1>4 DEF YieldSwitches
<1>6. ~IsSwitchTrapped
  BY DEF IsSwitchTrapped, Control, Types, ManagerFits
<1>7. Landing(gl, Main) = Main
  BY <1>4, LandsOnMain, MainAssumption DEF Control, Types
<1>8. /\ stack' = [stack EXCEPT ![active] = <<f>> \o Tail(@)] /\ active' = Main
      /\ q' = SetCurrentTasklet(q, Main)
      /\ tk' = [tk EXCEPT ![Main].paused = FALSE, ![Main].firstRun = FALSE]
      /\ gl' = [gl EXCEPT ![Main].state = "started"]
  <2>1. tk[Main].exc = "none"
    BY DEF Control, Types, TaskletsFit
  <2>. QED
    BY <1>5, <1>6, <1>7, <2>1 DEF SwitchTo, DiesUnstarted
<1>9. stack' = [stack EXCEPT ![active] = s]
  BY <1>8
<1>10. s # <<>> /\ Head(s) = f /\ f.k = "Yield" /\ f.pc = "in" /\ Tail(s) = Tail(stack[active])
  <2>1. Top \in YieldFrames(active) /\ Tail(stack[active]) \in Rests({}, active) /\ active # Main
    BY <1>2, <1>3, InTheMiddle
  <2>2. f \in Switching(active) /\ f.k = "Yield" /\ f.pc = "in"
    BY <2>1 DEF YieldFrames, Switching
  <2>. HIDE DEF f
  <2>. QED
    BY <2>1, <2>2, SwitchOnTop
<1>. HIDE DEF s, f
<1>11. stack'[x] = s /\ \A t \in Tasklets \ {x} : stack'[t] = stack[t]
  BY <1>3, <1>9 DEF Control, Stacks
<1>12. RunsOne' /\ Target' = x /\ RunsOne /\ AtYield(x, "head")
  BY <1>2, <1>3, <1>4, <1>11, MainAssumption DEF RunsOne, AtRun, TopIs, Target, AtYield, Top
<1>13. (\A u : q'.next[u] = q.next[u]) /\ q'.reschedule = q.reschedule
  BY <1>8, SetsCurrent, MainAssumption DEF Control, Types, QueueFits
<1>14. /\ \A u \in Tasklets : tk'[u].exc = tk[u].exc /\ tk'[u].alive = tk[u].alive
       /\ \A u \in Tasklets : gl'[u].state = gl[u].state
       /\ gl'[Main].parent = NULL
  <2>1. tk \in [Tasklets -> TaskletType] /\ gl \in [Tasklets -> GreenletType]
    BY DEF Control, Types, TaskletsFit, GreenletsFit
  <2>2. \A u \in Tasklets : tk'[u].exc = tk[u].exc /\ tk'[u].alive = tk[u].alive
    BY <1>8, <2>1 DEF TaskletType
  <2>. QED
    BY <1>4, <1>8, <2>1, <2>2, MainAssumption DEF GreenletType, RunsThrough
<1>15. \A t, v \in Tasklets : Kills(t, v)' => Kills(t, v)
  BY <1>2, <1>3, <1>10, <1>11, KillsStay DEF Top
<1>16. RunsThrough'
  <2>1. stack'[Main] = stack[Main]
    BY <1>11, MainAssumption
  <2>2. \A t \in Tasklets \ {Main} : stack'[t] # <<>> => gl'[t].state = "started"
    BY <1>2, <1>3, <1>11, <1>14 DEF RunsThrough
  <2>3. q'.next[Main] = Target'
    BY <1>4, <1>12, <1>13 DEF RunsThrough
  <2>. QED
    BY <1>5, <1>14, <2>1, <2>2, <2>3 DEF RunsThrough
<1>17. ASSUME NEW v \in Tasklets \ {Main}, Dying(v) PROVE FALSE
  BY <1>3, <1>12, <1>17, DyingWhere
<1>18. ASSUME NEW a \in Tasklets \ {Main}, NEW v \in Tasklets \ {Main, a}, Coming(a, v)
       PROVE  Coming(a, v)'
  <2>1. ~Outlived(a, v)
    BY <1>3, <1>12 DEF Outlived, Picked
  <2>2. ComesBehind(a, v)
    BY <1>17, <1>18, <2>1 DEF Coming
  <2>3. a = x /\ tk[v].exc = "TaskletExit" /\ q.next[a] = v /\ q.reschedule[a] = "FRONT_PLUS_ONE"
    BY <1>3, <2>2 DEF ComesBehind
  <2>4. ComesBehind(a, v)'
    BY <1>8, <1>12, <1>13, <1>14, <2>3 DEF ComesBehind
  <2>. QED
    BY <2>4 DEF Coming
<1>19. KillsEnd'
  BY <1>14, <1>15, <1>17, <1>18, KillsGoOn
<1>. QED
  BY <1>16, <1>19

--------------------------------------------------------------------------------
(* Every step keeps it. *)

LEMMA PythonEndsKills ==
    ASSUME Control({}), KillsEnd, RunsThrough, Flat, NoTrap, SureKills, Python
    PROVE  KillsEnd' /\ RunsThrough'
<1>1. ASSUME NEW t \in Tasklets,
             \/ Run(t) \/ Setup(t) \/ Bind(t) \/ Unbind(t) \/ Insert(t) \/ Remove(t) \/ Switch(t)
             \/ \E pending \in BOOLEAN : Kill(t, pending) \/ Throw(t, pending)
      PROVE  KillsEnd' /\ RunsThrough'
  <2>1. ~Switch(t)
    BY CallIsMade, FlatCalls DEF Switch
  <2>. QED
    BY <1>1, <2>1, RunEndsKills, SetupEndsKills, UnbindEndsKills, InsertEndsKills, RemoveEndsKills,
       KillEndsKills, ThrowEndsKills
<1>2. ASSUME Finish \/ Raise \/ Propagate \/ Swallow PROVE KillsEnd' /\ RunsThrough'
  <2>1. stack[active] = <<>>
    BY <1>2 DEF Finish, Raise, Propagate, Swallow, Calls, Running, Raising, InPython
  <2>2. \E r \in Outcomes : Dies(r) /\ (ret = "TaskletExit" => r = "TaskletExit")
    BY <1>2, RetIsAnOutcome, SimpleOutcomes
       DEF Finish, Raise, Propagate, Swallow, Calls, Running, Raising, InPython
  <2>. QED
    BY <2>1, <2>2, DiesEndsKills
<1>3. ASSUME NEW delta \in {-1, 1}, SwitchTrap(delta) PROVE FALSE
  BY <1>3, CallIsMade, FlatCalls DEF SwitchTrap
<1>4. ASSUME RunTaskletsForTime \/ \E n \in 1..MaxLimit : RunNTasklets(n) PROVE FALSE
  <2>1. \E op \in {"run_n_tasklets", "run_for_time"} : CalledBy(op)
    BY <1>4, CallIsMade DEF RunNTasklets, RunTaskletsForTime
  <2>. QED
    BY <2>1 DEF CalledBy, SureKills, Flat
<1>. QED
  BY <1>1, <1>2, <1>3, <1>4, ScheduleEndsKills, RunSchedulerEndsKills, CatchEndsKills DEF Python

LEMMA NoLimitedRun ==
    ASSUME Control({}), RunsThrough
    PROVE  ~LimitedRunReturns
<1>. SUFFICES ASSUME NEW k \in {"RunNTasklets", "RunTaskletsForTime"}, AtThen(k) PROVE FALSE
  BY DEF LimitedRunReturns
<1>1. stack[active] # <<>> /\ Top.k = k
  BY DEF AtThen
<1>2. active = Main
  BY <1>1, RestOfACall DEF Limited
<1>3. 1 \in DOMAIN stack[Main] /\ stack[Main][1] = Top
  <2>1. Main \in Tasklets
    BY MainAssumption
  <2>. DEFINE s == stack[Main]
              S == Switching(Main) \cup PlainFrames({}) \cup LimitedFrames
  <2>2. s \in Seq(S) /\ s # <<>>
    BY <1>1, <1>2, <2>1, StackIsASequence
  <2>3. Top = Head(s)
    BY <1>2 DEF Top
  <2>. HIDE DEF s, S
  <2>4. 1 \in DOMAIN s /\ s[1] = Top
    BY <2>2, <2>3
  <2>. QED
    BY <2>4 DEF s
<1>4. Waiting(Main, k)
  BY <1>1, <1>3 DEF Waiting
<1>. QED
  BY <1>4 DEF Control, LimitsMatchTheCall, RunsThrough

LEMMA SchedulerEndsKills ==
    ASSUME Control({}), Flags, Control({})', Flags', KillsEnd, RunsThrough, NoTrap, Scheduler
    PROVE  KillsEnd' /\ RunsThrough'
<1>1. ~RunCannotAdopt /\ ~LimitedRunReturns /\ ~SwitchYields /\ ~SwitchReturnsToCaller
  BY MainCanAdopt, NoLimitedRun, SwitchIsNotCalled
<1>2. ASSUME SwitchReturns PROVE KillsEnd' /\ RunsThrough'
  BY <1>2, LoopSwitchEndsKills, YieldSwitchEndsKills
<1>. QED
  BY <1>1, <1>2, RunEndsEndsKills, RunSwitchesEndsKills, RunContinuesEndsKills, RunFailsEndsKills,
     YieldSwitchesEndsKills, YieldReturnsEndsKills DEF Scheduler

LEMMA StutterEndsKills ==
    ASSUME KillsEnd, RunsThrough, UNCHANGED vars
    PROVE  KillsEnd' /\ RunsThrough'
BY DEF vars, KillsEnd, Kills, Dying, Coming, ComesBehind, Outlived, Picked, RunsThrough, RunsOne, AtRun,
       AtYield, TopIs, Target

LEMMA InitEndsKills ==
    ASSUME Init
    PROVE  KillsEnd /\ RunsThrough
<1>1. \A t \in Tasklets : stack[t] = <<>>
  BY DEF Init
<1>2. \A t \in Tasklets : \A v : ~Kills(t, v)
  BY <1>1, NoKillInNothing DEF Kills
<1>3. mgr.runType = "STANDARD" /\ gl[Main].parent = NULL
  BY MainAssumption DEF Init
<1>4. ~RunsOne
  BY <1>1, MainAssumption DEF RunsOne, AtRun, TopIs
<1>. QED
  BY <1>1, <1>2, <1>3, <1>4, MainAssumption DEF KillsEnd, RunsThrough

LEMMA KillsHaveEnded ==
    ASSUME Control({}), KillsEnd, AtThen("Kill")
    PROVE  ~tk[Top.t].alive
<1>1. stack[active] # <<>> /\ Top.k = "Kill"
  BY DEF AtThen
<1>2. PICK x \in Tasklets : x = active
  BY DEF Control, Types
<1>3. PICK v \in Tasklets : v = Top.t
  <2>1. Top \in PlainFrames({})
    BY <1>1, RestOfACall DEF Limited
  <2>. QED
    BY <1>1, <2>1 DEF PlainFrames
<1>4. \A k, pc : k # "Kill" => ~TopIs(x, k, pc)
  BY <1>1, <1>2 DEF TopIs, Top
<1>5. Kills(x, v)
  <2>1. stack[x] # <<>> /\ Head(stack[x]).k = "Kill" /\ Head(stack[x]).t = v
    BY <1>1, <1>2, <1>3 DEF Top
  <2>2. KillIn(stack[x], v)
    BY <2>1, StackIsASequence, KillBelow
  <2>. QED
    BY <2>2 DEF Kills
<1>6. x = Main => ~AtRun("head") /\ ~AtRun("in") /\ ~AtRun("out")
  BY <1>4 DEF AtRun
<1>7. CASE x = Main
  <2>1. v \in Tasklets \ {Main} /\ (Dying(v) \/ ~tk[v].alive)
    BY <1>5, <1>7 DEF KillsEnd
  <2>2. ~Dying(v)
    BY <1>2, <1>6, <1>7, <2>1, DyingWhere
  <2>. QED
    BY <1>3, <2>1, <2>2
<1>8. CASE x # Main
  <2>1. v \in Tasklets \ {Main, x} /\ Coming(x, v)
    BY <1>5, <1>8 DEF KillsEnd
  <2>2. ~Dying(v)
    BY <1>2, <1>8, <2>1, DyingWhere
  <2>3. ~ComesBehind(x, v)
    BY <1>2, <1>4, <1>8 DEF ComesBehind, AtYield
  <2>4. Outlived(x, v)
    BY <2>1, <2>2, <2>3 DEF Coming
  <2>. QED
    BY <1>3, <2>4 DEF Outlived
<1>. QED
  BY <1>7, <1>8

--------------------------------------------------------------------------------
(* A pending kill: until its tasklet has ended, the TaskletExit waits for it *)
(* or is being raised on it.                                                *)

(* Where pending kills are made, nothing is thrown at a tasklet while its   *)
(* kill is pending, nor is it bound again, and no TaskletExit is handled.   *)
OnceKilled ==
    "kill_pending" \in AllOps =>
        MainOps \cap {"throw_killed", "rebind_killed"} = {} /\ "catch" \notin TaskletOps

Doomed(t) ==
    tk[t].killPending =>
        /\ "kill_pending" \in AllOps /\ t # Main
        /\ \/ tk[t].exc = "TaskletExit"
           \/ gl[t].state \in {"unborn", "dead"}
           \/ Where(t) = "here" /\ ret = "TaskletExit"

AllDoomed == \A t \in Tasklets : Doomed(t)

(* What is noted of t, and its greenlet, have not changed. *)
SameFate(t) ==
    /\ tk'[t].killPending => tk[t].killPending
    /\ tk'[t].exc = tk[t].exc /\ gl'[t].state = gl[t].state

LEMMA OthersStayDoomed ==
    ASSUME NEW t \in Tasklets, Doomed(t), SameFate(t), Where(t) # "here"
    PROVE  Doomed(t)'
BY DEF Doomed, SameFate

LEMMA WhereIsHere ==
    ASSUME NEW t, Where(t) = "here"
    PROVE  active = t /\ ~AtYield(t, "head") /\ ~AtYield(t, "in")
<1>1. active = t
  BY DEF Where
<1>. QED
  BY <1>1 DEF Where

(* While code runs, its own tasklet is not killed. *)
LEMMA NobodyDoomedCalls ==
    ASSUME Control({}), Flags, AllDoomed, stack[active] \in Rests({}, active), ret # "TaskletExit"
    PROVE  ~tk[active].killPending
<1>1. active \in Tasklets /\ Doomed(active)
  BY DEF AllDoomed, Control, Types
<1>2. CASE active = Main
  BY <1>1, <1>2 DEF Doomed
<1>3. CASE active # Main
  <2>1. Fits(q.scheduled[active], q.reschedule[active], tk[active], gl[active].state, "here", "ok")
    BY <1>3, FlagsInACall
  <2>2. tk[active].exc = "none" /\ gl[active].state = "started"
    BY <1>3, <2>1, RunByMain DEF Fits
  <2>. QED
    BY <1>1, <2>2 DEF Doomed
<1>. QED
  BY <1>2, <1>3

LEMMA CallKeepsDoomed ==
    ASSUME Control({}), Flags, AllDoomed, stack[active] \in Rests({}, active), ret # "TaskletExit",
           NEW t \in Tasklets, SameFate(t)
    PROVE  Doomed(t)'
<1>1. CASE t = active
  <2>1. ~tk'[t].killPending
    BY <1>1, NobodyDoomedCalls DEF SameFate
  <2>. QED
    BY <2>1 DEF Doomed
<1>2. CASE t # active
  BY <1>2, OthersStayDoomed, WhereIsHere DEF AllDoomed
<1>. QED
  BY <1>1, <1>2

LEMMA InTheLoopKeepsDoomed ==
    ASSUME AllDoomed, active = Main, NEW t \in Tasklets, SameFate(t)
    PROVE  Doomed(t)'
<1>1. CASE t = Main
  BY <1>1 DEF AllDoomed, Doomed, SameFate
<1>2. CASE t # Main
  BY <1>2, OthersStayDoomed, WhereIsHere DEF AllDoomed
<1>. QED
  BY <1>1, <1>2

LEMMA NothingOfItChanges ==
    ASSUME tk' = tk, gl' = gl
    PROVE  \A t \in Tasklets : SameFate(t)
BY DEF SameFate

(* The exception of a killed tasklet goes on to the next frame below. *)
LEMMA ReturnKeepsDoomed ==
    ASSUME Control({}), AllDoomed, stack[active] # <<>>, NEW r, Return(r),
           ret = "TaskletExit" => r = "TaskletExit", tk' = tk, gl' = gl
    PROVE  AllDoomed'
<1>1. /\ active' = active
      /\ ret' = r \/ (r = "ok" /\ ret' = "none")
      /\ \A pc : ~TopIs(active, "Yield", pc)'
  BY KillsBelowStay
<1>2. ASSUME NEW t \in Tasklets PROVE Doomed(t)'
  <2>1. Doomed(t)
    BY DEF AllDoomed
  <2>2. CASE Where(t) = "here" /\ ret = "TaskletExit"
    <3>1. active = t /\ ret' = "TaskletExit"
      BY <1>1, <2>2, WhereIsHere
    <3>2. \A pc : ~AtYield(t, pc)'
      BY <1>1, <3>1 DEF AtYield
    <3>3. Where(t)' = "here"
      BY <1>1, <3>1, <3>2 DEF Where
    <3>. QED
      BY <2>1, <3>1, <3>3 DEF Doomed
  <2>3. CASE ~(Where(t) = "here" /\ ret = "TaskletExit")
    BY <2>1, <2>3 DEF Doomed
  <2>. QED
    BY <2>2, <2>3
<1>. QED
  BY <1>2 DEF AllDoomed

LEMMA CallOnOneKeepsDoomed ==
    ASSUME Control({}), Flags, AllDoomed, NEW op, Calls(op), NEW u \in Tasklets,
           \A t \in Tasklets \ {u} : SameFate(t),
           SameFate(u) \/ Doomed(u)'
    PROVE  AllDoomed'
<1>1. stack[active] \in Rests({}, active) /\ ret # "TaskletExit"
  BY CallIsMade
<1>2. ASSUME NEW t \in Tasklets PROVE Doomed(t)'
  BY <1>1, CallKeepsDoomed
<1>. QED
  BY <1>2 DEF AllDoomed

(* A tasklet that was killed with pending is not bound again. *)
LEMMA SetupKeepsDoomed ==
    ASSUME Control({}), Flags, AllDoomed, OnceKilled, NEW u \in Tasklets,
           Setup(u) \/ Bind(u) \/ Unbind(u)
    PROVE  AllDoomed'
<1>1. tk \in [Tasklets -> TaskletType] /\ gl \in [Tasklets -> GreenletType]
  BY DEF Control, Types, TaskletsFit, GreenletsFit
<1>2. PICK op \in {"setup", "bind", "unbind"} : Calls(op)
  BY DEF Setup, Bind, Unbind
<1>3. /\ \A t \in Tasklets : tk'[t].killPending = tk[t].killPending /\ tk'[t].exc = tk[t].exc
  <2>1. \/ tk' = [tk EXCEPT ![u].paused = TRUE, ![u].firstRun = TRUE]
        \/ tk' = [tk EXCEPT ![u].alive = TRUE, ![u].paused = FALSE, ![u].firstRun = TRUE]
        \/ tk' = [tk EXCEPT ![u].alive = TRUE, ![u].paused = TRUE, ![u].firstRun = TRUE]
        \/ tk' = [tk EXCEPT ![u].alive = FALSE]
        \/ tk' = tk
    BY DEF Setup, Bind, Unbind
  <2>. QED
    BY <1>1, <2>1 DEF TaskletType
<1>4. /\ gl' = gl \/ \E g : gl' = Replaced(u, g)
      /\ Unbind(u) => gl' = gl \/ gl' = Replaced(u, Unborn)
  BY DEF Setup, Bind, Unbind, Rebirth
<1>5. \A t \in Tasklets \ {u} : SameFate(t)
  <2>1. \A t \in Tasklets \ {u} : gl'[t].state = gl[t].state
    BY <1>4, ReplacedStates
  <2>. QED
    BY <1>3, <2>1 DEF SameFate
<1>6. SameFate(u) \/ Doomed(u)'
  <2>1. CASE gl' = gl
    BY <1>3, <2>1 DEF SameFate
  <2>2. CASE Unbind(u) /\ gl' = Replaced(u, Unborn)
    <3>1. gl'[u].state = "unborn"
      BY <2>2 DEF Replaced, Unborn
    <3>2. tk[u].killPending => "kill_pending" \in AllOps /\ u # Main
      BY DEF AllDoomed, Doomed
    <3>. QED
      BY <1>3, <3>1, <3>2 DEF Doomed
  <2>3. CASE ~Unbind(u)
    <3>1. tk[u].killPending => "kill_pending" \in AllOps
      BY DEF AllDoomed, Doomed
    <3>2. tk[u].killPending => "rebind_killed" \in MainOps
      BY <2>3 DEF Setup, Bind, Rebindable
    <3>3. ~tk[u].killPending
      BY <3>1, <3>2 DEF OnceKilled
    <3>. QED
      BY <1>3, <3>3 DEF Doomed
  <2>. QED
    BY <1>4, <2>1, <2>2, <2>3
<1>. QED
  BY <1>2, <1>5, <1>6, CallOnOneKeepsDoomed

LEMMA KillKeepsDoomed ==
    ASSUME Control({}), Flags, AllDoomed, ~Nested, NEW u \in Tasklets, NEW pending \in BOOLEAN,
           Kill(u, pending)
    PROVE  AllDoomed'
<1>1. tk \in [Tasklets -> TaskletType] /\ gl \in [Tasklets -> GreenletType]
  BY DEF Control, Types, TaskletsFit, GreenletsFit
<1>2. /\ Calls(IF pending THEN "kill_pending" ELSE "kill") /\ KillTasklet(u, pending, <<>>)
      /\ gl[u].state # "unborn" /\ u # Main
  BY DEF Kill
<1>3. \A q0, tk0, conts, t : RunTasklet(t, q0, tk0, conts) => tk' = tk0 /\ gl' = gl
  BY DEF RunTasklet, Yield
<1>4. /\ gl' = gl
      /\ \/ tk' = tk
         \/ ~tk[u].killPending /\ tk' = [tk EXCEPT ![u].exc = "none"]
         \/ ~tk[u].killPending /\ tk' = [tk EXCEPT ![u].exc = "TaskletExit"]
         \/ /\ pending
            /\ \E d : tk' = [tk EXCEPT ![u].exc = "TaskletExit", ![u].killPending = TRUE, ![u].dir = d]
  BY <1>2, <1>3 DEF KillTasklet
<1>5. \A t \in Tasklets \ {u} : SameFate(t)
  BY <1>1, <1>4 DEF TaskletType, SameFate
<1>6. SameFate(u) \/ Doomed(u)'
  <2>1. CASE tk' = tk
    BY <1>4, <2>1 DEF SameFate
  <2>2. CASE ~tk[u].killPending /\ \E e : tk' = [tk EXCEPT ![u].exc = e]
    <3>1. ~tk'[u].killPending
      BY <1>1, <2>2 DEF TaskletType
    <3>. QED
      BY <3>1 DEF Doomed
  <2>3. CASE pending /\ \E d : tk' = [tk EXCEPT ![u].exc = "TaskletExit", ![u].killPending = TRUE, ![u].dir = d]
    <3>1. tk'[u].exc = "TaskletExit"
      BY <1>1, <2>3 DEF TaskletType
    <3>2. "kill_pending" \in AllOps
      BY <1>2, <2>3, CallIsMade DEF CalledBy, AllOps
    <3>. QED
      BY <1>2, <1>4, <3>1, <3>2 DEF Doomed
  <2>. QED
    BY <1>4, <2>1, <2>2, <2>3
<1>. QED
  BY <1>2, <1>5, <1>6, CallOnOneKeepsDoomed

LEMMA ThrowKeepsDoomed ==
    ASSUME Control({}), Flags, AllDoomed, OnceKilled, ~Nested, NEW u \in Tasklets,
           NEW pending \in BOOLEAN, Throw(u, pending)
    PROVE  AllDoomed'
<1>1. tk \in [Tasklets -> TaskletType] /\ gl \in [Tasklets -> GreenletType]
  BY DEF Control, Types, TaskletsFit, GreenletsFit
<1>2. /\ \E op : Calls(op)
      /\ tk[u].killPending => "throw_killed" \in MainOps
  BY DEF Throw
<1>3. \A q0, tk0, conts, t : RunTasklet(t, q0, tk0, conts) => tk' = tk0 /\ gl' = gl
  BY DEF RunTasklet, Yield
<1>4. gl' = gl /\ \E e : tk' = [tk EXCEPT ![u].exc = e]
  BY <1>3 DEF Throw
<1>5. \A t \in Tasklets \ {u} : SameFate(t)
  BY <1>1, <1>4 DEF TaskletType, SameFate
<1>6. tk'[u].killPending = tk[u].killPending
  BY <1>1, <1>4 DEF TaskletType
<1>7. ~tk[u].killPending
  <2>1. tk[u].killPending => "kill_pending" \in AllOps
    BY DEF AllDoomed, Doomed
  <2>. QED
    BY <1>2, <2>1 DEF OnceKilled
<1>8. Doomed(u)'
  BY <1>6, <1>7 DEF Doomed
<1>. QED
  BY <1>2, <1>5, <1>8, CallOnOneKeepsDoomed

LEMMA PythonKeepsDoomed ==
    ASSUME Control({}), Flags, AllDoomed, OnceKilled, Flat, Python
    PROVE  AllDoomed'
<1>1. /\ tk \in [Tasklets -> TaskletType] /\ gl \in [Tasklets -> GreenletType]
      /\ active \in Tasklets /\ ~Nested
  BY DEF Control, Types, TaskletsFit, GreenletsFit, Flat
<1>2. ASSUME Schedule \/ RunScheduler \/ (\E n \in 1..MaxLimit : RunNTasklets(n)) \/ RunTaskletsForTime
             \/ (\E delta \in {-1, 1} : SwitchTrap(delta)) \/ \E t \in Tasklets : Run(t)
      PROVE  AllDoomed'
  <2>1. \E op : Calls(op)
    BY <1>2 DEF Schedule, RunScheduler, RunNTasklets, RunTaskletsForTime, SwitchTrap, Run
  <2>2. \A q0, conts : Yield(q0, tk, conts) => tk' = tk /\ gl' = gl
    BY DEF Yield
  <2>3. tk' = tk /\ gl' = gl
    BY <1>1, <1>2, <2>2 DEF Schedule, RunScheduler, RunNTasklets, RunTaskletsForTime, SwitchTrap, Run, RunTasklet
  <2>. QED
    BY <1>1, <2>1, <2>3, NothingOfItChanges, CallOnOneKeepsDoomed
<1>3. ASSUME NEW u \in Tasklets, Insert(u) \/ Remove(u) PROVE AllDoomed'
  <2>1. \E op : Calls(op)
    BY <1>3 DEF Insert, Remove
  <2>2. gl' = gl /\ (tk' = tk \/ \E b \in BOOLEAN : tk' = [tk EXCEPT ![u].paused = b])
    BY <1>3 DEF Insert, Remove
  <2>3. \A t \in Tasklets : SameFate(t)
    BY <1>1, <2>2 DEF TaskletType, SameFate
  <2>. QED
    BY <2>1, <2>3, CallOnOneKeepsDoomed
<1>4. ASSUME ScheduleRemove PROVE AllDoomed'
  <2>1. Calls("schedule_remove") /\ tk' = [tk EXCEPT ![q.current].tagged = TRUE] /\ gl' = gl
    BY <1>4 DEF ScheduleRemove, Yield
  <2>2. \A t \in Tasklets : SameFate(t)
    BY <1>1, <2>1 DEF TaskletType, SameFate
  <2>. QED
    BY <1>1, <2>1, <2>2, CallOnOneKeepsDoomed
<1>5. ASSUME NEW u \in Tasklets, Switch(u) PROVE FALSE
  BY <1>5, CallIsMade, FlatCalls DEF Switch
<1>6. ASSUME Finish \/ Raise \/ Propagate \/ Swallow PROVE AllDoomed'
  <2>1. active # Main /\ tk' = tk /\ gl' = [gl EXCEPT ![active].state = "dead"]
    BY <1>6 DEF Finish, Raise, Propagate, Swallow, Dies
  <2>2. ASSUME NEW t \in Tasklets PROVE Doomed(t)'
    <3>1. CASE t = active
      <4>1. gl'[t].state = "dead"
        BY <1>1, <2>1, <3>1 DEF GreenletType
      <4>. QED
        BY <2>1, <4>1 DEF Doomed, AllDoomed
    <3>2. CASE t # active
      <4>1. SameFate(t)
        BY <1>1, <2>1, <3>2 DEF GreenletType, SameFate
      <4>. QED
        BY <3>2, <4>1, WhereIsHere, OthersStayDoomed DEF AllDoomed
    <3>. QED
      BY <3>1, <3>2
  <2>. QED
    BY <2>2 DEF AllDoomed
<1>7. ASSUME Catch PROVE AllDoomed'
  <2>1. tk' = tk /\ gl' = gl /\ (active = Main \/ "catch" \in TaskletOps)
    BY <1>7 DEF Catch
  <2>2. CASE active = Main
    BY <2>1, <2>2, NothingOfItChanges, InTheLoopKeepsDoomed DEF AllDoomed
  <2>3. CASE "catch" \in TaskletOps
    <3>1. "kill_pending" \notin AllOps
      BY <2>3 DEF OnceKilled
    <3>. QED
      BY <2>1, <3>1 DEF AllDoomed, Doomed
  <2>. QED
    BY <2>1, <2>2, <2>3
<1>8. ASSUME NEW u \in Tasklets, \E pending \in BOOLEAN : Kill(u, pending) \/ Throw(u, pending)
      PROVE  AllDoomed'
  BY <1>1, <1>8, KillKeepsDoomed, ThrowKeepsDoomed
<1>. QED
  BY <1>2, <1>3, <1>4, <1>5, <1>6, <1>7, <1>8, SetupKeepsDoomed DEF Python

(* The loop starts nobody who was killed, and a switch forgets no TaskletExit. *)
LEMMA RunSwitchesKeepsDoomed ==
    ASSUME Control({}), Flags, AllDoomed, NoTrap, RunSwitches
    PROVE  AllDoomed'
<1>1. stack[active] # <<>> /\ Top.k = "Run" /\ Top.pc = "head" /\ ~RunIsOver(Top)
  BY DEF RunSwitches, AtFrame
<1>2. active = Main /\ Top.base = Main /\ ~RunsOne /\ q.current = Main
  BY <1>1, InTheLoop
<1>3. PICK x \in Tasklets \ {Main} : x = q.next[Main] /\ q.scheduled[x]
  <2>1. q.next[Main] # NULL
    BY <1>1, <1>2 DEF RunIsOver
  <2>. QED
    BY <2>1, GoodQueue, MainAssumption DEF Control, Types, QueueFits
<1>4. gl[x].state \in {"new", "started"}
  <2>1. Where(x) = "away"
    BY <1>2 DEF Where, RunsOne
  <2>2. Fits(q.scheduled[x], q.reschedule[x], tk[x], gl[x].state, "away", ret)
    BY <2>1 DEF Flags, Noted
  <2>3. gl[x] \in GreenletType
    BY DEF Control, Types, GreenletsFit
  <2>. QED
    BY <1>3, <2>2, <2>3 DEF Fits, GreenletType
<1>. DEFINE tk0 == Adopted(tk, x, Main)
            g0 == Parented(gl, x, Main)
<1>5. SwitchTo(Top, x, q, tk0, g0)
  BY <1>2, <1>3 DEF RunSwitches
<1>6. tk \in [Tasklets -> TaskletType] /\ gl \in [Tasklets -> GreenletType] /\ GreenletsFit(gl)
  BY DEF Control, Types, TaskletsFit, GreenletsFit
<1>7. /\ tk0 \in [Tasklets -> TaskletType]
      /\ \A t \in Tasklets : tk0[t].killPending = tk[t].killPending /\ tk0[t].exc = tk[t].exc
  BY <1>6, MainAssumption DEF Adopted, TaskletType
<1>8. /\ g0 \in [Tasklets -> GreenletType] /\ \A t \in Tasklets : g0[t].state = gl[t].state
      /\ GreenletsFit(g0)
  <2>1. Main # NULL /\ Main \in Tasklets
    BY MainAssumption, NullAssumption
  <2>2. /\ g0 \in [Tasklets -> GreenletType] /\ g0[x].parent = Main /\ g0[x].state = gl[x].state
        /\ \A u \in Tasklets : u # x => g0[u] = gl[u]
    BY <1>6, <2>1 DEF Parented, GreenletType
  <2>. HIDE DEF g0
  <2>. QED
    BY <1>3, <1>6, <2>1, <2>2 DEF GreenletsFit
<1>. HIDE DEF tk0, g0
<1>9. Landing(g0, x) = x
  BY <1>4, <1>8, LandsOnMain
<1>10. \/ tk' = tk0 /\ gl' = g0
       \/ tk' = DeadUnstarted(tk0, x) /\ gl' = g0
       \/ tk0[x].exc = "Error" /\ tk' = [tk0 EXCEPT ![x].exc = "none", ![x].remove = TRUE] /\ gl' = g0
       \/ tk' = [tk0 EXCEPT ![x].paused = FALSE, ![x].firstRun = FALSE]
          /\ gl' = [g0 EXCEPT ![x].state = "started"]
  BY <1>5, <1>9 DEF SwitchTo
<1>11. \A t \in Tasklets : /\ tk'[t].killPending = tk[t].killPending
                           /\ tk'[t].exc = tk[t].exc \/ tk[t].exc = "Error"
  BY <1>7, <1>10 DEF DeadUnstarted, TaskletType
<1>12. /\ \A t \in Tasklets \ {x} : gl'[t].state = gl[t].state
       /\ gl'[x].state \in {gl[x].state, "started"}
  BY <1>8, <1>10 DEF GreenletType
<1>13. ASSUME NEW t \in Tasklets PROVE Doomed(t)'
  <2>. SUFFICES ASSUME tk[t].killPending PROVE Doomed(t)'
    BY <1>11 DEF Doomed
  <2>1. /\ "kill_pending" \in AllOps /\ t # Main
        /\ tk[t].exc = "TaskletExit" \/ gl[t].state \in {"unborn", "dead"}
    BY <1>2, WhereIsHere DEF AllDoomed, Doomed
  <2>3. CASE tk[t].exc = "TaskletExit"
    <3>1. tk'[t].exc = "TaskletExit"
      BY <1>11, <2>3
    <3>. QED
      BY <2>1, <3>1 DEF Doomed
  <2>4. CASE gl[t].state \in {"unborn", "dead"}
    <3>1. gl'[t].state \in {"unborn", "dead"}
      BY <1>4, <1>12, <2>4
    <3>. QED
      BY <2>1, <3>1 DEF Doomed
  <2>. QED
    BY <2>1, <2>3, <2>4
<1>. QED
  BY <1>13 DEF AllDoomed

LEMMA SwitchReturnsKeepsDoomed ==
    ASSUME Control({}), Flags, AllDoomed, SwitchReturns
    PROVE  AllDoomed'
<1>1. /\ stack[active] # <<>> /\ Top.k \in {"Run", "Yield"} /\ Top.pc = "in" /\ ~q.nullDeref
      /\ tk' = IF tk[q.current].exc # "none" THEN [tk EXCEPT ![q.current].exc = "none"]
               ELSE AfterSwitch(Top.sw, ret)
      /\ Continue(<<[Top EXCEPT !.pc = "out"]>> \o Tail(stack[active]),
                  IF tk[q.current].exc # "none" THEN tk[q.current].exc ELSE ret)
      /\ gl' = gl
  BY DEF SwitchReturns, Resumed
<1>2. tk \in [Tasklets -> TaskletType] /\ tk[Main].exc = "none"
  BY DEF Control, Types, TaskletsFit
<1>3. Top.sw \in Tasklets
  <2>1. Top \in Switching(active) /\ active \in Tasklets
    BY <1>1, InTheMiddle
  <2>. QED
    BY <1>1, <2>1, MainAssumption DEF Switching, RunFrames, YieldFrames
<1>4. ASSUME tk[q.current].exc = "none" PROVE \A t \in Tasklets : SameFate(t)
  <2>1. \A t \in Tasklets : tk'[t].exc = tk[t].exc
    BY <1>1, <1>3, <1>4, AfterSwitchFlags
  <2>2. \A t \in Tasklets : AfterSwitch(Top.sw, ret)[t].killPending = tk[t].killPending
    BY <1>2, <1>3 DEF AfterSwitch, TaskletType
  <2>. QED
    BY <1>1, <1>4, <2>1, <2>2 DEF SameFate
<1>5. CASE active = Main
  <2>1. tk[q.current].exc = "none"
    <3>1. AtFrame("Run", "in")
      BY <1>1, <1>5, InTheMiddle DEF AtFrame
    <3>. QED
      BY <1>1, <1>2, <3>1, BackInTheLoop DEF Fits
  <2>. QED
    BY <1>4, <1>5, <2>1, InTheLoopKeepsDoomed DEF AllDoomed
<1>6. CASE active # Main
  <2>1. PICK x \in Tasklets : x = active /\ q.current = x /\ gl[x].state = "started"
    BY <1>6, RunByMain DEF Control, Types
  <2>2. Where(x) # "here"
    <3>1. AtYield(x, "in")
      BY <1>1, <1>6, <2>1, InTheMiddle DEF AtYield, TopIs, Top
    <3>. QED
      BY <3>1, WhereIsHere
  <2>3. \A t \in Tasklets : Where(t) # "here"
    BY <2>1, <2>2, WhereIsHere
  <2>4. CASE tk[x].exc = "none"
    BY <1>4, <2>1, <2>3, <2>4, OthersStayDoomed DEF AllDoomed
  <2>5. CASE tk[x].exc # "none"
    <3>1. /\ tk' = [tk EXCEPT ![x].exc = "none"]
          /\ Continue(<<[Top EXCEPT !.pc = "out"]>> \o Tail(stack[active]), tk[x].exc)
      BY <1>1, <2>1, <2>5
    <3>2. \A t \in Tasklets \ {x} : SameFate(t)
      BY <1>1, <1>2, <3>1 DEF SameFate
    <3>3. Doomed(x)'
      <4>. SUFFICES ASSUME tk'[x].killPending PROVE Doomed(x)'
        BY DEF Doomed
      <4>1. tk[x].killPending
        BY <1>2, <3>1 DEF TaskletType
      <4>2. "kill_pending" \in AllOps /\ x # Main /\ tk[x].exc = "TaskletExit"
        BY <2>1, <2>2, <4>1 DEF AllDoomed, Doomed
      <4>3. /\ active' = active /\ ret' = tk[x].exc
            /\ Head(stack'[active]).pc = "out"
        BY <1>1, <3>1, PastTheSwitch
      <4>4. Where(x)' = "here"
        BY <2>1, <4>3 DEF Where, AtYield, TopIs
      <4>. QED
        BY <1>1, <2>1, <4>2, <4>3, <4>4 DEF Doomed
    <3>. QED
      BY <2>3, <3>2, <3>3, OthersStayDoomed DEF AllDoomed
  <2>. QED
    BY <2>4, <2>5
<1>. QED
  BY <1>5, <1>6

LEMMA LoopKeepsDoomed ==
    ASSUME Control({}), Flags, AllDoomed, RunEnds \/ RunCannotAdopt \/ RunContinues \/ RunFails
    PROVE  AllDoomed'
<1>1. tk \in [Tasklets -> TaskletType] /\ gl \in [Tasklets -> GreenletType]
  BY DEF Control, Types, TaskletsFit, GreenletsFit
<1>2. active = Main
  <2>1. stack[active] # <<>> /\ Top.k = "Run"
    BY DEF RunEnds, RunCannotAdopt, RunContinues, RunFails, AtFrame
  <2>. QED
    BY <2>1, InTheLoop
<1>3. ASSUME RunEnds \/ RunCannotAdopt PROVE \A t \in Tasklets : SameFate(t)
  BY <1>3, NothingOfItChanges DEF RunEnds, RunCannotAdopt
<1>4. ASSUME RunContinues PROVE \A t \in Tasklets : SameFate(t)
  <2>1. AtFrame("Run", "out") /\ Top.pc = "out"
    BY <1>4 DEF RunContinues, AtFrame
  <2>2. PICK x \in Tasklets \ {Main} :
           x = Top.sw /\ Fits(q.scheduled[x], q.reschedule[x], tk[x], gl[x].state, "out", ret)
    BY <2>1, BackInTheLoop
  <2>3. ret = "TaskletExit" => tk[x].exc = "none"
    BY <2>2 DEF Fits
  <2>4. \A t \in Tasklets : tk'[t].exc = tk[t].exc /\ tk'[t].killPending = tk[t].killPending
    <3>1. tk' = [tk EXCEPT ![x].exc = IF ret = "TaskletExit" THEN "none" ELSE @,
                           ![x].parent = IF tk[x].alive THEN @ ELSE NULL]
      BY <1>4, <2>2 DEF RunContinues
    <3>. QED
      BY <1>1, <2>2, <2>3, <3>1 DEF TaskletType
  <2>5. \A t \in Tasklets : gl'[t].state = gl[t].state
    <3>1. gl' = gl \/ gl' = Parented(gl, x, NULL)
      BY <1>4, <2>2 DEF RunContinues
    <3>. QED
      BY <1>1, <3>1 DEF Parented, GreenletType
  <2>. QED
    BY <2>4, <2>5 DEF SameFate
<1>5. ASSUME RunFails PROVE \A t \in Tasklets : SameFate(t)
  <2>1. AtFrame("Run", "out")
    BY <1>5 DEF RunFails
  <2>2. PICK x \in Tasklets : x = Top.sw
    BY <2>1, BackInTheLoop
  <2>3. /\ tk' = tk \/ tk' = [tk EXCEPT ![x].parent = NULL]
        /\ gl' = gl \/ gl' = Parented(gl, x, NULL)
    BY <1>5, <2>2 DEF RunFails
  <2>4. \A t \in Tasklets : tk'[t].exc = tk[t].exc /\ tk'[t].killPending = tk[t].killPending
    BY <1>1, <2>3 DEF TaskletType
  <2>5. \A t \in Tasklets : gl'[t].state = gl[t].state
    BY <1>1, <2>3 DEF Parented, GreenletType
  <2>. QED
    BY <2>4, <2>5 DEF SameFate
<1>. QED
  BY <1>2, <1>3, <1>4, <1>5, InTheLoopKeepsDoomed DEF AllDoomed

(* Who gives control away has not been killed, or not with pending. *)
LEMMA YieldSwitchesKeepsDoomed ==
    ASSUME Control({}), AllDoomed, YieldSwitches \/ YieldStaysBlocked
    PROVE  AllDoomed'
<1>1. ~YieldStaysBlocked
  <2>1. ASSUME AtFrame("Yield", "out") PROVE ~IsBlocked(q, Top.t)
    <3>1. Top.t = active /\ active \in Tasklets
      BY <2>1, InTheMiddle DEF AtFrame
    <3>. QED
      BY <3>1 DEF IsBlocked, Control, Types, QueueFits
  <2>. QED
    BY <2>1 DEF YieldStaysBlocked
<1>2. stack[active] # <<>> /\ Top.k = "Yield" /\ Top.pc = "head" /\ YieldSwitches
  BY <1>1 DEF YieldSwitches, AtFrame
<1>3. PICK x \in Tasklets \ {Main} : x = active /\ Top.t = x
  BY <1>2, InTheMiddle
<1>4. \A t \in Tasklets : Where(t) # "here"
  <2>1. AtYield(x, "head")
    BY <1>2, <1>3 DEF AtYield, TopIs, Top
  <2>. QED
    BY <1>3, <2>1, WhereIsHere
<1>5. /\ tk[x].parent = Main /\ gl[Main].state = "started" /\ Main # NULL
      /\ tk \in [Tasklets -> TaskletType] /\ gl \in [Tasklets -> GreenletType] /\ tk[Main].exc = "none"
  BY <1>3, RunByMain, NullAssumption, MainAssumption DEF Control, Types, TaskletsFit, GreenletsFit
<1>6. SwitchTo(Top, Main, q, tk, gl)
  BY <1>2, <1>3, <1>5 DEF YieldSwitches
<1>7. Landing(gl, Main) = Main
  BY <1>5, LandsOnMain, MainAssumption DEF Control, Types
<1>8. \/ tk' = tk /\ gl' = gl
      \/ tk' = [tk EXCEPT ![Main].paused = FALSE, ![Main].firstRun = FALSE]
         /\ gl' = [gl EXCEPT ![Main].state = "started"]
  BY <1>5, <1>6, <1>7 DEF SwitchTo, DiesUnstarted
<1>9. \A t \in Tasklets : SameFate(t)
  BY <1>5, <1>8, MainAssumption DEF SameFate, TaskletType, GreenletType
<1>. QED
  BY <1>4, <1>9, OthersStayDoomed DEF AllDoomed

LEMMA SchedulerKeepsDoomed ==
    ASSUME Control({}), Flags, AllDoomed, NoTrap, Scheduler
    PROVE  AllDoomed'
<1>1. ASSUME YieldReturns \/ YieldMainReturns \/ KillReturns \/ LimitedRunReturns PROVE AllDoomed'
  <2>1. stack[active] # <<>> /\ tk' = tk /\ gl' = gl
    BY <1>1 DEF YieldReturns, YieldMainReturns, KillReturns, LimitedRunReturns, AtFrame, AtThen
  <2>2. \E r : Return(r) /\ (ret = "TaskletExit" => r = "TaskletExit")
    BY <1>1 DEF YieldReturns, YieldMainReturns, KillReturns, LimitedRunReturns
  <2>. QED
    BY <2>1, <2>2, ReturnKeepsDoomed
<1>. QED
  BY <1>1, SwitchReturnsKeepsDoomed, LoopKeepsDoomed, RunSwitchesKeepsDoomed, YieldSwitchesKeepsDoomed,
     SwitchIsNotCalled DEF Scheduler

LEMMA NextKeepsDoomed ==
    ASSUME Flat, Plain, OnceKilled, Control({}), Flags, AllDoomed, [Next]_vars
    PROVE  AllDoomed'
<1>1. NoTrap
  BY DEF Plain
<1>2. ASSUME UNCHANGED vars PROVE AllDoomed'
  BY <1>2 DEF vars, AllDoomed, Doomed, Where, AtYield, AtRun, TopIs, Target
<1>. QED
  BY <1>1, <1>2, PythonKeepsDoomed, SchedulerKeepsDoomed DEF Next, MainIdle

LEMMA InitDoomsNobody == Init => AllDoomed
BY DEF Init, AllDoomed, Doomed

(* A tasklet that a kill has been left pending for runs none of its code    *)
(* any more, be it started or not, whoever queues, runs, removes or kills it *)
(* again: the exit waits for it until it has ended.                         *)
THEOREM FlatKilledRunsNoMore ==
    ASSUME Flat, Plain, OnceKilled
    PROVE  Spec => []KilledRunsNoMore
<1>1. ASSUME Control({}) /\ Flags, AllDoomed PROVE KilledRunsNoMore
  <2>. SUFFICES ASSUME InCode PROVE ~tk[active].killPending /\ tk[active].exc # "TaskletExit"
    BY DEF KilledRunsNoMore
  <2>1. stack[active] \in Rests({}, active) /\ ret # "TaskletExit" /\ active \in Tasklets
    BY <1>1, EmptyStack DEF InCode, Running, InPython, Control, Types
  <2>2. tk[active].exc # "TaskletExit"
    <3>1. active = Main => tk[active].exc = "none"
      BY <1>1 DEF Control, Types, TaskletsFit
    <3>2. ASSUME NEW t \in Tasklets \ {Main}, active = t PROVE tk[t].exc = "none"
      <4>1. Fits(q.scheduled[t], q.reschedule[t], tk[t], gl[t].state, "here", ret)
        BY <1>1, <3>2, FlagsInCode
      <4>. QED
        BY <4>1 DEF Fits
    <3>. QED
      BY <2>1, <3>1, <3>2
  <2>. QED
    BY <1>1, <2>1, <2>2, NobodyDoomedCalls
<1>2. ASSUME Control({}) /\ Flags, AllDoomed, [Next]_vars PROVE AllDoomed'
  BY <1>2, NextKeepsDoomed
<1>. QED
  BY <1>1, <1>2, InitDoomsNobody, SchedulerInvariant, PTL DEF Spec

(* While code runs, whoever was killed with pending has its exit to come. *)
LEMMA TheExitWaits ==
    ASSUME Control({}), Flags, AllDoomed, InCode, NEW t \in Tasklets, tk[t].alive, tk[t].killPending
    PROVE  tk[t].exc = "TaskletExit"
<1>1. t # Main /\ ret # "TaskletExit"
  BY DEF AllDoomed, Doomed, InCode, Running
<1>2. Fits(q.scheduled[t], q.reschedule[t], tk[t], gl[t].state,
           IF t = active THEN "here" ELSE "away", ret)
  BY <1>1, FlagsInCode
<1>3. gl[t].state \notin {"unborn", "dead"}
  BY <1>2 DEF Fits
<1>. QED
  BY <1>1, <1>3 DEF AllDoomed, Doomed

(* A kill() that goes to the tasklet and returns without an exception has   *)
(* ended it: whoever waits for that, main in its loop or a tasklet that has *)
(* given control away, comes back only behind the one it has killed.  No run *)
(* has a limit: one that stops between the two lets the killer go on first. *)
(* A kill() that returns because another is pending may do so: the          *)
(* TaskletExit of that one still waits for the tasklet.                     *)
THEOREM FlatKillIsDone ==
    ASSUME Flat, Plain, SureKills, OnceKilled
    PROVE  Spec => []KillIsDone
<1>1. Init => KillsEnd /\ RunsThrough /\ AllDoomed
  BY InitEndsKills, InitDoomsNobody
<1>2. ASSUME Control({}) /\ Flags, (Control({}) /\ Flags)', KillsEnd /\ RunsThrough /\ AllDoomed, [Next]_vars
      PROVE  (KillsEnd /\ RunsThrough /\ AllDoomed)'
  <2>1. NoTrap
    BY DEF Plain
  <2>2. AllDoomed'
    BY <1>2, NextKeepsDoomed
  <2>3. CASE Python
    BY <1>2, <2>1, <2>2, <2>3, PythonEndsKills
  <2>4. CASE Scheduler
    BY <1>2, <2>1, <2>2, <2>4, SchedulerEndsKills
  <2>5. CASE UNCHANGED vars
    BY <1>2, <2>2, <2>5, StutterEndsKills
  <2>. QED
    BY <1>2, <2>3, <2>4, <2>5 DEF Next, MainIdle
<1>3. Control({}) /\ Flags /\ KillsEnd /\ RunsThrough /\ AllDoomed => KillIsDone
  BY KillsHaveEnded, TheExitWaits DEF KillIsDone
<1>. QED
  BY <1>1, <1>2, <1>3, SchedulerInvariant, PTL DEF Spec
================================================================================
