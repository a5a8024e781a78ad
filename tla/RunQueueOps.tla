------------------------------ MODULE RunQueueOps ------------------------------
(***************************************************************************)
(* The run queue of one ScheduleManager: a doubly linked list threaded     *)
(* through the tasklets' m_next and m_previous, that starts at the main    *)
(* tasklet and ends at m_previousTasklet (here "tail").                    *)
(*                                                                         *)
(* This module has no state.  Each operator takes the fields the C++       *)
(* methods of ScheduleManager.cpp touch, as one record q, and returns the  *)
(* record the method leaves behind.                                        *)
(***************************************************************************)
EXTENDS Integers, FiniteSets

CONSTANTS
    Tasklets,   \* the Tasklet objects of the thread, its main tasklet included
    Main,       \* m_schedulerTasklet
    Channels,   \* what a tasklet can be blocked on
    NULL        \* nullptr

ASSUME MainAssumption == Main \in Tasklets
ASSUME TaskletsAssumption == IsFiniteSet(Tasklets)
ASSUME NullAssumption == NULL \notin Tasklets /\ NULL \notin Channels

RescheduleType == {"NONE", "FRONT_PLUS_ONE", "BACK"}

(* The fields of Tasklet.h and ScheduleManager.h the queue methods use.    *)
(* blockedOn[t] is m_channelBlockedOn, and m_blocked is blockedOn[t] #     *)
(* NULL: Block and Unblock are the only writers and set both.  nullDeref   *)
(* records that the code has followed a null pointer.                      *)
QueueType ==
    [next       : [Tasklets -> Tasklets \cup {NULL}],
     prev       : [Tasklets -> Tasklets \cup {NULL}],
     scheduled  : [Tasklets -> BOOLEAN],
     reschedule : [Tasklets -> RescheduleType],
     blockedOn  : [Tasklets -> Channels \cup {NULL}],
     tail       : Tasklets \cup {NULL},
     current    : Tasklets \cup {NULL},
     count      : Int,
     nullDeref  : BOOLEAN]

(* The constructor: the main tasklet alone, scheduled for ever, not counted. *)
InitQueue ==
    [next       |-> [t \in Tasklets |-> NULL],
     prev       |-> [t \in Tasklets |-> NULL],
     scheduled  |-> [t \in Tasklets |-> t = Main],
     reschedule |-> [t \in Tasklets |-> "NONE"],
     blockedOn  |-> [t \in Tasklets |-> NULL],
     tail       |-> Main,
     current    |-> Main,
     count      |-> 0,
     nullDeref  |-> FALSE]

--------------------------------------------------------------------------------
(* Assignments through a pointer that may be null: the code tests it first. *)
SetIfAny(f, p, v) == IF p = NULL THEN f ELSE [f EXCEPT ![p] = v]

IsBlocked(q, t) == q.blockedOn[t] # NULL

Unblock(q, t) == [q EXCEPT !.blockedOn = [@ EXCEPT ![t] = NULL]]

Block(q, t, c) == [q EXCEPT !.blockedOn = [@ EXCEPT ![t] = c]]

SetReschedule(q, t, r) == [q EXCEPT !.reschedule = [@ EXCEPT ![t] = r]]

SetCurrentTasklet(q, t) == [q EXCEPT !.current = t]

(* Append t behind the tail.  A tasklet already queued is only marked to   *)
(* go back to the end once it returns to the loop that runs it.            *)
InsertTasklet(q, t) ==
    IF q.scheduled[t] THEN SetReschedule(q, t, "BACK")
    ELSE IF q.tail = NULL THEN [q EXCEPT !.nullDeref = TRUE]
    ELSE Unblock([q EXCEPT !.next = [@ EXCEPT ![q.tail] = t, ![t] = NULL],
                           !.prev = [@ EXCEPT ![t] = q.tail],
                           !.tail = t,
                           !.scheduled = [@ EXCEPT ![t] = TRUE],
                           !.count = @ + 1], t)

(* Faulty: an insertion behind the last tasklet leaves the tail behind.    *)
InsertWithoutTail(q, t) ==
    IF q.scheduled[t] THEN SetReschedule(q, t, "BACK")
    ELSE LET next == [q.next EXCEPT ![t] = q.next[q.current], ![q.current] = t]
         IN  Unblock([q EXCEPT !.next = next,
                               !.prev = SetIfAny([@ EXCEPT ![t] = q.current], next[t], t),
                               !.scheduled = [@ EXCEPT ![t] = TRUE],
                               !.count = @ + 1], t)

(* Insert t right behind the current tasklet, so that it runs next. *)
InsertTaskletToRunNext(q, t) ==
    IF q.scheduled[t] THEN SetReschedule(q, t, "BACK")
    ELSE LET next == [q.next EXCEPT ![t] = q.next[q.current], ![q.current] = t]
         IN  Unblock([q EXCEPT !.next = next,
                               !.prev = SetIfAny([@ EXCEPT ![t] = q.current], next[t], t),
                               !.tail = IF q.current = q.tail THEN t ELSE @,
                               !.scheduled = [@ EXCEPT ![t] = TRUE],
                               !.count = @ + 1], t)

(* Faulty: a tasklet that is not queued is taken out, and counted out.     *)
AlwaysLinked(q, t) == TRUE

(* Whether RemoveTasklet takes t out: it tells a queued tasklet by its      *)
(* neighbours being different.                                             *)
IsLinked(q, t) == q.prev[t] # q.next[t]

RemoveTasklet(q, t) ==
    LET p == q.prev[t]
        n == q.next[t]
    IN  IF ~IsLinked(q, t) THEN q
        ELSE [q EXCEPT !.next = [SetIfAny(@, p, n) EXCEPT ![t] = NULL],
                       !.prev = [SetIfAny(@, n, p) EXCEPT ![t] = NULL],
                       !.tail = IF n = NULL THEN p ELSE @,
                       !.count = @ - 1,
                       !.scheduled = [@ EXCEPT ![t] = FALSE]]

(* GetCachedTaskletCount and GetCalculatedTaskletCount. The second walks   *)
(* the list from the main tasklet; Walk(q)[n] is the n-th tasklet it meets.*)
Walk(q) ==
    LET walk[n \in 0..Cardinality(Tasklets)] ==
            IF n = 0 THEN Main
            ELSE LET t == walk[n-1] IN IF t = NULL THEN NULL ELSE q.next[t]
    IN  walk

GetCachedTaskletCount(q) == q.count + 1

GetCalculatedTaskletCount(q) ==
    Cardinality({n \in 0..Cardinality(Tasklets) : Walk(q)[n] # NULL})

--------------------------------------------------------------------------------
(* What the loop of ScheduleManager::Run does to the queue when tasklet t  *)
(* gives control back: its runner p is current again, t leaves the queue   *)
(* and, if it asked to, is queued again.                                   *)
DropFromQueue(q, t) ==
    LET atEnd == IF q.next[t] = NULL THEN [q EXCEPT !.tail = q.prev[t]] ELSE q
    IN  [RemoveTasklet(atEnd, t) EXCEPT !.scheduled = [@ EXCEPT ![t] = FALSE]]

(* Faulty: the front tasklet is put back at the end.                       *)
FrontToTheBack(q, t) ==
    LET front == q.next[q.current]
    IN  IF front = NULL THEN [q EXCEPT !.nullDeref = TRUE]
        ELSE InsertTasklet(InsertTaskletToRunNext(RemoveTasklet(q, front), t), front)

(* Second in the queue: behind the tasklet that is now first.              *)
InsertBehindFront(q, t) ==
    LET front == q.next[q.current]
    IN  IF front = NULL THEN [q EXCEPT !.nullDeref = TRUE]
        ELSE InsertTaskletToRunNext(InsertTaskletToRunNext(RemoveTasklet(q, front), t), front)

(* Faulty: the wish to be queued again is dropped.                         *)
ReinsertNever(q, t) == SetReschedule(q, t, "NONE")

(* Faulty: the tasklet that has just run is the next to run.               *)
ReinsertInFront(q, t) ==
    IF q.reschedule[t] = "BACK" THEN SetReschedule(InsertTaskletToRunNext(q, t), t, "NONE") ELSE q

ReinsertAsAsked(q, t) ==
    CASE q.reschedule[t] = "NONE" -> q
      [] q.reschedule[t] = "BACK" -> SetReschedule(InsertTasklet(q, t), t, "NONE")
      [] q.reschedule[t] = "FRONT_PLUS_ONE" -> SetReschedule(InsertBehindFront(q, t), t, "NONE")

(* Faulty: the tasklet that came back stays the current one.               *)
ReturnWithoutCurrent(q, t, p) == ReinsertAsAsked(DropFromQueue(q, t), t)

ReturnToRunner(q, t, p) ==
    IF p = NULL THEN [q EXCEPT !.nullDeref = TRUE]
    ELSE ReinsertAsAsked(DropFromQueue(SetCurrentTasklet(q, p), t), t)

(* Tasklet::Run with nested tasklets off: move t right behind the current  *)
(* tasklet, which is to come back right behind t.                          *)
MoveToRunNext(q, t) ==
    LET out == IF q.scheduled[t] THEN RemoveTasklet(q, t) ELSE q
    IN  SetReschedule(InsertTaskletToRunNext(out, t), q.current, "FRONT_PLUS_ONE")
================================================================================
