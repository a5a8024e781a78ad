-------------------------------- MODULE RunQueue --------------------------------
(***************************************************************************)
(* The run queue on its own: every way the scheduler changes it, in any    *)
(* order.  Each action is all that one method of Tasklet, Channel or       *)
(* ScheduleManager does to the queue between two points where control can  *)
(* leave it; when the method is called is left open, but for what its      *)
(* callers ensure.  TaskletScheduler and TaskletChannels implement this    *)
(* specification (see QueueSpec there).                                    *)
(***************************************************************************)
EXTENDS RunQueueOps, Sequences

VARIABLE q

Init == q = InitQueue

(* The queue as Insert, Run and Throw find it, or as Kill leaves t before  *)
(* it inserts or runs it: not blocked, its wish to be requeued dropped.    *)
Woken(t) == {q, Unblock(q, t), SetReschedule(Unblock(q, t), t, "NONE")}

(* Tasklet::Insert, nested Run, SwitchImplementation, pending Throw. *)
Insert(t) == \E q0 \in Woken(t) : q' = InsertTasklet(q0, t)

(* A pending Kill: t is queued, and will not be queued again. *)
InsertToDie(t) == q' = SetReschedule(InsertTasklet(Unblock(q, t), t), t, "NONE")

(* A channel operation that wakes t and lets it run at once. *)
WakeToRunNext(t) ==
    /\ q.scheduled[q.current]
    /\ q' = SetReschedule(InsertTaskletToRunNext(Unblock(q, t), t), q.current, "BACK")

(* Tasklet::Run without nesting. *)
RunFlat(t) ==
    /\ q.scheduled[q.current]
    /\ t # Main /\ t # q.current
    /\ \E q0 \in Woken(t) : q' = MoveToRunNext(q0, t)

Remove(t) == t # Main /\ q' = RemoveTasklet(q, t)

SwitchTo(t) == q' = SetCurrentTasklet(q, t)

(* t gives control back to its runner p, in ScheduleManager::Run. *)
Return(t, p) ==
    /\ t # Main /\ q.scheduled[t]
    /\ q.reschedule[t] = "FRONT_PLUS_ONE" =>
          p # t /\ q.scheduled[p] /\ DropFromQueue(q, t).next[p] # NULL
    /\ q' = ReturnToRunner(q, t, p)

(* t gives control back with an exception. *)
Fail(t, p) == t # Main /\ q' = RemoveTasklet(SetCurrentTasklet(q, p), t)

(* What a tasklet notes on itself before it gives control away. *)
Mark(t) ==
    \/ \E r \in RescheduleType : q' = SetReschedule(q, t, r)
    \/ \E q0 \in Woken(t) : q' = q0
    \/ \E c \in Channels : q' = Block(q, t, c)

Next ==
    \E t \in Tasklets :
        \/ Insert(t) \/ InsertToDie(t) \/ WakeToRunNext(t) \/ RunFlat(t)
        \/ Remove(t) \/ SwitchTo(t) \/ Mark(t)
        \/ \E p \in Tasklets : Return(t, p) \/ Fail(t, p)

Spec == Init /\ [][Next]_q

--------------------------------------------------------------------------------
TypeOK == q \in QueueType /\ q.count >= 0

(* s lists the queue from the main tasklet to the tail. *)
Lists(s, x) ==
    /\ s[0] = Main /\ s[x.count] = x.tail
    /\ \A i, j \in 0..x.count : s[i] = s[j] => i = j
    /\ \A t \in Tasklets : x.scheduled[t] <=> \E i \in 0..x.count : s[i] = t
    /\ \A i \in 0..x.count : x.next[s[i]] = IF i = x.count THEN NULL ELSE s[i+1]
    /\ \A i \in 0..x.count : x.prev[s[i]] = IF i = 0 THEN NULL ELSE s[i-1]
    /\ \A t \in Tasklets : ~x.scheduled[t] => x.next[t] = NULL /\ x.prev[t] = NULL

WellFormed(x) ==
    /\ ~x.nullDeref
    /\ x.count \in Nat
    /\ \E s \in [0..x.count -> Tasklets] : Lists(s, x)

(* Whatever is inserted, removed and put back in the middle of a run, the   *)
(* queue is one doubly linked list from the main tasklet to the tail, of    *)
(* the tasklets marked scheduled and no other, as long as the counter says, *)
(* and no method of ScheduleManager has followed a null pointer in it.      *)
QueueIsAList == WellFormed(q)

(* The queue seen as a line: the tasklets a walk from the main tasklet     *)
(* meets, in that order.                                                   *)
OrderOf(x) == [n \in 1..GetCalculatedTaskletCount(x) |-> Walk(x)[n-1]]

WalkOrder == OrderOf(q)

Line == INSTANCE QueueLine WITH line <- WalkOrder, current <- q.current

(* The linked list implements the line: every method, however many links   *)
(* it cuts and ties on its way (InsertBehindFront takes the front out and   *)
(* puts it back), lets one tasklet join, leave or jump to one of the places *)
(* the line has for it, and nobody else is overtaken.                       *)
LineSpec == Line!Spec
================================================================================
