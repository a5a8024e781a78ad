------------------------------- MODULE Ownership -------------------------------
(***************************************************************************)
(* Who holds on to a tasklet.  A tasklet that waits on a channel is linked *)
(* into one of its two lists through m_nextBlocked and m_previousBlocked,  *)
(* and the channel holds a reference to it; a tasklet in the run queue is  *)
(* held by the queue.  Each is taken and given back by explicit Incref and *)
(* Decref calls on many paths of Channel.cpp, and by the loop of Run.      *)
(*                                                                         *)
(* The order of the run queue does not matter here: any queued tasklet may *)
(* run next.  An exception that is raised on a tasklet is handled by its   *)
(* code, or ends it.                                                       *)
(***************************************************************************)
EXTENDS Integers, Sequences, FiniteSets

CONSTANTS
    Tasklets, Main, Channels, NULL,
    Ops,        \* the calls Python code makes
    MaxRefs     \* a bound on the references counted, which leaks make grow

ASSUME OwnershipAssumption == Main \in Tasklets /\ NULL \notin Tasklets /\ IsFiniteSet(Tasklets)

Sides == {"SENDER", "RECEIVER"}
Direction == Sides \cup {"NEITHER"}

VARIABLES
    list,   \* the channels
    link,   \* m_nextBlocked and m_previousBlocked of each tasklet
    tk,     \* what else a tasklet notes, and where its code stands
    refs,   \* the references the queue and the channels hold on each tasklet
    turn    \* the tasklet that a kill is about to run, or NULL

vars == <<list, link, tk, refs, turn>>

Init ==
    /\ list = [c \in Channels |->
                 [first |-> [s \in Sides |-> NULL], last |-> [s \in Sides |-> NULL],
                  balance |-> 0, preference |-> "RECEIVER", closing |-> FALSE, closed |-> FALSE]]
    /\ link = [t \in Tasklets |-> [next |-> NULL, prev |-> NULL]]
    /\ tk = [t \in Tasklets |->
               [at |-> "code", on |-> NULL, dir |-> "NEITHER", queued |-> TRUE, again |-> FALSE,
                blocked |-> FALSE, exc |-> FALSE, args |-> FALSE, killPending |-> FALSE]]
    /\ refs = [t \in Tasklets |-> 1]
    /\ turn = NULL

--------------------------------------------------------------------------------
(* The blocked lists: from first, who has waited longest, along            *)
(* m_previousBlocked to last.                                              *)

UpdateCloseState(l) == [l EXCEPT !.closed = @ \/ (l.closing /\ l.balance = 0)]

(* AddTaskletToWaitingToSend and AddTaskletToWaitingToReceive. *)
Added(c, t, side) ==
    LET l == list[c] IN
    [l EXCEPT !.first[side] = IF l.last[side] = NULL THEN t ELSE @,
              !.last[side] = t,
              !.balance = IF side = "SENDER" THEN @ + 1 ELSE @ - 1]

LinkAdded(c, t, side) ==
    LET last == list[c].last[side]
    IN  IF last = NULL THEN link
        ELSE [link EXCEPT ![last].prev = t, ![t].next = last]

(* Faulty: whoever does not wait to send waits to receive.                 *)
CountedTwice(c, t) ==
    LET l == list[c] IN
    [l EXCEPT !.first = [s \in Sides |-> IF @[s] = t THEN link[t].prev ELSE @[s]],
              !.last = [s \in Sides |-> IF @[s] = t THEN link[t].next ELSE @[s]],
              !.balance = IF tk[t].dir = "SENDER" THEN @ - 1 ELSE @ + 1]

(* RemoveTaskletFromBlocked. *)
Removed(c, t) ==
    LET l == list[c] IN
    [l EXCEPT !.first = [s \in Sides |-> IF @[s] = t THEN link[t].prev ELSE @[s]],
              !.last = [s \in Sides |-> IF @[s] = t THEN link[t].next ELSE @[s]],
              !.balance = CASE tk[t].dir = "SENDER" -> @ - 1
                            [] tk[t].dir = "RECEIVER" -> @ + 1
                            [] OTHER -> @]

(* Faulty: the tasklet that is the new first keeps its link to t.          *)
LinkKept(c, t) ==
    LET n == link[t].next
        p == link[t].prev
        isFirst == \E s \in Sides : list[c].first[s] = t
        nextOf == [u \in Tasklets |-> CASE u = t -> NULL
                                        [] u = p /\ u # t /\ ~isFirst -> n
                                        [] OTHER -> link[u].next]
        prevOf == [u \in Tasklets |-> CASE u = t -> NULL
                                        [] u = n /\ u # t -> p
                                        [] OTHER -> link[u].prev]
    IN  [u \in Tasklets |-> [next |-> nextOf[u], prev |-> prevOf[u]]]

(* At an end of the list the neighbour that is left ends the list; in the  *)
(* middle the two neighbours are linked.                                   *)
LinkRemoved(c, t) ==
    LET n == link[t].next
        p == link[t].prev
        isFirst == \E s \in Sides : list[c].first[s] = t
        isLast == \E s \in Sides : list[c].last[s] = t
        nextOf == [u \in Tasklets |-> CASE u = t -> NULL
                                        [] u = p /\ u # t /\ isFirst -> NULL
                                        [] u = p /\ u # t /\ ~isFirst /\ ~isLast -> n
                                        [] OTHER -> link[u].next]
        prevOf == [u \in Tasklets |-> CASE u = t -> NULL
                                        [] u = n /\ u # t /\ isLast -> NULL
                                        [] u = n /\ u # t /\ ~isFirst /\ ~isLast -> p
                                        [] OTHER -> link[u].prev]
    IN  [u \in Tasklets |-> [next |-> nextOf[u], prev |-> prevOf[u]]]

(* t leaves the list of c it is in, if any. *)
TakeOff(c, t) ==
    /\ list' = [list EXCEPT ![c] = UpdateCloseState(Removed(c, t))]
    /\ link' = LinkRemoved(c, t)

--------------------------------------------------------------------------------
(* The run queue, as far as references go: [tk, refs] to [tk, refs].       *)

State == [tk |-> tk, refs |-> refs]

Incref(x, t) == [x EXCEPT !.refs[t] = @ + 1]
Decref(x, t) == [x EXCEPT !.refs[t] = @ - 1]
Note(x, t, note) == [x EXCEPT !.tk[t] = note]

(* SetReschedule(BACK), which nobody reads on the main tasklet.            *)
Marked(x, t) == [x EXCEPT !.tk[t].again = t # Main]

InsertTasklet(x, t) ==
    IF x.tk[t].queued THEN Marked(x, t)
    ELSE Incref([x EXCEPT !.tk[t].queued = TRUE, !.tk[t].blocked = FALSE], t)

(* Takes a reference of a tasklet that is in the queue already, too.       *)
InsertTaskletToRunNext(x, t) ==
    IF x.tk[t].queued THEN Incref(Marked(x, t), t)
    ELSE InsertTasklet(x, t)

(* Faulty: the queue keeps its reference of a tasklet that has left.       *)
LeavesHeld(x, t) ==
    IF t = Main \/ ~x.tk[t].queued THEN x
    ELSE LET out == [x EXCEPT !.tk[t].queued = FALSE]
         IN  IF x.tk[t].again THEN [InsertTasklet(out, t) EXCEPT !.tk[t].again = FALSE] ELSE out

(* t gives control back to the loop of Run, which takes it out of the      *)
(* queue, and puts it back if it is marked.                                *)
LeavesRun(x, t) ==
    IF t = Main \/ ~x.tk[t].queued THEN x
    ELSE LET out == [x EXCEPT !.tk[t].queued = FALSE]
         IN  Decref(IF x.tk[t].again THEN [InsertTasklet(out, t) EXCEPT !.tk[t].again = FALSE]
                    ELSE out, t)

(* Schedule(BACK) and back in the queue. The main tasklet runs the queue.  *)
Reschedules(x, t) ==
    IF t = Main THEN x ELSE LeavesRun([x EXCEPT !.tk[t].again = TRUE], t)

Becomes(x) == tk' = x.tk /\ refs' = x.refs

(* A partner p is taken off the channel and put in the queue. *)
Wakes(x, p, runNext) ==
    Decref(IF runNext THEN InsertTaskletToRunNext(x, p) ELSE InsertTasklet(x, p), p)

CanRun(t) == tk[t].queued /\ ~tk[t].blocked

(* A tasklet with a message left over from a receive that an exception      *)
(* ended (TakenReturns) uses no channel again: a bound on the programs.     *)
Calls(t, op) == op \in Ops /\ CanRun(t) /\ tk[t].at = "code" /\ ~tk[t].exc /\ ~tk[t].args

ClosingOrClosed(c) == list[c].closing \/ list[c].closed

--------------------------------------------------------------------------------
(* Channel::Send. A send that is refused changes nothing here. *)

SendBlocks(t, c) ==
    /\ Calls(t, "send")
    /\ list[c].first["RECEIVER"] = NULL /\ ~ClosingOrClosed(c)
    /\ list' = [list EXCEPT ![c] = UpdateCloseState(Added(c, t, "SENDER"))]
    /\ link' = LinkAdded(c, t, "SENDER")
    /\ Becomes(LeavesRun(Incref(Note(State, t, [tk[t] EXCEPT !.at = "Send", !.on = c,
                    !.dir = "SENDER", !.blocked = TRUE, !.args = TRUE]), t), t))

SendDelivers(t, c) ==
    LET r == list[c].first["RECEIVER"]
        x == Note(State, r, [tk[r] EXCEPT !.blocked = FALSE, !.dir = "NEITHER", !.args = TRUE])
    IN  /\ Calls(t, "send")
        /\ r # NULL
        /\ TakeOff(c, r)
        /\ IF list[c].preference = "RECEIVER"
           THEN Becomes(Reschedules([Wakes(x, r, TRUE) EXCEPT !.tk[t].at = "Delivered", !.tk[t].on = c], t))
           ELSE Becomes(Wakes(x, r, FALSE))

Settle(c) == list' = [list EXCEPT ![c] = UpdateCloseState(@)]

(* Yield fails: for the tasklet an exception waits for; and for the main   *)
(* tasklet when its run ends, by an exception or without waking it.        *)
Fails(t) == tk[t].exc \/ t = Main
Succeeds(t) == ~tk[t].exc /\ ~tk[t].blocked

Resumed(t) == [tk[t] EXCEPT !.at = "code", !.on = NULL, !.exc = FALSE]

(* Faulty: whoever fails to send gives the channel's reference back.       *)
SendReturnsTwice(t) ==
    /\ tk[t].at = "Send" /\ tk[t].queued
    /\ \/ /\ Succeeds(t)
          /\ Becomes(Note(State, t, Resumed(t)))
          /\ Settle(tk[t].on)
          /\ UNCHANGED link
       \/ /\ Fails(t)
          /\ TakeOff(tk[t].on, t)
          /\ Becomes(Decref(Note(State, t, [Resumed(t) EXCEPT !.blocked = FALSE, !.dir = "NEITHER", !.args = FALSE]), t))

(* A sender that fails with its message still there had not been taken off *)
(* the channel by a receiver: the reference is the channel's.              *)
SendReturns(t) ==
    /\ tk[t].at = "Send" /\ tk[t].queued
    /\ \/ /\ Succeeds(t)
          /\ Becomes(Note(State, t, Resumed(t)))
          /\ Settle(tk[t].on)
          /\ UNCHANGED link
       \/ /\ Fails(t)
          /\ TakeOff(tk[t].on, t)
          /\ LET x == Note(State, t, [Resumed(t) EXCEPT !.blocked = FALSE, !.dir = "NEITHER", !.args = FALSE])
             IN  Becomes(IF tk[t].args THEN Decref(x, t) ELSE x)

(* The rest of a send that has handed its message over.                    *)
DeliveredReturns(t) ==
    /\ tk[t].at = "Delivered" /\ CanRun(t)
    /\ Becomes(Note(State, t, Resumed(t)))
    /\ Settle(tk[t].on)
    /\ UNCHANGED link

--------------------------------------------------------------------------------
(* Channel::Receive. *)

(* On a channel that is closed the tasklet is added, taken off again, and  *)
(* the reference taken in between stays.                                   *)
ReceiveOnClosed(t, c) ==
    /\ Calls(t, "receive")
    /\ list[c].first["SENDER"] = NULL /\ ClosingOrClosed(c)
    /\ Becomes(Incref(State, t))
    /\ UNCHANGED <<list, link>>

ReceiveBlocks(t, c) ==
    /\ Calls(t, "receive")
    /\ list[c].first["SENDER"] = NULL /\ ~ClosingOrClosed(c)
    /\ list' = [list EXCEPT ![c] = UpdateCloseState(Added(c, t, "RECEIVER"))]
    /\ link' = LinkAdded(c, t, "RECEIVER")
    /\ Becomes(LeavesRun(Incref(Note(State, t, [tk[t] EXCEPT !.at = "Receive", !.on = c,
                    !.dir = "RECEIVER", !.blocked = TRUE]), t), t))

ReceiveTakes(t, c) ==
    LET s == list[c].first["SENDER"]
        x == Note(State, s, [tk[s] EXCEPT !.blocked = FALSE, !.dir = "NEITHER", !.args = FALSE])
    IN  /\ Calls(t, "receive")
        /\ s # NULL
        /\ TakeOff(c, s)
        /\ IF list[c].preference = "SENDER"
           THEN Becomes(Reschedules([Wakes(x, s, TRUE) EXCEPT !.tk[t].at = "Taken", !.tk[t].on = c, !.tk[t].args = TRUE], t))
           ELSE Becomes(Wakes(x, s, FALSE))

(* A receiver that fails without a message had not been taken off.         *)
ReceiveReturns(t) ==
    /\ tk[t].at = "Receive" /\ tk[t].queued
    /\ \/ /\ Succeeds(t)
          /\ Becomes(Note(State, t, [Resumed(t) EXCEPT !.args = FALSE]))
          /\ UNCHANGED <<list, link>>
       \/ /\ Fails(t)
          /\ TakeOff(tk[t].on, t)
          /\ LET x == Note(State, t, [Resumed(t) EXCEPT !.blocked = FALSE, !.dir = "NEITHER", !.args = FALSE])
             IN  Becomes(IF tk[t].args THEN x ELSE Decref(x, t))

(* A receiver that fails here never had a reference of its own to give.    *)
TakenReturns(t) ==
    /\ tk[t].at = "Taken" /\ CanRun(t)
    /\ \/ Succeeds(t) /\ Becomes(Note(State, t, [Resumed(t) EXCEPT !.args = FALSE])) /\ UNCHANGED list
       \/ tk[t].exc /\ Becomes(Decref(Note(State, t, Resumed(t)), t)) /\ Settle(tk[t].on)
    /\ UNCHANGED link

--------------------------------------------------------------------------------
(* What other tasklets do to t. *)

(* Somebody is there to do it. *)
CodeRuns == \E u \in Tasklets : CanRun(u) /\ tk[u].at = "code" /\ ~tk[u].exc

Alive(t) == tk[t].at # "done"

(* Kill unblocks its target and runs it at once; or later, if pending.     *)
Kill(t) ==
    /\ "kill" \in Ops /\ t # Main /\ Alive(t) /\ ~tk[t].killPending
    /\ LET x == Note(State, t, [tk[t] EXCEPT !.blocked = FALSE, !.exc = TRUE, !.again = FALSE])
       IN  Becomes(IF tk[t].queued THEN x ELSE InsertTasklet(x, t))
    /\ UNCHANGED <<list, link>>

KillPending(t) ==
    /\ "kill_pending" \in Ops /\ t # Main /\ Alive(t) /\ ~tk[t].killPending
    /\ LET x == InsertTasklet(Note(State, t, [tk[t] EXCEPT !.blocked = FALSE, !.exc = TRUE, !.killPending = TRUE]), t)
       IN  Becomes([x EXCEPT !.tk[t].again = FALSE, !.tk[t].dir = IF tk[t].blocked THEN "NEITHER" ELSE @])
    /\ IF tk[t].blocked
       THEN list' = [list EXCEPT ![tk[t].on] = Removed(tk[t].on, t)] /\ link' = LinkRemoved(tk[t].on, t)
       ELSE UNCHANGED <<list, link>>

(* Tasklet::Remove, and TaskletRemove that returns the queue's reference.  *)
Remove(t) ==
    /\ (IF tk[t].queued THEN "remove" ELSE "remove_unqueued") \in Ops
    /\ t # Main /\ Alive(t)
    /\ Becomes(Decref([State EXCEPT !.tk[t].queued = FALSE], t))
    /\ UNCHANGED <<list, link>>

Insert(t) ==
    /\ (IF tk[t].queued THEN "insert_queued" ELSE "insert") \in Ops
    /\ t # Main /\ Alive(t) /\ ~tk[t].blocked
    /\ Becomes(InsertTasklet(State, t))
    /\ UNCHANGED <<list, link>>

(* An exception is raised in Python code that handles it. *)
Catches(t) ==
    /\ CanRun(t) /\ tk[t].at = "code" /\ tk[t].exc
    /\ Becomes(Note(State, t, Resumed(t)))
    /\ UNCHANGED <<list, link>>

(* The code of t ends, and it comes back to the loop of Run. *)
Ends(t) ==
    /\ t # Main /\ CanRun(t) /\ tk[t].at \in {"code", "done"}
    /\ Becomes(LeavesRun(Note(State, t, [tk[t] EXCEPT !.at = "done", !.exc = FALSE, !.killPending = FALSE]), t))
    /\ UNCHANGED <<list, link>>

Close(c) ==
    /\ "close" \in Ops
    /\ list' = [list EXCEPT ![c] = UpdateCloseState([@ EXCEPT !.closing = TRUE])]
    /\ UNCHANGED <<link, tk, refs>>

Open(c) ==
    /\ "close" \in Ops
    /\ list' = [list EXCEPT ![c].closing = FALSE, ![c].closed = FALSE]
    /\ UNCHANGED <<link, tk, refs>>

SetPreference(c, p) ==
    /\ "preference" \in Ops
    /\ list' = [list EXCEPT ![c].preference = p]
    /\ UNCHANGED <<link, tk, refs>>

Runs(t) ==
    \/ \E c \in Channels :
         \/ SendBlocks(t, c) \/ SendDelivers(t, c)
         \/ ReceiveOnClosed(t, c) \/ ReceiveBlocks(t, c) \/ ReceiveTakes(t, c)
    \/ SendReturns(t) \/ ReceiveReturns(t) \/ DeliveredReturns(t) \/ TakenReturns(t)
    \/ Catches(t) \/ Ends(t)

IsTold(t) == KillPending(t) \/ Remove(t) \/ Insert(t)

Next ==
    /\ \/ \E t \in Tasklets :
            \/ turn \in {NULL, t} /\ Runs(t) /\ turn' = NULL
            \/ turn = NULL /\ CodeRuns /\ IsTold(t) /\ turn' = NULL
            \/ turn = NULL /\ CodeRuns /\ Kill(t) /\ turn' = t
       \/ /\ turn = NULL /\ CodeRuns /\ turn' = NULL
          /\ \E c \in Channels : Close(c) \/ Open(c) \/ \E p \in Sides : SetPreference(c, p)
    /\ \A t \in Tasklets : refs'[t] \in 0..MaxRefs

Spec == Init /\ [][Next]_vars

--------------------------------------------------------------------------------
(* The list of c read from its first tasklet, and from its last.           *)
Walked(start, after) ==
    LET walk[n \in 1..Cardinality(Tasklets)] ==
            IF n = 1 THEN start
            ELSE LET t == walk[n-1] IN IF t = NULL THEN NULL ELSE after[t]
    IN  [n \in 1..Cardinality({m \in 1..Cardinality(Tasklets) : walk[m] # NULL}) |-> walk[n]]

FromFirst(c, side) == Walked(list[c].first[side], [t \in Tasklets |-> link[t].prev])
FromLast(c, side) == Walked(list[c].last[side], [t \in Tasklets |-> link[t].next])

Lists ==
    [c \in Channels |->
        [send |-> FromFirst(c, "SENDER"), recv |-> FromFirst(c, "RECEIVER"),
         balance |-> list[c].balance, preference |-> list[c].preference,
         closing |-> list[c].closing, closed |-> list[c].closed]]

Book == INSTANCE ChannelBook WITH ch <- Lists

(* The links implement the lists: whoever is taken off, at an end or in the *)
(* middle, by a partner, a kill or an exception, the tasklets that still    *)
(* wait stay linked in the order in which they came.                        *)
LinksImplementBook == Book!Spec

(* Read from either end a list has the same tasklets, so that taking one    *)
(* off at one end is seen at the other.                                     *)
ListsReadBothWays == \A c \in Channels, side \in Sides :
    LET s == FromFirst(c, side)
        r == FromLast(c, side)
    IN  Len(s) = Len(r) /\ \A i \in 1..Len(s) : s[i] = r[Len(s) + 1 - i]

(* The run queue holds what is in it, the channel what waits on it without  *)
(* having met its partner yet.                                              *)
AwaitsPartner(t) ==
    \/ tk[t].at = "Send" /\ tk[t].args
    \/ tk[t].at = "Receive" /\ ~tk[t].args

Holders(t) == (IF tk[t].queued THEN 1 ELSE 0) + (IF AwaitsPartner(t) THEN 1 ELSE 0)

(* No reference is given back that was not taken, whichever of the ways out *)
(* of Send, Receive and the loop of Run a step takes, but for a receive     *)
(* that an exception ends after its message was handed over (Channel.cpp    *)
(* 263): a tasklet that the queue or a channel points to is not freed.      *)
OnlyTakenIsGivenBack ==
    [][\A t \in Tasklets :
          refs'[t] - Holders(t)' < refs[t] - Holders(t) => TakenReturns(t) /\ tk[t].exc]_vars

(* References are given back: what a step takes more than it needs it takes *)
(* on one of the two known paths, a receive on a closed channel and         *)
(* InsertTaskletToRunNext of a tasklet that is in the queue already.        *)
GivenBack ==
    [][\A t \in Tasklets :
          refs'[t] - Holders(t)' > refs[t] - Holders(t)
          => \/ \E c \in Channels : ReceiveOnClosed(t, c)
             \/ tk[t].queued /\ AwaitsPartner(t) /\ ~AwaitsPartner(t)']_vars

================================================================================
