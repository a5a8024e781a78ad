------------------------------ MODULE QueueChannel ------------------------------
(***************************************************************************)
(* The QueueChannel of python/scheduler/__init__.py: a channel with a      *)
(* queue of data in front, for senders that never block.  Its methods are  *)
(* Python code: they look at the channel first and act on what they saw    *)
(* after, and another thread may come in between.  The lock in them is a   *)
(* new one in each call, so it keeps nobody out.                           *)
(***************************************************************************)
EXTENDS Threads

CONSTANT MaxSent    \* a bound on what is sent

(* What is sent is something. *)
ASSUME MaxSentAssumption == MaxSent \in Nat /\ NULL \notin Nat

VARIABLES
    data,   \* data_queue of each channel
    plan,   \* what a tasklet that has looked at a channel is about to do
    sent,   \* how much was sent: the data are numbered
    handed  \* what a receiver was given last

qvars == <<data, plan, sent, handed>>
allvars == <<vars, qvars>>

Nothing == [do |-> "nothing"]

(* preference = 1 *)
QInit ==
    /\ InitWith([InitChannel EXCEPT !.preference = "SENDER"])
    /\ data = [c \in Channels |-> <<>>]
    /\ plan = [t \in Tasklets |-> Nothing]
    /\ sent = 0 /\ handed = 0

Plans(t, p) == plan' = [plan EXCEPT ![t] = p] /\ GoesOn /\ UNCHANGED <<tk, ch, data, handed>>

(* t does what it has planned to. *)
Does(t, do) == InPython(t) /\ plan[t].do = do /\ plan' = [plan EXCEPT ![t] = Nothing] /\ sent' = sent

--------------------------------------------------------------------------------
(* Faulty: data is queued only behind data. *)
SendLooksAtQueue(t, c) ==
    /\ Calls(t, "queue_send") /\ plan[t] = Nothing /\ sent < MaxSent
    /\ sent' = sent + 1
    /\ Plans(t, [do |-> IF data[c] # <<>> THEN "append" ELSE "send", c |-> c, m |-> sent + 1])

(* Faulty: data is queued although a receiver waits. *)
SendAlwaysQueues(t, c) ==
    /\ Calls(t, "queue_send") /\ plan[t] = Nothing /\ sent < MaxSent
    /\ sent' = sent + 1
    /\ Plans(t, [do |-> "append", c |-> c, m |-> sent + 1])

SendLooks(t, c) ==
    /\ Calls(t, "queue_send") /\ plan[t] = Nothing /\ sent < MaxSent
    /\ sent' = sent + 1
    /\ Plans(t, [do |-> IF ch[c].balance >= 0 /\ ~ch[c].closing THEN "append" ELSE "send",
                 c |-> c, m |-> sent + 1])

SendAppends(t) ==
    /\ Does(t, "append")
    /\ data' = [data EXCEPT ![plan[t].c] = Append(@, plan[t].m)]
    /\ GoesOn
    /\ UNCHANGED <<tk, ch, handed>>

SendSends(t) ==
    /\ Does(t, "send")
    /\ Send(t, plan[t].c, plan[t].m)
    /\ handed' = IF ch[plan[t].c].recv # <<>> THEN plan[t].m ELSE handed
    /\ UNCHANGED data

ReceiveLooks(t, c) ==
    /\ Calls(t, "queue_receive") /\ plan[t] = Nothing
    /\ Plans(t, [do |-> IF data[c] = <<>> THEN "receive" ELSE "popleft", c |-> c])
    /\ UNCHANGED sent

ReceiveReceives(t) ==
    /\ Does(t, "receive")
    /\ LET s == ch[plan[t].c].send
       IN  handed' = IF s # <<>> THEN tk[Head(s)].args ELSE handed
    /\ Receive(t, plan[t].c)
    /\ UNCHANGED data

(* Faulty: the data come from the other end. *)
ReceivePopsRight(t) ==
    /\ Does(t, "popleft")
    /\ LET queued == data[plan[t].c]
       IN  IF queued = <<>> THEN UNCHANGED <<data, handed>>
           ELSE /\ handed' = queued[Len(queued)]
                /\ data' = [data EXCEPT ![plan[t].c] = SubSeq(@, 1, Len(@) - 1)]
    /\ GoesOn
    /\ UNCHANGED <<tk, ch>>

(* An IndexError, if there is nothing any more. *)
ReceivePops(t) ==
    /\ Does(t, "popleft")
    /\ LET queued == data[plan[t].c]
       IN  IF queued = <<>> THEN UNCHANGED <<data, handed>>
           ELSE /\ handed' = Head(queued)
                /\ data' = [data EXCEPT ![plan[t].c] = Tail(@)]
    /\ GoesOn
    /\ UNCHANGED <<tk, ch>>

Queueing(t) ==
    \/ \E c \in Channels : SendLooks(t, c) \/ ReceiveLooks(t, c)
    \/ SendAppends(t) \/ SendSends(t) \/ ReceiveReceives(t) \/ ReceivePops(t)

QNext ==
    \/ \E t \in Tasklets : Queueing(t) \/ (plan[t] = Nothing /\ Python(t) /\ UNCHANGED qvars)
    \/ (Cpp \/ AllOver) /\ UNCHANGED qvars

QSpec == QInit /\ [][QNext]_allvars

--------------------------------------------------------------------------------
(* "The sender always continues": no send waits, not even one that found a  *)
(* receiver waiting, which must still be there when it acts.                *)
SenderNeverBlocks == \A t \in Tasklets : tk[t].at # "Send"

(* No receiver waits on the channel while data for it is in the queue.      *)
NobodyWaitsForQueuedData == \A c \in Channels : data[c] # <<>> => ch[c].recv = <<>>

(* Receivers are given the data in the order in which they were sent,       *)
(* through the queue or past it.                                            *)
InOrder == [][handed' >= handed]_allvars
================================================================================
