------------------------------ MODULE ChannelBook ------------------------------
(***************************************************************************)
(* What the channels keep about who waits on them, whatever scheduler runs *)
(* the tasklets: a tasklet joins one of the two lists of an open channel   *)
(* that nobody waits on from the other side, and leaves the list it is in, *)
(* because a partner came, or it was killed, or its wait was ended by an   *)
(* exception.  TaskletChannels and Ownership implement this.               *)
(***************************************************************************)
EXTENDS ChannelOps

CONSTANTS Tasklets, Channels

VARIABLE ch  \* the channels

Init == ch = [c \in Channels |-> InitChannel]

In(t, s) == \E i \in DOMAIN s : s[i] = t

Listed(c, t) == In(t, ch[c].send) \/ In(t, ch[c].recv)

IsOpen(c) == ~ch[c].closing /\ ~ch[c].closed

(* A channel that closes is closed once nobody waits on it. *)
Drained(b) == b.closing /\ b.send = <<>> /\ b.recv = <<>>

Settled(b) == [b EXCEPT !.closed = @ \/ Drained(b)]

(* b without t, counted by the list that it leaves. *)
Left(b, t) ==
    [b EXCEPT !.send = Unlinked(@, t),
              !.recv = Unlinked(@, t),
              !.balance = IF In(t, b.send) THEN @ - 1 ELSE @ + 1]

WaitToSend(c, t) ==
    /\ \A d \in Channels : ~Listed(d, t)
    /\ ch[c].recv = <<>> /\ IsOpen(c)
    /\ ch' = [ch EXCEPT ![c] = AddTaskletToWaitingToSend(@, t)]

WaitToReceive(c, t) ==
    /\ \A d \in Channels : ~Listed(d, t)
    /\ ch[c].send = <<>> /\ IsOpen(c)
    /\ ch' = [ch EXCEPT ![c] = AddTaskletToWaitingToReceive(@, t)]

(* Some callers look at once whether the channel is drained, some later.   *)
Leave(c, t) ==
    /\ Listed(c, t)
    /\ \/ ch' = [ch EXCEPT ![c] = Left(@, t)]
       \/ ch' = [ch EXCEPT ![c] = Settled(Left(@, t))]

Settle(c) == ch' = [ch EXCEPT ![c] = Settled(@)]

Close(c) == ch' = [ch EXCEPT ![c] = Settled([@ EXCEPT !.closing = TRUE])]

Open(c) == ch' = [ch EXCEPT ![c] = [@ EXCEPT !.closing = FALSE, !.closed = FALSE]]

Prefer(c, p) == ch' = [ch EXCEPT ![c] = [@ EXCEPT !.preference = p]]

Next ==
    \E c \in Channels :
        \/ \E t \in Tasklets : WaitToSend(c, t) \/ WaitToReceive(c, t) \/ Leave(c, t)
        \/ Settle(c) \/ Close(c) \/ Open(c)
        \/ \E p \in Direction : Prefer(c, p)

Spec == Init /\ [][Next]_ch

--------------------------------------------------------------------------------
TypeOK == ch \in [Channels -> ChannelType(Tasklets)]

(* The balance, which the code counts on its own by the direction a tasklet *)
(* notes on itself (Channel.cpp:387), is the number of waiting senders, or  *)
(* minus that of waiting receivers.                                        *)
BalanceOK == \A c \in Channels : ch[c].balance = Len(ch[c].send) - Len(ch[c].recv)

(* A sender and a receiver never wait for each other on the same channel,  *)
(* however they came to wait there.                                         *)
OneSide == \A c \in Channels : ch[c].send = <<>> \/ ch[c].recv = <<>>

(* Nobody waits on two channels.                                            *)
WaitsOnOne == \A t \in Tasklets : \A c, d \in Channels :
    Listed(c, t) /\ Listed(d, t) => c = d

(* close() counts as done only when nobody waits on the channel any more,  *)
(* and nobody waits on it afterwards.                                       *)
ClosedDrained == \A c \in Channels :
    ch[c].closed => ch[c].send = <<>> /\ ch[c].recv = <<>>
================================================================================
