----------------------------- MODULE TaskletChannels -----------------------------
(***************************************************************************)
(* Tasklets that meet on channels: Channel::Send, Receive, ClearBlocked,   *)
(* Close and Open on top of the scheduler of TaskletScheduler.  A send or  *)
(* receive that must wait blocks its tasklet and yields; the rest of the   *)
(* call runs when the tasklet is switched back to.                         *)
(***************************************************************************)
EXTENDS TaskletScheduler, Functions

Seqs == INSTANCE SequencesExt

(* The set of active channels holds those that exist. *)
ASSUME ChannelsAssumption == IsFiniteSet(Channels)

(* A null pointer is no message. *)
ASSUME MessageAssumption == NULL \notin Message

(* The rest of a channel operation of t on c. *)
Rest(k, t, c) == [k |-> k, t |-> t, c |-> c]

Closed(c) == ch[c].closed \/ ch[c].closing

(* UpdateCloseState after every change of a balance. *)
Without(c, t, dir) == UpdateCloseState(RemoveTaskletFromBlocked(ch[c], t, dir))

(* Faulty: the woken tasklet is marked, not the current one.               *)
PartnerMarked(p, t) == SetReschedule(InsertTaskletToRunNext(Unblock(q, p), p), p, "BACK")

(* Schedule(BACK) behind a partner that is to run next: the end of Send and *)
(* of Receive when the channel prefers the partner.                         *)
PartnerRunsNext(p, t) == SetReschedule(InsertTaskletToRunNext(Unblock(q, p), p), t, "BACK")

(* Faulty: the flag and the message stay.                                  *)
WithdrawnInPart(t) == [tk EXCEPT ![t].dir = "NEITHER"]

(* t's operation is given up. *)
Withdrawn(t) == [tk EXCEPT ![t].transfer = FALSE, ![t].dir = "NEITHER", ![t].args = NULL]

--------------------------------------------------------------------------------
(* Channel::Send. *)

SendRefused(c, m) ==
    /\ ch[c].recv = <<>>
    /\ tk[q.current].blockTrap \/ Closed(c)
    /\ tk' = [tk EXCEPT ![q.current].transfer = TRUE]
    /\ Answer(<<>>, "Error")
    /\ UNCHANGED <<q, gl, ch>>

SendBlocks(c, m) ==
    LET t == q.current
    IN  /\ ch[c].recv = <<>>
        /\ ~tk[t].blockTrap /\ ~Closed(c)
        /\ ch' = [ch EXCEPT ![c] = UpdateCloseState(AddTaskletToWaitingToSend(@, t))]
        /\ Yield(Block(q, t, c),
                 [tk EXCEPT ![t].transfer = TRUE, ![t].dir = "SENDER", ![t].args = m],
                 <<Rest("Send", t, c)>>)

(* Hand the message to the receiver that has waited longest. *)
SendDelivers(c, m) ==
    LET t == q.current
        r == Head(ch[c].recv)
        handed == [tk EXCEPT ![t].transfer = TRUE, ![r].dir = "NEITHER", ![r].args = m]
    IN  /\ ch[c].recv # <<>>
        /\ ch' = [ch EXCEPT ![c] = Without(c, r, tk[r].dir)]
        /\ IF ch[c].preference = "RECEIVER"
           THEN Yield(PartnerRunsNext(r, t),
                      handed, <<Rest("Send.delivered", t, c)>>)
           ELSE /\ q' = InsertTasklet(Unblock(q, r), r)
                /\ tk' = [handed EXCEPT ![t].transfer = FALSE]
                /\ Answer(<<>>, "ok")
                /\ UNCHANGED gl

Send(c, exception) ==
    /\ Calls(IF exception THEN "send_exception" ELSE "send")
    /\ LET m == [from |-> q.current, exception |-> exception]
       IN  SendRefused(c, m) \/ SendBlocks(c, m) \/ SendDelivers(c, m)
    /\ UNCHANGED mgr

SendReturns ==
    /\ AtThen("Send")
    /\ LET t == Top.t
       IN  IF ret = "ok"
           THEN /\ tk' = [tk EXCEPT ![t].transfer = FALSE]
                /\ ch' = [ch EXCEPT ![Top.c] = UpdateCloseState(@)]
                /\ q' = q
           ELSE /\ tk' = Withdrawn(t)
                /\ ch' = [ch EXCEPT ![Top.c] = Without(Top.c, t, tk[t].dir)]
                /\ q' = Unblock(q, t)
    /\ Return(ret)
    /\ UNCHANGED <<gl, mgr>>

(* If the sender is made to raise here, its transfer stays marked. *)
SendDeliveredReturns ==
    /\ AtThen("Send.delivered")
    /\ tk' = IF ret = "ok" THEN [tk EXCEPT ![Top.t].transfer = FALSE] ELSE tk
    /\ ch' = [ch EXCEPT ![Top.c] = UpdateCloseState(@)]
    /\ Return(ret)
    /\ UNCHANGED <<q, gl, mgr>>

--------------------------------------------------------------------------------
(* Channel::Receive. *)

(* The tasklet is put on the channel and taken off again. *)
ReceiveRefused(c) ==
    LET t == q.current
    IN  /\ ch[c].send = <<>>
        /\ tk[t].blockTrap \/ Closed(c)
        /\ tk' = [tk EXCEPT ![t].transfer = FALSE, ![t].dir = "NEITHER"]
        /\ Answer(<<>>, "Error")
        /\ UNCHANGED <<q, gl, ch>>

ReceiveBlocks(c) ==
    LET t == q.current
    IN  /\ ch[c].send = <<>>
        /\ ~tk[t].blockTrap /\ ~Closed(c)
        /\ ch' = [ch EXCEPT ![c] = UpdateCloseState(AddTaskletToWaitingToReceive(@, t))]
        /\ Yield(Block(q, t, c),
                 [tk EXCEPT ![t].transfer = TRUE, ![t].dir = "RECEIVER"],
                 <<Rest("Receive", t, c)>>)

(* The end of Receive: the message is returned, or raised. *)
Taken(t, tk0) == [tk0 EXCEPT ![t].transfer = FALSE, ![t].args = NULL]
Outcome(t, tk0) ==
    IF tk0[t].args = NULL THEN "Error"
    ELSE IF tk0[t].args.exception THEN "Error" ELSE "ok"

(* Only a receive that raises looks whether the channel is drained now. *)
Settled(c, r) == IF r = "Error" THEN [ch EXCEPT ![c] = UpdateCloseState(@)] ELSE ch

(* Take the message of the sender that has waited longest. *)
ReceiveTakes(c) ==
    LET t == q.current
        s == Head(ch[c].send)
        moved == [tk EXCEPT ![t].transfer = TRUE, ![t].args = tk[s].args,
                            ![s].transfer = FALSE, ![s].dir = "NEITHER", ![s].args = NULL]
    IN  /\ ch[c].send # <<>>
        /\ IF ch[c].preference = "SENDER"
           THEN /\ Yield(PartnerRunsNext(s, t),
                         moved, <<Rest("Receive.taken", t, c)>>)
                /\ ch' = [ch EXCEPT ![c] = Without(c, s, tk[s].dir)]
           ELSE /\ q' = InsertTasklet(Unblock(q, s), s)
                /\ tk' = Taken(t, moved)
                /\ ch' = [ch EXCEPT ![c] = Without(c, s, tk[s].dir)]
                /\ Answer(<<>>, Outcome(t, moved))
                /\ UNCHANGED gl

Receive(c) ==
    /\ Calls("receive")
    /\ ReceiveRefused(c) \/ ReceiveBlocks(c) \/ ReceiveTakes(c)
    /\ UNCHANGED mgr

ReceiveReturns ==
    /\ AtThen("Receive")
    /\ LET t == Top.t
       IN  IF ret = "ok"
           THEN /\ tk' = Taken(t, tk)
                /\ Return(Outcome(t, tk))
                /\ ch' = Settled(Top.c, Outcome(t, tk))
                /\ q' = q
           ELSE /\ tk' = Withdrawn(t)
                /\ ch' = [ch EXCEPT ![Top.c] = Without(Top.c, t, tk[t].dir)]
                /\ q' = Unblock(q, t)
                /\ Return(ret)
    /\ UNCHANGED <<gl, mgr>>

(* If the receiver is made to raise here, the message stays with it. *)
ReceiveTakenReturns ==
    /\ AtThen("Receive.taken")
    /\ LET t == Top.t
       IN  IF ret = "ok"
           THEN /\ tk' = Taken(t, tk)
                /\ Return(Outcome(t, tk))
                /\ ch' = Settled(Top.c, Outcome(t, tk))
           ELSE /\ ch' = [ch EXCEPT ![Top.c] = UpdateCloseState(@)]
                /\ Return(ret)
                /\ UNCHANGED tk
    /\ UNCHANGED <<q, gl, mgr>>

--------------------------------------------------------------------------------
(* Channel::ClearBlocked kills the waiting receivers until none is left,   *)
(* then the waiting senders, whatever Kill returns; an exception it left   *)
(* set surfaces at the end.  todo: the channels to be cleared in this call. *)
ClearFrame(todo) == [k |-> "Clear", todo |-> todo, senders |-> FALSE, failed |-> FALSE]

Clear(c) ==
    /\ Calls("clear")
    /\ Push(<<ClearFrame(<<c>>)>>)
    /\ UNCHANGED <<q, tk, gl, mgr, ch>>

(* Channel::UnblockAllActiveChannels: the channels are picked first, in the *)
(* order of a hash set, by a balance that may be another when their turn    *)
(* comes.                                                                   *)
UnblockAllActiveChannels ==
    /\ Calls("unblock_all")
    /\ LET blocked == {c \in Channels : ch[c].balance # 0}
       IN  IF blocked = {} THEN Answer(<<>>, "ok")
           ELSE \E order \in Seqs!SetToSeqs(blocked) : Push(<<ClearFrame(order)>>)
    /\ UNCHANGED <<q, tk, gl, mgr, ch>>

AtClear == ~q.nullDeref /\ stack[active] # <<>> /\ Top.k = "Clear"

ToBeCleared ==
    LET c == Head(Top.todo) IN IF Top.senders THEN ch[c].send ELSE ch[c].recv

ClearKills ==
    /\ AtClear
    /\ ret = "none" /\ ToBeCleared # <<>>
    /\ KillTasklet(Head(ToBeCleared), FALSE, <<>>)
    /\ UNCHANGED mgr

ClearGoesOn ==
    /\ AtClear
    /\ ret # "none"
    /\ Continue(<<[Top EXCEPT !.failed = @ \/ ret # "ok"]>> \o Tail(stack[active]), "none")
    /\ UNCHANGED <<q, tk, gl, mgr, ch>>

ClearTurns ==
    /\ AtClear
    /\ ret = "none" /\ ToBeCleared = <<>> /\ (~Top.senders \/ Len(Top.todo) > 1)
    /\ Continue(<<[Top EXCEPT !.todo = IF Top.senders THEN Tail(@) ELSE @,
                              !.senders = ~@]>> \o Tail(stack[active]), "none")
    /\ UNCHANGED <<q, tk, gl, mgr, ch>>

ClearEnds ==
    /\ AtClear
    /\ ret = "none" /\ ToBeCleared = <<>> /\ Top.senders /\ Len(Top.todo) = 1
    /\ Return(IF Top.failed THEN "Error" ELSE "ok")
    /\ UNCHANGED <<q, tk, gl, mgr, ch>>

Close(c) ==
    /\ Calls("close")
    /\ ch' = [ch EXCEPT ![c] = UpdateCloseState([@ EXCEPT !.closing = TRUE])]
    /\ Answer(<<>>, "ok")
    /\ UNCHANGED <<q, tk, gl, mgr>>

Open(c) ==
    /\ Calls("open")
    /\ ch' = [ch EXCEPT ![c].closing = FALSE, ![c].closed = FALSE]
    /\ Answer(<<>>, "ok")
    /\ UNCHANGED <<q, tk, gl, mgr>>

SetPreference(c, p) ==
    /\ Calls("preference")
    /\ ch' = [ch EXCEPT ![c].preference = p]
    /\ Answer(<<>>, "ok")
    /\ UNCHANGED <<q, tk, gl, mgr>>

SetBlocktrap(value) ==
    /\ Calls("block_trap")
    /\ tk' = [tk EXCEPT ![active].blockTrap = value]
    /\ Answer(<<>>, "ok")
    /\ UNCHANGED <<q, gl, mgr, ch>>

ChannelCalls ==
    \/ \E c \in Channels :
        \/ \E exception \in BOOLEAN : Send(c, exception)
        \/ Receive(c) \/ Clear(c) \/ Close(c) \/ Open(c)
        \/ \E p \in Direction : SetPreference(c, p)
    \/ UnblockAllActiveChannels
    \/ \E value \in BOOLEAN : SetBlocktrap(value)

ChannelSteps ==
    \/ SendReturns \/ SendDeliveredReturns \/ ReceiveReturns \/ ReceiveTakenReturns
    \/ ClearKills \/ ClearGoesOn \/ ClearTurns \/ ClearEnds

ChannelNext == Next \/ ChannelCalls \/ ChannelSteps

ChannelSpec == Init /\ [][ChannelNext]_vars

(* C++ code always runs on, an exception nobody catches ends its tasklet,   *)
(* and a tasklet that gets to run again and again ends some day.            *)
ChannelFairSpec ==
    /\ ChannelSpec
    /\ WF_vars(Scheduler \/ ChannelSteps)
    /\ WF_vars(Propagate)
    /\ \A t \in Tasklets : SF_vars(active = t /\ Finish)

--------------------------------------------------------------------------------
Book == INSTANCE ChannelBook

(* Whatever runs are suspended half way through Send and Receive, and       *)
(* whoever is killed or fails meanwhile, the channels change only by steps  *)
(* of ChannelBook: a tasklet waits in one list of one open channel that no  *)
(* partner waits on, the balance, counted by the direction it notes on      *)
(* itself, follows that list, and a closing channel is closed, by its       *)
(* balance, once the lists are empty.                                       *)
BookSpec == Book!Spec

(* The balance is the number of waiting senders, or minus that of waiting   *)
(* receivers, although it is counted by what tasklets note on themselves.   *)
BalanceOK == Book!BalanceOK

(* When Python code runs, a tasklet is marked blocked on a channel exactly *)
(* if that channel has it in one of its lists.                              *)
BlockedIsListed == InCode =>
    \A t \in Tasklets, c \in Channels :
        q.blockedOn[t] = c <=> t \in Range(ch[c].send) \cup Range(ch[c].recv)

(* A tasklet that is marked blocked executes no Python code, whoever has   *)
(* switched to it: Yield gives control away again until the mark is gone.   *)
BlockedDoesNotRun == InCode => ~IsBlocked(q, active)

(* A receiver that is woken without an exception has been given a message, *)
(* and a sender only after its message was taken: no send or receive comes  *)
(* back because its tasklet was switched to for some other reason.          *)
WokenByItsPartner ==
    /\ AtThen("Receive") /\ ret = "ok" => tk[Top.t].args # NULL
    /\ AtThen("Send") /\ ret = "ok" => tk[Top.t].args = NULL

(* A message is not overwritten by another before it is taken.              *)
KeptUntilTaken ==
    [][\A t \in Tasklets : tk[t].args # NULL => tk'[t].args \in {tk[t].args, NULL}]_vars

(* After its channel operations a tasklet has no transfer under way and no *)
(* message left over: the flag that keeps SwitchTo from taking a waiting    *)
(* tasklet for a finished one is not left behind.                           *)
TransferOver == InCode => ~tk[active].transfer /\ tk[active].args = NULL

(* main, blocked on a channel, comes back: with a message, or because       *)
(* nothing is left that could wake it.                                      *)
MainWakes == IsBlocked(q, Main) ~> InPython(Main)

(* clear() comes to an end: "all blocked tasklets will be killed".          *)
ClearReturns == Waiting(Main, "Clear") ~> InPython(Main)
================================================================================
