-------------------------- MODULE TaskletChannelsProofs --------------------------
(***************************************************************************)
(* Proofs about TaskletChannels without nesting, on top of those about the *)
(* scheduler: control stays where SchedulerProofs has it, now that calls   *)
(* of channels are suspended too, and whoever waits in a channel's list is *)
(* suspended in the send or receive that put it there: Books, which every  *)
(* step keeps.  TaskletBooksProofs puts the steps together.                *)
(***************************************************************************)
EXTENDS SchedulerProofs

--------------------------------------------------------------------------------
(* Fields of a tasklet that Send and Receive set. *)

SetTransfer(x, t, b) == [x EXCEPT ![t].transfer = b]
SetDir(x, t, d) == [x EXCEPT ![t].dir = d]
SetArgs(x, t, m) == [x EXCEPT ![t].args = m]

LEMMA FieldsStay ==
    ASSUME NEW x, TaskletsStay(x), NEW t \in Tasklets
    PROVE  /\ \A b \in BOOLEAN : TaskletsStay(SetTransfer(x, t, b))
           /\ \A d \in Direction : TaskletsStay(SetDir(x, t, d))
           /\ \A m \in Message \cup {NULL} : TaskletsStay(SetArgs(x, t, m))
           /\ \A b \in BOOLEAN : TaskletsStay([x EXCEPT ![t].blockTrap = b])
<1>1. x \in [Tasklets -> TaskletType] /\ x[t] \in TaskletType
  BY DEF TaskletsStay, TaskletsFit
<1>2. ASSUME NEW v \in TaskletType, v.parent = x[t].parent, v.exc = x[t].exc,
             NEW y, y = [x EXCEPT ![t] = v]
      PROVE  TaskletsStay(y)
  BY <1>2, TaskletStays
<1>3. ASSUME NEW b \in BOOLEAN PROVE TaskletsStay(SetTransfer(x, t, b))
  <2>. DEFINE v == [x[t] EXCEPT !.transfer = b]
  <2>1. v \in TaskletType /\ v.parent = x[t].parent /\ v.exc = x[t].exc
    BY <1>1 DEF TaskletType
  <2>2. SetTransfer(x, t, b) = [x EXCEPT ![t] = v]
    BY DEF SetTransfer
  <2>. HIDE DEF v
  <2>. QED
    BY <1>2, <2>1, <2>2
<1>4. ASSUME NEW b \in Direction PROVE TaskletsStay(SetDir(x, t, b))
  <2>. DEFINE v == [x[t] EXCEPT !.dir = b]
  <2>1. v \in TaskletType /\ v.parent = x[t].parent /\ v.exc = x[t].exc
    BY <1>1 DEF TaskletType
  <2>2. SetDir(x, t, b) = [x EXCEPT ![t] = v]
    BY DEF SetDir
  <2>. HIDE DEF v
  <2>. QED
    BY <1>2, <2>1, <2>2
<1>5. ASSUME NEW b \in Message \cup {NULL} PROVE TaskletsStay(SetArgs(x, t, b))
  <2>. DEFINE v == [x[t] EXCEPT !.args = b]
  <2>1. v \in TaskletType /\ v.parent = x[t].parent /\ v.exc = x[t].exc
    BY <1>1 DEF TaskletType
  <2>2. SetArgs(x, t, b) = [x EXCEPT ![t] = v]
    BY DEF SetArgs
  <2>. HIDE DEF v
  <2>. QED
    BY <1>2, <2>1, <2>2
<1>6. ASSUME NEW b \in BOOLEAN PROVE TaskletsStay([x EXCEPT ![t].blockTrap = b])
  <2>. DEFINE v == [x[t] EXCEPT !.blockTrap = b]
  <2>1. v \in TaskletType /\ v.parent = x[t].parent /\ v.exc = x[t].exc
    BY <1>1 DEF TaskletType
  <2>2. [x EXCEPT ![t].blockTrap = b] = [x EXCEPT ![t] = v]
    OBVIOUS
  <2>. HIDE DEF v
  <2>. QED
    BY <1>2, <2>1, <2>2
<1>. QED
  BY <1>3, <1>4, <1>5, <1>6

--------------------------------------------------------------------------------
(* The calls of channels, and what is left of them, keep control in place. *)

LEMMA ChannelsStay ==
    ASSUME ChannelsFit(ch), NEW c \in Channels, NEW t \in Tasklets, NEW dir
    PROVE  /\ Without(c, t, dir) \in ChannelType(Tasklets)
           /\ ChannelsFit([ch EXCEPT ![c] = Without(c, t, dir)])
           /\ ChannelsFit([ch EXCEPT ![c] = UpdateCloseState(@)])
           /\ ChannelsFit([ch EXCEPT ![c] = UpdateCloseState(AddTaskletToWaitingToSend(@, t))])
           /\ ChannelsFit([ch EXCEPT ![c] = UpdateCloseState(AddTaskletToWaitingToReceive(@, t))])
<1>1. ch[c] \in ChannelType(Tasklets)
  BY DEF ChannelsFit
<1>2. \A v \in ChannelType(Tasklets) : ChannelsFit([ch EXCEPT ![c] = v])
  BY ChannelStays
<1>3. /\ Without(c, t, dir) \in ChannelType(Tasklets)
      /\ UpdateCloseState(ch[c]) \in ChannelType(Tasklets)
      /\ UpdateCloseState(AddTaskletToWaitingToSend(ch[c], t)) \in ChannelType(Tasklets)
      /\ UpdateCloseState(AddTaskletToWaitingToReceive(ch[c], t)) \in ChannelType(Tasklets)
  BY <1>1, ChannelKeepsItsType DEF Without
<1>. QED
  BY <1>2, <1>3

LEMMA Waiters ==
    ASSUME ChannelsFit(ch), NEW c \in Channels
    PROVE  /\ ch[c].send # <<>> => Head(ch[c].send) \in Tasklets
           /\ ch[c].recv # <<>> => Head(ch[c].recv) \in Tasklets
BY DEF ChannelsFit, ChannelType

LEMMA RestsArePlain ==
    ASSUME NEW k \in {"Send", "Send.delivered", "Receive", "Receive.taken"},
           NEW t \in Tasklets, NEW c \in Channels
    PROVE  <<Rest(k, t, c)>> \in Seq(PlainFrames(Channels))
<1>1. Rest(k, t, c) \in PlainFrames(Channels)
  BY DEF Rest, PlainFrames
<1>. QED
  BY <1>1

(* A message, and where it may be. *)
LEMMA Messages ==
    ASSUME NEW t \in Tasklets, TaskletsStay(tk)
    PROVE  /\ \A e \in BOOLEAN : [from |-> t, exception |-> e] \in Message
           /\ tk[t].args \in Message \cup {NULL} /\ tk[t].dir \in Direction
BY DEF Message, TaskletsStay, TaskletsFit, TaskletType

LEMMA SendKeepsControl ==
    ASSUME Control(Channels), NEW c \in Channels, NEW exception \in BOOLEAN, Send(c, exception)
    PROVE  Control(Channels)'
<1>. DEFINE t == q.current
            m == [from |-> t, exception |-> exception]
<1>1. Calls(IF exception THEN "send_exception" ELSE "send") /\ mgr' = mgr
  BY DEF Send
<1>2. /\ stack[active] = <<>> /\ stack[active] \in Seq(PlainFrames(Channels))
      /\ stack[active] \in Rests(Channels, active)
      /\ t = active /\ active \in Tasklets /\ Safe(Channels, q) /\ TaskletsStay(tk)
      /\ GreenletsStay(gl) /\ ChannelsFit(ch)
  BY <1>1, CallIsMade
<1>3. m \in Message
  BY <1>2, Messages
<1>4. SendRefused(c, m) \/ SendBlocks(c, m) \/ SendDelivers(c, m)
  BY DEF Send
<1>. HIDE DEF m
<1>5. ASSUME SendRefused(c, m) PROVE Control(Channels)'
  <2>1. /\ Answer(<<>>, "Error") /\ q' = q /\ gl' = gl /\ ch' = ch
        /\ tk' = SetTransfer(tk, t, TRUE)
    BY <1>5 DEF SendRefused, SetTransfer
  <2>2. TaskletsStay(tk')
    BY <1>2, <2>1, FieldsStay
  <2>. QED
    BY <1>1, <1>2, <2>1, <2>2, SimpleOutcomes, NoConts, AnswerKeepsControl DEF Safe
<1>6. ASSUME SendBlocks(c, m) PROVE Control(Channels)'
  <2>. DEFINE tk0 == [tk EXCEPT ![t].transfer = TRUE, ![t].dir = "SENDER", ![t].args = m]
              q0 == Block(q, t, c)
  <2>1. /\ Yield(q0, tk0, <<Rest("Send", t, c)>>)
        /\ ch' = [ch EXCEPT ![c] = UpdateCloseState(AddTaskletToWaitingToSend(@, t))]
    BY <1>6 DEF SendBlocks
  <2>2. tk0 = SetArgs(SetDir(SetTransfer(tk, t, TRUE), t, "SENDER"), t, m)
    BY DEF SetTransfer, SetDir, SetArgs
  <2>. HIDE DEF tk0
  <2>3. TaskletsStay(tk0)
    <3>1. TaskletsStay(SetTransfer(tk, t, TRUE))
      BY <1>2, FieldsStay
    <3>2. TaskletsStay(SetDir(SetTransfer(tk, t, TRUE), t, "SENDER"))
      BY <1>2, <3>1, FieldsStay DEF Direction
    <3>. QED
      BY <1>2, <1>3, <2>2, <3>2, FieldsStay
  <2>4. Safe(Channels, q0)
    BY <1>2, SafeSteps
  <2>5. ChannelsFit(ch')
    BY <1>2, <2>1, ChannelsStay
  <2>. HIDE DEF q0
  <2>. QED
    BY <1>1, <1>2, <2>1, <2>3, <2>4, <2>5, RestsArePlain, YieldKeepsControl DEF Safe
<1>7. ASSUME SendDelivers(c, m) PROVE Control(Channels)'
  <2>. DEFINE r == Head(ch[c].recv)
              handed == [tk EXCEPT ![t].transfer = TRUE, ![r].dir = "NEITHER", ![r].args = m]
  <2>1. /\ ch[c].recv # <<>> /\ ch' = [ch EXCEPT ![c] = Without(c, r, tk[r].dir)]
        /\ \/ Yield(PartnerRunsNext(r, t), handed, <<Rest("Send.delivered", t, c)>>)
           \/ /\ q' = InsertTasklet(Unblock(q, r), r)
              /\ tk' = [handed EXCEPT ![t].transfer = FALSE]
              /\ Answer(<<>>, "ok") /\ gl' = gl
    BY <1>7 DEF SendDelivers
  <2>2. r \in Tasklets
    BY <1>2, <2>1, Waiters
  <2>3. handed = SetArgs(SetDir(SetTransfer(tk, t, TRUE), r, "NEITHER"), r, m)
    BY DEF SetTransfer, SetDir, SetArgs
  <2>. HIDE DEF handed, r
  <2>4. TaskletsStay(handed)
    <3>1. TaskletsStay(SetTransfer(tk, t, TRUE))
      BY <1>2, FieldsStay
    <3>2. TaskletsStay(SetDir(SetTransfer(tk, t, TRUE), r, "NEITHER"))
      BY <2>2, <3>1, FieldsStay DEF Direction
    <3>. QED
      BY <1>3, <2>2, <2>3, <3>2, FieldsStay
  <2>5. ChannelsFit(ch')
    BY <1>2, <2>1, <2>2, ChannelsStay
  <2>6. Safe(Channels, Unblock(q, r))
    BY <1>2, <2>2, SafeSteps
  <2>7. Safe(Channels, InsertTasklet(Unblock(q, r), r)) /\ Safe(Channels, PartnerRunsNext(r, t))
    <3>1. /\ Safe(Channels, InsertTasklet(Unblock(q, r), r))
          /\ Safe(Channels, InsertTaskletToRunNext(Unblock(q, r), r))
      BY <1>2, <2>2, <2>6, SafeSteps
    <3>. QED
      BY <1>2, <3>1, SafeSteps DEF PartnerRunsNext
  <2>8. TaskletsStay([handed EXCEPT ![t].transfer = FALSE])
    BY <1>2, <2>4, FieldsStay DEF SetTransfer
  <2>. QED
    BY <1>1, <1>2, <2>1, <2>2, <2>4, <2>5, <2>7, <2>8, SimpleOutcomes, NoConts, RestsArePlain,
       YieldKeepsControl, AnswerKeepsControl DEF Safe
<1>. QED
  BY <1>4, <1>5, <1>6, <1>7

LEMMA ReceiveKeepsControl ==
    ASSUME Control(Channels), NEW c \in Channels, Receive(c)
    PROVE  Control(Channels)'
<1>. DEFINE t == q.current
<1>1. Calls("receive") /\ mgr' = mgr /\ (ReceiveRefused(c) \/ ReceiveBlocks(c) \/ ReceiveTakes(c))
  BY DEF Receive
<1>2. /\ stack[active] = <<>> /\ stack[active] \in Seq(PlainFrames(Channels))
      /\ stack[active] \in Rests(Channels, active)
      /\ t = active /\ active \in Tasklets /\ Safe(Channels, q) /\ TaskletsStay(tk)
      /\ GreenletsStay(gl) /\ ChannelsFit(ch)
  BY <1>1, CallIsMade
<1>3. ASSUME ReceiveRefused(c) PROVE Control(Channels)'
  <2>1. /\ Answer(<<>>, "Error") /\ q' = q /\ gl' = gl /\ ch' = ch
        /\ tk' = SetDir(SetTransfer(tk, t, FALSE), t, "NEITHER")
    BY <1>3 DEF ReceiveRefused, SetTransfer, SetDir
  <2>2. TaskletsStay(SetTransfer(tk, t, FALSE))
    BY <1>2, FieldsStay
  <2>3. TaskletsStay(tk')
    BY <1>2, <2>1, <2>2, FieldsStay DEF Direction
  <2>. QED
    BY <1>1, <1>2, <2>1, <2>3, SimpleOutcomes, NoConts, AnswerKeepsControl DEF Safe
<1>4. ASSUME ReceiveBlocks(c) PROVE Control(Channels)'
  <2>. DEFINE tk0 == [tk EXCEPT ![t].transfer = TRUE, ![t].dir = "RECEIVER"]
              q0 == Block(q, t, c)
  <2>1. /\ Yield(q0, tk0, <<Rest("Receive", t, c)>>)
        /\ ch' = [ch EXCEPT ![c] = UpdateCloseState(AddTaskletToWaitingToReceive(@, t))]
    BY <1>4 DEF ReceiveBlocks
  <2>2. tk0 = SetDir(SetTransfer(tk, t, TRUE), t, "RECEIVER")
    BY DEF SetTransfer, SetDir
  <2>. HIDE DEF tk0
  <2>3. TaskletsStay(SetTransfer(tk, t, TRUE))
    BY <1>2, FieldsStay
  <2>4. TaskletsStay(tk0)
    BY <1>2, <2>2, <2>3, FieldsStay DEF Direction
  <2>5. Safe(Channels, q0)
    BY <1>2, SafeSteps
  <2>6. ChannelsFit(ch')
    BY <1>2, <2>1, ChannelsStay
  <2>. HIDE DEF q0
  <2>. QED
    BY <1>1, <1>2, <2>1, <2>4, <2>5, <2>6, RestsArePlain, YieldKeepsControl DEF Safe
<1>5. ASSUME ReceiveTakes(c) PROVE Control(Channels)'
  <2>. DEFINE s == Head(ch[c].send)
              n == tk[s].args
              moved == [tk EXCEPT ![t].transfer = TRUE, ![t].args = n,
                                  ![s].transfer = FALSE, ![s].dir = "NEITHER", ![s].args = NULL]
  <2>1. /\ ch[c].send # <<>> /\ ch' = [ch EXCEPT ![c] = Without(c, s, tk[s].dir)]
        /\ \/ Yield(PartnerRunsNext(s, t), moved, <<Rest("Receive.taken", t, c)>>)
           \/ /\ q' = InsertTasklet(Unblock(q, s), s) /\ tk' = Taken(t, moved)
              /\ Answer(<<>>, Outcome(t, moved)) /\ gl' = gl
    BY <1>5 DEF ReceiveTakes
  <2>2. s \in Tasklets
    BY <1>2, <2>1, Waiters
  <2>3. n \in Message \cup {NULL}
    BY <1>2, <2>2, Messages
  <2>. HIDE DEF n
  <2>4. moved = SetArgs(SetDir(SetTransfer(SetArgs(SetTransfer(tk, t, TRUE), t, n), s, FALSE),
                               s, "NEITHER"), s, NULL)
    BY DEF SetTransfer, SetDir, SetArgs
  <2>. HIDE DEF moved, s
  <2>5. TaskletsStay(moved)
    <3>1. TaskletsStay(SetTransfer(tk, t, TRUE))
      BY <1>2, FieldsStay
    <3>. DEFINE x1 == SetTransfer(tk, t, TRUE)
                x2 == SetArgs(x1, t, n)
                x3 == SetTransfer(x2, s, FALSE)
                x4 == SetDir(x3, s, "NEITHER")
    <3>. HIDE DEF x1
    <3>2. TaskletsStay(x2)
      BY <1>2, <2>3, <3>1, FieldsStay DEF x1
    <3>. HIDE DEF x2
    <3>3. TaskletsStay(x3)
      BY <2>2, <3>2, FieldsStay
    <3>. HIDE DEF x3
    <3>4. TaskletsStay(x4)
      BY <2>2, <3>3, FieldsStay DEF Direction
    <3>. HIDE DEF x4
    <3>5. moved = SetArgs(x4, s, NULL)
      BY <2>4 DEF x1, x2, x3, x4
    <3>. QED
      BY <2>2, <3>4, <3>5, FieldsStay
  <2>. DEFINE x == SetTransfer(moved, t, FALSE)
  <2>6. Taken(t, moved) = SetArgs(x, t, NULL)
    BY DEF Taken, SetTransfer, SetArgs
  <2>7. TaskletsStay(x)
    BY <1>2, <2>5, FieldsStay
  <2>. HIDE DEF x
  <2>8. TaskletsStay(Taken(t, moved))
    BY <1>2, <2>6, <2>7, FieldsStay
  <2>9. ChannelsFit(ch')
    BY <1>2, <2>1, <2>2, ChannelsStay
  <2>10. Safe(Channels, Unblock(q, s))
    BY <1>2, <2>2, SafeSteps
  <2>11. Safe(Channels, InsertTasklet(Unblock(q, s), s)) /\ Safe(Channels, PartnerRunsNext(s, t))
    <3>1. /\ Safe(Channels, InsertTasklet(Unblock(q, s), s))
          /\ Safe(Channels, InsertTaskletToRunNext(Unblock(q, s), s))
      BY <1>2, <2>2, <2>10, SafeSteps
    <3>. QED
      BY <1>2, <3>1, SafeSteps DEF PartnerRunsNext
  <2>12. Outcome(t, moved) \in Outcomes
    BY SimpleOutcomes DEF Outcome
  <2>. QED
    BY <1>1, <1>2, <2>1, <2>2, <2>5, <2>8, <2>9, <2>11, <2>12, NoConts, RestsArePlain,
       YieldKeepsControl, AnswerKeepsControl DEF Safe
<1>. QED
  BY <1>1, <1>3, <1>4, <1>5

(* What is left of a channel operation has its tasklet and its channel. *)
LEMMA RestOnTop ==
    ASSUME Control(Channels), NEW k \in {"Send", "Send.delivered", "Receive", "Receive.taken"},
           AtThen(k)
    PROVE  /\ stack[active] # <<>> /\ stack[active] \in Rests(Channels, active)
           /\ Top.k = k /\ k \notin Limited /\ Top.t \in Tasklets /\ Top.c \in Channels
           /\ q.current = active /\ active \in Tasklets /\ Safe(Channels, q) /\ TaskletsStay(tk)
           /\ GreenletsStay(gl) /\ ChannelsFit(ch) /\ ret \in Outcomes
<1>1. stack[active] # <<>> /\ Top.k = k
  BY DEF AtThen
<1>2. stack[active] \in Rests(Channels, active) /\ Top \in PlainFrames(Channels)
  BY <1>1, RestOfACall DEF Limited
<1>3. Top.t \in Tasklets /\ Top.c \in Channels
  BY <1>1, <1>2 DEF PlainFrames
<1>. QED
  BY <1>1, <1>2, <1>3, InPlace, RetIsAnOutcome DEF Limited

LEMMA WithdrawnStays ==
    ASSUME TaskletsStay(tk), NEW t \in Tasklets
    PROVE  /\ TaskletsStay(Withdrawn(t)) /\ TaskletsStay(Taken(t, tk))
           /\ TaskletsStay([tk EXCEPT ![t].transfer = FALSE])
<1>. DEFINE x1 == SetTransfer(tk, t, FALSE)
            x2 == SetDir(x1, t, "NEITHER")
<1>1. TaskletsStay(x1)
  BY FieldsStay
<1>. HIDE DEF x1
<1>2. TaskletsStay(x2) /\ TaskletsStay(SetArgs(x1, t, NULL))
  BY <1>1, FieldsStay DEF Direction
<1>. HIDE DEF x2
<1>3. TaskletsStay(SetArgs(x2, t, NULL))
  BY <1>2, FieldsStay
<1>4. /\ Withdrawn(t) = SetArgs(x2, t, NULL) /\ Taken(t, tk) = SetArgs(x1, t, NULL)
      /\ [tk EXCEPT ![t].transfer = FALSE] = x1
  BY DEF Withdrawn, Taken, SetArgs, SetDir, SetTransfer, x1, x2
<1>. QED
  BY <1>1, <1>2, <1>3, <1>4

LEMMA RestsKeepControl ==
    ASSUME Control(Channels),
           SendReturns \/ SendDeliveredReturns \/ ReceiveReturns \/ ReceiveTakenReturns
    PROVE  Control(Channels)'
<1>1. PICK k \in {"Send", "Send.delivered", "Receive", "Receive.taken"} : AtThen(k)
  BY DEF SendReturns, SendDeliveredReturns, ReceiveReturns, ReceiveTakenReturns
<1>. DEFINE t == Top.t
            c == Top.c
<1>2. /\ stack[active] # <<>> /\ stack[active] \in Rests(Channels, active)
      /\ Top.k \notin Limited /\ t \in Tasklets /\ c \in Channels
      /\ q.current = active /\ Safe(Channels, q) /\ TaskletsStay(tk)
      /\ GreenletsStay(gl) /\ ChannelsFit(ch) /\ ret \in Outcomes
  BY <1>1, RestOnTop
<1>3. /\ Safe(Channels, Unblock(q, t)) /\ TaskletsStay(Withdrawn(t)) /\ TaskletsStay(Taken(t, tk))
      /\ TaskletsStay([tk EXCEPT ![t].transfer = FALSE])
      /\ ChannelsFit([ch EXCEPT ![c] = UpdateCloseState(@)])
      /\ ChannelsFit([ch EXCEPT ![c] = Without(c, t, tk[t].dir)])
  BY <1>2, SafeSteps, WithdrawnStays, ChannelsStay
<1>4. /\ Outcome(t, tk) \in Outcomes
      /\ \A r : ChannelsFit(Settled(c, r))
  BY <1>2, <1>3, SimpleOutcomes DEF Outcome, Settled
<1>5. /\ gl' = gl /\ mgr' = mgr
      /\ q' \in {q, Unblock(q, t)}
      /\ tk' \in {tk, Withdrawn(t), Taken(t, tk), [tk EXCEPT ![t].transfer = FALSE]}
      /\ ChannelsFit(ch')
      /\ \E r \in Outcomes : Return(r)
  <2>1. ASSUME SendReturns
        PROVE  /\ gl' = gl /\ mgr' = mgr
               /\ \/ q' = q /\ tk' = [tk EXCEPT ![t].transfer = FALSE] /\ ch' = [ch EXCEPT ![c] = UpdateCloseState(@)]
                  \/ q' = Unblock(q, t) /\ tk' = Withdrawn(t) /\ ch' = [ch EXCEPT ![c] = Without(c, t, tk[t].dir)]
               /\ Return(ret)
    BY <2>1 DEF SendReturns
  <2>2. ASSUME SendDeliveredReturns
        PROVE  /\ gl' = gl /\ mgr' = mgr /\ q' = q
               /\ tk' = tk \/ tk' = [tk EXCEPT ![t].transfer = FALSE]
               /\ ch' = [ch EXCEPT ![c] = UpdateCloseState(@)]
               /\ Return(ret)
    BY <2>2 DEF SendDeliveredReturns
  <2>3. ASSUME ReceiveReturns
        PROVE  /\ gl' = gl /\ mgr' = mgr
               /\ \/ q' = q /\ tk' = Taken(t, tk) /\ ch' = Settled(c, Outcome(t, tk)) /\ Return(Outcome(t, tk))
                  \/ q' = Unblock(q, t) /\ tk' = Withdrawn(t) /\ ch' = [ch EXCEPT ![c] = Without(c, t, tk[t].dir)]
                     /\ Return(ret)
    BY <2>3 DEF ReceiveReturns
  <2>4. ASSUME ReceiveTakenReturns
        PROVE  /\ gl' = gl /\ mgr' = mgr /\ q' = q
               /\ \/ tk' = Taken(t, tk) /\ ch' = Settled(c, Outcome(t, tk)) /\ Return(Outcome(t, tk))
                  \/ tk' = tk /\ ch' = [ch EXCEPT ![c] = UpdateCloseState(@)] /\ Return(ret)
    BY <2>4 DEF ReceiveTakenReturns
  <2>. HIDE DEF t, c
  <2>. QED
    BY <1>1, <1>2, <1>3, <1>4, <2>1, <2>2, <2>3, <2>4
<1>. HIDE DEF t, c
<1>6. Safe(Channels, q') /\ TaskletsStay(tk')
  BY <1>2, <1>3, <1>5
<1>7. PICK r \in Outcomes : Return(r)
  BY <1>5
<1>. QED
  BY <1>2, <1>5, <1>6, <1>7, ReturnKeepsControl DEF Safe, Top

--------------------------------------------------------------------------------
(* Whose frames there are. *)

ChannelRests == {"Send", "Send.delivered", "Receive", "Receive.taken"}

(* X: the tasklets that are marked blocked again if a kill of them fails. *)
Owns(X, t, f) ==
    /\ f.k \in ChannelRests => f.t = t
    /\ f.k = "Clear" => t = Main /\ MainOps \cap {"clear", "unblock_all"} # {}
    /\ f.k = "Kill" => f.t # t /\ (f.c # NULL => f.t \in X)
    /\ f.k = "Kill" /\ NoThrow =>
          \/ t # Main /\ "kill" \in TaskletOps
          \/ t = Main /\ MainOps \cap {"kill", "clear", "unblock_all"} # {}

Own(X, t, s) == \A i \in DOMAIN s : Owns(X, t, s[i])

OwnedFrames(X) == \A t \in Tasklets : Own(X, t, stack[t])

OwnFrames == OwnedFrames(Tasklets)

MarkedIn(X) == \A t \in Tasklets : q.blockedOn[t] # NULL => t \in X

LEMMA OwnParts ==
    ASSUME NEW X, NEW t
    PROVE  /\ Own(X, t, <<>>)
           /\ \A f : Owns(X, t, f) => <<f>> \in Seq({f}) /\ Own(X, t, <<f>>)
           /\ \A f, g : Owns(X, t, f) /\ Owns(X, t, g)
                       => <<f, g>> \in Seq({f, g}) /\ Own(X, t, <<f, g>>)
BY DEF Own

LEMMA OwnTogether ==
    ASSUME NEW X, NEW S, NEW T, NEW t, NEW s \in Seq(S), NEW r \in Seq(T)
    PROVE  /\ Own(X, t, s) /\ Own(X, t, r) => Own(X, t, s \o r)
           /\ s # <<>> /\ Own(X, t, s) => Own(X, t, Tail(s)) /\ Owns(X, t, Head(s))
BY DEF Own

(* Frames that belong to whoever has them. *)
LEMMA AnyonesFrames ==
    ASSUME NEW X, NEW t, NEW f, f.k \notin ChannelRests \cup {"Clear", "Kill"}
    PROVE  Owns(X, t, f)
BY DEF Owns, ChannelRests

LEMMA OwnKept ==
    ASSUME NEW X, NEW C, Control(C), OwnedFrames(X), NEW s, stack' = [stack EXCEPT ![active] = s],
           Own(X, active, s)
    PROVE  OwnedFrames(X)'
<1>1. /\ stack'[active] = s /\ \A t \in Tasklets \ {active} : stack'[t] = stack[t]
  BY DEF Control, Types, Stacks
<1>2. \A t \in Tasklets : Own(X, t, stack'[t])
  BY <1>1 DEF OwnedFrames
<1>3. OwnedFrames(X)' <=> \A t \in Tasklets : Own(X, t, stack'[t])
  BY DEF OwnedFrames, Own, Owns, ChannelRests, NoThrow, AllOps
<1>. QED
  BY <1>2, <1>3

LEMMA CallsOwn ==
    ASSUME NEW X, NEW C, Control(C), OwnedFrames(X), NEW S, NEW fs \in Seq(S), Own(X, active, fs), NEW r,
           Continue(fs \o stack[active], r)
    PROVE  OwnedFrames(X)'
<1>. DEFINE T == Switching(active) \cup PlainFrames(C) \cup LimitedFrames
<1>1. stack[active] \in Seq(T) /\ Own(X, active, stack[active])
  BY StackIsASequence DEF Control, Types, OwnedFrames
<1>. HIDE DEF T
<1>2. Own(X, active, fs \o stack[active])
  BY <1>1, OwnTogether
<1>. QED
  BY <1>2, OwnKept DEF Continue

LEMMA ReturnsOwn ==
    ASSUME NEW X, NEW C, Control(C), OwnedFrames(X), stack[active] # <<>>, NEW r,
           \/ Return(r)
           \/ \E f : Owns(X, active, f) /\ Continue(<<f>> \o Tail(stack[active]), r)
    PROVE  OwnedFrames(X)'
<1>. DEFINE T == Switching(active) \cup PlainFrames(C) \cup LimitedFrames
<1>1. stack[active] \in Seq(T) /\ Own(X, active, stack[active])
  BY StackIsASequence DEF Control, Types, OwnedFrames
<1>. HIDE DEF T
<1>2. Own(X, active, Tail(stack[active])) /\ Tail(stack[active]) \in Seq(T)
  BY <1>1, OwnTogether
<1>3. ASSUME NEW f, Owns(X, active, f) PROVE Own(X, active, <<f>> \o Tail(stack[active]))
  <2>1. <<f>> \in Seq({f}) /\ Own(X, active, <<f>>)
    BY <1>3, OwnParts
  <2>. QED
    BY <1>2, <2>1, OwnTogether
<1>. QED
  BY <1>2, <1>3, OwnKept DEF Return, Continue

(* The frames that Run, Yield and the limited runs leave behind. *)
LEMMA FramesOfRuns ==
    ASSUME NEW X, NEW t
    PROVE  /\ \A b, e, u : Owns(X, t, RunFrame(b, e, u))
           /\ \A s : Owns(X, t, YieldFrame(s))
           /\ \A k \in {"Yield.main", "RunNTasklets", "RunTaskletsForTime"} : \A s : Owns(X, t, Then(k, s))
BY AnyonesFrames DEF RunFrame, YieldFrame, Then, ChannelRests

LEMMA YieldOwn ==
    ASSUME NEW X, NEW C, Control(C), OwnedFrames(X), NEW S, NEW conts \in Seq(S), Own(X, active, conts),
           NEW q0, NEW tk0, Yield(q0, tk0, conts)
    PROVE  OwnedFrames(X)'
<1>. DEFINE y == <<YieldFrame(q0.current)>>
            f == RunFrame(Main, NULL, IsBlocked(q0, Main))
            wait == IF IsBlocked(q0, Main) THEN <<Then("Yield.main", Main)>> ELSE <<>>
<1>1. \/ Push(y \o conts) \/ Answer(conts, "Error") \/ Push((<<f>> \o wait) \o conts)
  BY DEF Yield
<1>2. y \in Seq({YieldFrame(q0.current)}) /\ Own(X, active, y)
  BY FramesOfRuns, OwnParts
<1>3. <<f>> \in Seq({f}) /\ Own(X, active, <<f>>)
  BY FramesOfRuns, OwnParts
<1>4. wait \in Seq({Then("Yield.main", Main)}) /\ Own(X, active, wait)
  <2>. DEFINE g == Then("Yield.main", Main)
  <2>1. Owns(X, active, g)
    BY FramesOfRuns
  <2>. HIDE DEF g
  <2>2. <<g>> \in Seq({g}) /\ Own(X, active, <<g>>) /\ <<>> \in Seq({g}) /\ Own(X, active, <<>>)
    BY <2>1, OwnParts
  <2>. QED
    BY <2>2 DEF g
<1>. HIDE DEF y, f, wait
<1>5. \A A, B : \A a \in Seq(A), b \in Seq(B) : a \o b \in Seq(A \cup B)
  OBVIOUS
<1>6. y \o conts \in Seq({YieldFrame(q0.current)} \cup S) /\ Own(X, active, y \o conts)
  BY <1>2, <1>5, OwnTogether
<1>7. <<f>> \o wait \in Seq({f} \cup {Then("Yield.main", Main)}) /\ Own(X, active, <<f>> \o wait)
  BY <1>3, <1>4, <1>5, OwnTogether
<1>8. /\ (<<f>> \o wait) \o conts \in Seq(({f} \cup {Then("Yield.main", Main)}) \cup S)
      /\ Own(X, active, (<<f>> \o wait) \o conts)
  BY <1>5, <1>7, OwnTogether
<1>. QED
  BY <1>1, <1>6, <1>8, CallsOwn DEF Push, Answer

LEMMA RunTaskletOwn ==
    ASSUME NEW X, NEW C, Control(C), OwnedFrames(X), ~Nested, NEW S, NEW conts \in Seq(S), Own(X, active, conts),
           NEW q0, NEW tk0, NEW t, RunTasklet(t, q0, tk0, conts)
    PROVE  OwnedFrames(X)'
BY YieldOwn, CallsOwn DEF RunTasklet, Answer

LEMMA KillTaskletOwn ==
    ASSUME NEW X, NEW C, Control(C), OwnedFrames(X), ~Nested, NEW S, NEW conts \in Seq(S), Own(X, active, conts),
           NEW t, NEW pending, stack[active] \in Rests(C, active), KillTasklet(t, pending, conts),
           q.blockedOn[t] # NULL => t \in X,
           ~pending => \/ active # Main /\ "kill" \in TaskletOps
                       \/ active = Main /\ MainOps \cap {"kill", "clear", "unblock_all"} # {}
    PROVE  OwnedFrames(X)'
<1>. DEFINE f == RestoreBlocked(t, q.blockedOn[t])
            tk0 == [tk EXCEPT ![t].exc = "TaskletExit"]
            quiet == SetReschedule(Unblock(q, t), t, "NONE")
<1>1. q.current = active
  BY InPlace
<1>2. \/ \E r : Answer(conts, r)
      \/ ~pending /\ t # active /\ RunTasklet(t, quiet, tk0, <<f>> \o conts)
  BY <1>1 DEF KillTasklet
<1>3. ASSUME ~pending, t # active PROVE <<f>> \o conts \in Seq({f} \cup S) /\ Own(X, active, <<f>> \o conts)
  <2>1. Owns(X, active, f)
    BY <1>3 DEF RestoreBlocked, Owns, ChannelRests
  <2>. HIDE DEF f
  <2>2. <<f>> \in Seq({f}) /\ Own(X, active, <<f>>)
    BY <2>1, OwnParts
  <2>3. Own(X, active, <<f>> \o conts)
    BY <2>2, OwnTogether
  <2>4. \A A, B : \A a \in Seq(A), b \in Seq(B) : a \o b \in Seq(A \cup B)
    OBVIOUS
  <2>. QED
    BY <2>2, <2>3, <2>4
<1>. HIDE DEF f, tk0, quiet
<1>. QED
  BY <1>2, <1>3, RunTaskletOwn, CallsOwn DEF Answer

LEMMA NothingLeft == <<>> \in Seq({}) /\ \A X, t : Own(X, t, <<>>)
BY OwnParts

LEMMA PythonOwn ==
    ASSUME NEW X, NEW C \in SUBSET Channels, Control(C), OwnedFrames(X), MarkedIn(X), Flat, Python
    PROVE  OwnedFrames(X)'
<1>1. ~Nested
  BY DEF Flat
<1>2. ASSUME NEW op, Calls(op)
      PROVE  stack[active] \in Rests(C, active) /\ CalledBy(op) /\ q.current = active
  BY <1>2, CallIsMade
<1>3. \A r : Answer(<<>>, r) => OwnedFrames(X)'
  BY NothingLeft, CallsOwn DEF Answer
<1>4. ASSUME Schedule \/ ScheduleRemove PROVE OwnedFrames(X)'
  <2>1. \E q0, tk0 : Yield(q0, tk0, <<>>)
    BY <1>4 DEF Schedule, ScheduleRemove
  <2>. QED
    BY <2>1, NothingLeft, YieldOwn
<1>5. ASSUME NEW t \in Tasklets, Run(t) PROVE OwnedFrames(X)'
  <2>1. RunTasklet(t, q, tk, <<>>)
    BY <1>5 DEF Run
  <2>. QED
    BY <1>1, <2>1, NothingLeft, RunTaskletOwn
<1>6. ASSUME NEW t \in Tasklets, Setup(t) \/ Bind(t) \/ Unbind(t) \/ Insert(t) \/ Remove(t)
      PROVE  OwnedFrames(X)'
  <2>1. \E r : Answer(<<>>, r)
    BY <1>6 DEF Setup, Bind, Unbind, Insert, Remove
  <2>. QED
    BY <1>3, <2>1
<1>7. ASSUME NEW t \in Tasklets, Switch(t) PROVE FALSE
  BY <1>7, CallIsMade, FlatCalls DEF Switch
<1>8. ASSUME NEW t \in Tasklets, NEW pending \in BOOLEAN, Kill(t, pending) PROVE OwnedFrames(X)'
  <2>1. Calls(IF pending THEN "kill_pending" ELSE "kill") /\ KillTasklet(t, pending, <<>>)
    BY <1>8 DEF Kill
  <2>2. stack[active] \in Rests(C, active) /\ (~pending => CalledBy("kill"))
    BY <1>2, <2>1
  <2>3. ~pending => \/ active # Main /\ "kill" \in TaskletOps
                    \/ active = Main /\ MainOps \cap {"kill", "clear", "unblock_all"} # {}
    BY <2>2 DEF CalledBy
  <2>. QED
    BY <1>1, <2>1, <2>2, <2>3, NothingLeft, KillTaskletOwn DEF MarkedIn
<1>9. ASSUME NEW t \in Tasklets, NEW pending \in BOOLEAN, Throw(t, pending) PROVE OwnedFrames(X)'
  <2>. DEFINE thrown == [tk EXCEPT ![t].exc = "Error"]
              f == RestoreBlocked(t, q.blockedOn[t])
              rest == IF IsBlocked(q, t) THEN <<f>> ELSE <<>>
  <2>1. \E op \in {"throw", "throw_queued", "throw_pending"} : Calls(op)
    BY <1>9 DEF Throw
  <2>2. q.current = active /\ ~NoThrow
    BY <1>2, <2>1 DEF CalledBy, NoThrow, AllOps
  <2>3. (\E r : Answer(<<>>, r)) \/ (t # active /\ RunTasklet(t, Unblock(q, t), thrown, rest))
    BY <1>9, <2>2 DEF Throw
  <2>4. t # active => Owns(X, active, f)
    BY <2>2 DEF RestoreBlocked, Owns, ChannelRests, MarkedIn
  <2>. HIDE DEF f
  <2>5. t # active => rest \in Seq({f}) /\ Own(X, active, rest)
    <3>1. <<>> \in Seq({f}) /\ Own(X, active, <<>>)
      BY OwnParts
    <3>2. t # active => <<f>> \in Seq({f}) /\ Own(X, active, <<f>>)
      BY <2>4, OwnParts
    <3>. QED
      BY <3>1, <3>2
  <2>. HIDE DEF rest, thrown
  <2>. QED
    BY <1>1, <1>3, <2>3, <2>5, RunTaskletOwn
<1>10. ASSUME RunScheduler \/ (\E n \in 1..MaxLimit : RunNTasklets(n)) \/ RunTaskletsForTime
       PROVE  OwnedFrames(X)'
  <2>. DEFINE f == RunFrame(q.current, NULL, FALSE)
  <2>1. Push(<<f>>) \/ \E k \in {"RunNTasklets", "RunTaskletsForTime"} : Push(<<f, Then(k, NULL)>>)
    BY <1>10 DEF RunScheduler, RunNTasklets, RunTaskletsForTime
  <2>2. Owns(X, active, f)
    BY FramesOfRuns
  <2>. HIDE DEF f
  <2>3. <<f>> \in Seq({f}) /\ Own(X, active, <<f>>)
    BY <2>2, OwnParts
  <2>4. ASSUME NEW k \in {"RunNTasklets", "RunTaskletsForTime"}
        PROVE  <<f, Then(k, NULL)>> \in Seq({f, Then(k, NULL)}) /\ Own(X, active, <<f, Then(k, NULL)>>)
    BY <2>2, FramesOfRuns, OwnParts
  <2>. QED
    BY <2>1, <2>3, <2>4, CallsOwn DEF Push
<1>11. ASSUME (\E delta \in {-1, 1} : SwitchTrap(delta)) \/ Catch PROVE OwnedFrames(X)'
  BY <1>3, <1>11 DEF SwitchTrap, Catch
<1>12. ASSUME Finish \/ Raise \/ Propagate \/ Swallow PROVE OwnedFrames(X)'
  BY <1>12 DEF Finish, Raise, Propagate, Swallow, Dies, OwnedFrames, Own, Owns, ChannelRests, NoThrow, AllOps
<1>. QED
  BY <1>4, <1>5, <1>6, <1>7, <1>8, <1>9, <1>10, <1>11, <1>12 DEF Python

(* Only the frame on top of the running greenlet changes. *)
TopBecomes(f) == stack' = [stack EXCEPT ![active] = <<f>> \o Tail(stack[active])]

LEMMA SwitchesMoveTheTop ==
    ASSUME NEW C, Control(C),
           RunSwitches \/ YieldSwitches \/ YieldStaysBlocked \/ SwitchReturns \/ RunContinues
    PROVE  /\ stack[active] # <<>> /\ Top.k \in {"Run", "Yield"}
           /\ stack' = stack \/ \E f : f.k \in {"Run", "Yield"} /\ TopBecomes(f)
<1>1. stack[active] # <<>> /\ Top.k \in {"Run", "Yield"}
  BY DEF RunSwitches, YieldSwitches, YieldStaysBlocked, SwitchReturns, RunContinues, AtFrame
<1>2. Top \in RunFrames \cup YieldFrames(active)
  BY <1>1, InTheMiddle
<1>. DEFINE moved(p, x) == [Top EXCEPT !.pc = p, !.sw = x]
            over(p, x, d) == [Top EXCEPT !.pc = p, !.sw = x, !.done = d]
            on(p) == [Top EXCEPT !.pc = p]
<1>3. \A p, x, d : /\ moved(p, x).k \in {"Run", "Yield"} /\ over(p, x, d).k \in {"Run", "Yield"}
                   /\ on(p).k \in {"Run", "Yield"}
  BY <1>2 DEF RunFrames, YieldFrames
<1>4. \/ \E p, x : TopBecomes(moved(p, x))
      \/ \E p, x, d : TopBecomes(over(p, x, d))
      \/ \E p : TopBecomes(on(p))
      \/ stack' = stack
  <2>1. \A x, q0, tk0, g0 : SwitchTo(Top, x, q0, tk0, g0) =>
            \E p : TopBecomes(moved(p, x))
    <3>. TAKE x, q0, tk0, g0
    <3>. HAVE SwitchTo(Top, x, q0, tk0, g0)
    <3>. DEFINE b == <<moved("out", x)>> \o Tail(stack[active])
                to == <<moved("in", x)>> \o Tail(stack[active])
    <3>1. CASE IsSwitchTrapped
      <4>1. Continue(b, "Error")
        BY <3>1 DEF SwitchTo
      <4>. QED
        BY <4>1 DEF Continue, TopBecomes
    <3>2. CASE ~IsSwitchTrapped /\ DiesUnstarted(tk0, x)
      <4>1. Continue(b, "ok")
        BY <3>2 DEF SwitchTo
      <4>. QED
        BY <4>1 DEF Continue, TopBecomes
    <3>3. CASE ~IsSwitchTrapped /\ ~DiesUnstarted(tk0, x) /\ tk0[x].firstRun /\ tk0[x].exc = "Error"
      <4>1. Continue(b, "Error")
        BY <3>3 DEF SwitchTo
      <4>. QED
        BY <4>1 DEF Continue, TopBecomes
    <3>4. CASE ~IsSwitchTrapped /\ ~DiesUnstarted(tk0, x) /\ ~(tk0[x].firstRun /\ tk0[x].exc = "Error")
      <4>1. stack' = [stack EXCEPT ![active] = to]
        BY <3>4 DEF SwitchTo
      <4>. QED
        BY <4>1 DEF TopBecomes
    <3>. QED
      BY <3>1, <3>2, <3>3, <3>4
  <2>2. RunSwitches => \E x, q0, tk0, g0 : SwitchTo(Top, x, q0, tk0, g0)
    BY DEF RunSwitches
  <2>3. YieldSwitches => stack' = stack \/ \E x, q0, tk0, g0 : SwitchTo(Top, x, q0, tk0, g0)
    BY DEF YieldSwitches
  <2>4. YieldStaysBlocked => stack' = stack \/ \E x, q0, tk0, g0 : SwitchTo(Top, x, q0, tk0, g0)
    BY DEF YieldStaysBlocked
  <2>5. SwitchReturns => TopBecomes(on("out"))
    BY DEF SwitchReturns, Continue, TopBecomes
  <2>6. RunContinues => \E p, x, d : TopBecomes(over(p, x, d))
    <3>. HAVE RunContinues
    <3>. DEFINE x == Top.sw
                d == (Top.until /\ ~IsBlocked(q, Main)) \/ x = Top.end
                s == <<[Top EXCEPT !.pc = "head", !.sw = NULL, !.done = d]>> \o Tail(stack[active])
    <3>1. Continue(s, "none")
      BY DEF RunContinues
    <3>2. stack' = [stack EXCEPT ![active] = s]
      BY <3>1 DEF Continue
    <3>3. s = <<over("head", NULL, d)>> \o Tail(stack[active])
      OBVIOUS
    <3>. HIDE DEF s, over, d
    <3>. QED
      BY <3>2, <3>3 DEF TopBecomes
  <2>. HIDE DEF moved, over, on
  <2>. QED
    BY <1>1, <2>1, <2>2, <2>3, <2>4, <2>5, <2>6
<1>. HIDE DEF moved, over, on
<1>. QED
  BY <1>1, <1>3, <1>4

LEMMA SchedulerOwn ==
    ASSUME NEW X, NEW C \in SUBSET Channels, Control(C), OwnedFrames(X), Scheduler
    PROVE  OwnedFrames(X)'
<1>1. ASSUME RunSwitches \/ YieldSwitches \/ YieldStaysBlocked \/ SwitchReturns \/ RunContinues
      PROVE  OwnedFrames(X)'
  <2>1. /\ stack[active] # <<>>
        /\ stack' = stack \/ \E f : f.k \in {"Run", "Yield"} /\ TopBecomes(f)
    BY <1>1, SwitchesMoveTheTop
  <2>2. \A f : f.k \in {"Run", "Yield"} => Owns(X, active, f)
    BY DEF Owns, ChannelRests
  <2>3. CASE stack' = stack
    BY <2>3 DEF OwnedFrames, Own, Owns, ChannelRests, NoThrow, AllOps
  <2>4. ASSUME NEW f, f.k \in {"Run", "Yield"}, TopBecomes(f)
        PROVE  OwnedFrames(X)'
    <3>. DEFINE T == Switching(active) \cup PlainFrames(C) \cup LimitedFrames
    <3>1. stack[active] \in Seq(T) /\ Own(X, active, stack[active])
      BY StackIsASequence DEF Control, Types, OwnedFrames
    <3>. HIDE DEF T
    <3>2. Own(X, active, Tail(stack[active])) /\ Tail(stack[active]) \in Seq(T)
      BY <2>1, <3>1, OwnTogether
    <3>3. <<f>> \in Seq({f}) /\ Own(X, active, <<f>>)
      <4>1. Owns(X, active, f)
        BY <2>2, <2>4
      <4>. QED
        BY <4>1, OwnParts
    <3>4. Own(X, active, <<f>> \o Tail(stack[active]))
      BY <3>2, <3>3, OwnTogether
    <3>. QED
      BY <2>4, <3>4, OwnKept DEF TopBecomes
  <2>. QED
    BY <2>1, <2>3, <2>4
<1>2. ASSUME \/ RunEnds \/ RunCannotAdopt \/ RunFails \/ YieldReturns \/ YieldMainReturns
             \/ KillReturns \/ LimitedRunReturns
      PROVE  OwnedFrames(X)'
  <2>1. stack[active] # <<>> /\ \E r : Return(r)
    BY <1>2 DEF RunEnds, RunCannotAdopt, RunFails, YieldReturns, YieldMainReturns, KillReturns,
                LimitedRunReturns, AtFrame, AtThen
  <2>. QED
    BY <2>1, ReturnsOwn
<1>. QED
  BY <1>1, <1>2, SwitchIsNotCalled DEF Scheduler

LEMMA NextOwn ==
    ASSUME NEW X, NEW C \in SUBSET Channels, Control(C), OwnedFrames(X), MarkedIn(X), Flat,
           [Next]_vars
    PROVE  OwnedFrames(X)'
<1>1. UNCHANGED vars => OwnedFrames(X)'
  BY DEF vars, OwnedFrames, Own, Owns, ChannelRests, NoThrow, AllOps
<1>. QED
  BY <1>1, PythonOwn, SchedulerOwn DEF Next, MainIdle

--------------------------------------------------------------------------------
(* clear() and unblock_all_channels are called by main only. *)

LEMMA ClearedByMain ==
    ASSUME NEW X, Control(Channels), OwnedFrames(X), AtClear
    PROVE  /\ active = Main /\ MainOps \cap {"clear", "unblock_all"} # {}
           /\ stack[active] \in Rests(Channels, active) /\ stack[active] \in Seq(PlainFrames(Channels))
           /\ Tail(stack[active]) \in Seq(PlainFrames(Channels))
           /\ Top \in [k : {"Clear"}, todo : Seq(Channels) \ {<<>>}, senders : BOOLEAN, failed : BOOLEAN]
           /\ Top.k \notin Limited
<1>1. stack[active] # <<>> /\ Top.k = "Clear"
  BY DEF AtClear
<1>2. /\ stack[active] \in Rests(Channels, active) /\ stack[active] \in Seq(PlainFrames(Channels))
      /\ Top \in PlainFrames(Channels)
  BY <1>1, RestOfACall DEF Limited
<1>3. Tail(stack[active]) \in Seq(PlainFrames(Channels))
  BY <1>1, <1>2, TopOfRest
<1>4. Owns(X, active, Top)
  BY <1>1, <1>2, OwnTogether DEF OwnedFrames, Control, Types, Top
<1>. QED
  BY <1>1, <1>2, <1>3, <1>4 DEF Owns, PlainFrames, Limited

LEMMA ClearFramesAreOurs ==
    ASSUME NEW X, NEW f \in [k : {"Clear"}, todo : Seq(Channels) \ {<<>>}, senders : BOOLEAN, failed : BOOLEAN]
    PROVE  /\ <<f>> \in Seq(PlainFrames(Channels))
           /\ MainOps \cap {"clear", "unblock_all"} # {} => Own(X, Main, <<f>>)
<1>1. f \in PlainFrames(Channels)
  BY DEF PlainFrames
<1>2. MainOps \cap {"clear", "unblock_all"} # {} => Owns(X, Main, f)
  BY DEF Owns, ChannelRests
<1>. QED
  <2>1. \A g : Owns(X, Main, g) => Own(X, Main, <<g>>)
    BY OwnParts
  <2>. QED
    BY <1>1, <1>2, <2>1

LEMMA OrdersAreSequences ==
    ASSUME NEW S \in SUBSET Channels, S # {}, NEW order \in Seqs!SetToSeqs(S)
    PROVE  order \in Seq(Channels) \ {<<>>}
<1>1. IsFiniteSet(S)
  BY ChannelsAssumption, FS_Subset
<1>2. Cardinality(S) \in Nat \ {0}
  BY <1>1, FS_CardinalityType, FS_EmptySet
<1>3. Seqs!Cardinality(S) = Cardinality(S)
  BY DEF Seqs!Cardinality, Cardinality
<1>4. order \in [1..Cardinality(S) -> S]
  BY <1>3 DEF Seqs!SetToSeqs
<1>. QED
  BY <1>2, <1>4

ClearFrames ==
    [k : {"Clear"}, todo : Seq(Channels) \ {<<>>}, senders : BOOLEAN, failed : BOOLEAN]

(* The frame of a clear moves on. *)
LEMMA ClearMovesOn ==
    ASSUME NEW X, Control(Channels), OwnedFrames(X), AtClear, NEW f \in ClearFrames,
           Continue(<<f>> \o Tail(stack[active]), "none"), UNCHANGED <<q, tk, gl, mgr, ch>>
    PROVE  Control(Channels)' /\ OwnedFrames(X)'
<1>. DEFINE s == <<f>> \o Tail(stack[active])
<1>1. /\ active = Main /\ stack[active] \in Rests(Channels, active) /\ stack[active] # <<>>
      /\ stack[active] \in Seq(PlainFrames(Channels))
      /\ Tail(stack[active]) \in Seq(PlainFrames(Channels))
  BY ClearedByMain DEF AtClear
<1>2. <<f>> \in Seq(PlainFrames(Channels)) /\ Own(X, Main, <<f>>)
  BY ClearFramesAreOurs, ClearedByMain DEF ClearFrames
<1>3. s \in Seq(PlainFrames(Channels))
  BY <1>1, <1>2, ConcatProperties
<1>4. Own(X, Main, stack[Main])
  BY MainAssumption DEF OwnedFrames
<1>5. Own(X, Main, s)
  BY <1>1, <1>2, <1>4, OwnTogether
<1>. HIDE DEF s
<1>6. Continue(s, "none")
  BY DEF s
<1>7. s \in Rests(Channels, active) /\ \A k \in Limited : ~Has(s, k) /\ ~Has(stack[active], k)
  BY <1>1, <1>3, PlainRests DEF Limited
<1>8. Stays(Channels) /\ stack'[active] = s /\ ret' \in Outcomes
  BY <1>6, <1>7, SimpleOutcomes, ContinueStays
<1>9. LimitsMatchTheCall'
  BY <1>7, <1>8, LimitsStay DEF SameLimits, Control, Types
<1>10. Control(Channels)'
  BY <1>1, <1>8, <1>9, InPlace, StayingKeepsControl DEF Safe
<1>11. OwnedFrames(X)'
  BY <1>1, <1>5, <1>6, OwnKept DEF Continue
<1>. QED
  BY <1>10, <1>11

LEMMA ClearsKeepControl ==
    ASSUME NEW X, Control(Channels), OwnedFrames(X), MarkedIn(X), Flat,
           ClearKills \/ ClearGoesOn \/ ClearTurns \/ ClearEnds
    PROVE  Control(Channels)' /\ OwnedFrames(X)'
<1>1. /\ active = Main /\ MainOps \cap {"clear", "unblock_all"} # {}
      /\ stack[active] \in Rests(Channels, active) /\ stack[active] \in Seq(PlainFrames(Channels))
      /\ Top \in ClearFrames /\ Top.k \notin Limited /\ stack[active] # <<>> /\ AtClear
      /\ q.current = active
  BY ClearedByMain, InPlace DEF ClearKills, ClearGoesOn, ClearTurns, ClearEnds, AtClear, ClearFrames
<1>2. ASSUME ClearKills PROVE Control(Channels)' /\ OwnedFrames(X)'
  <2>. DEFINE t == Head(ToBeCleared)
  <2>1. ToBeCleared # <<>> /\ KillTasklet(t, FALSE, <<>>) /\ mgr' = mgr
    BY <1>2 DEF ClearKills
  <2>2. t \in Tasklets
    <3>1. Head(Top.todo) \in Channels
      BY <1>1 DEF ClearFrames
    <3>. QED
      BY <2>1, <3>1, Waiters DEF ToBeCleared, Control, Types
  <2>. HIDE DEF t
  <2>3. ~Nested
    BY DEF Flat
  <2>4. Control(Channels)'
    BY <1>1, <2>1, <2>2, <2>3, NoConts, KillTaskletKeepsControl
  <2>5. OwnedFrames(X)'
    BY <1>1, <2>1, <2>2, <2>3, NothingLeft, KillTaskletOwn DEF MarkedIn
  <2>. QED
    BY <2>4, <2>5
<1>3. ASSUME ClearGoesOn PROVE Control(Channels)' /\ OwnedFrames(X)'
  <2>. DEFINE f == [Top EXCEPT !.failed = @ \/ ret # "ok"]
  <2>1. Continue(<<f>> \o Tail(stack[active]), "none") /\ UNCHANGED <<q, tk, gl, mgr, ch>>
    BY <1>3 DEF ClearGoesOn
  <2>2. f \in ClearFrames
    BY <1>1 DEF ClearFrames
  <2>. HIDE DEF f
  <2>. QED
    BY <1>1, <2>1, <2>2, ClearMovesOn
<1>4. ASSUME ClearTurns PROVE Control(Channels)' /\ OwnedFrames(X)'
  <2>. DEFINE f == [Top EXCEPT !.todo = IF Top.senders THEN Tail(@) ELSE @, !.senders = ~@]
  <2>1. /\ Continue(<<f>> \o Tail(stack[active]), "none") /\ UNCHANGED <<q, tk, gl, mgr, ch>>
        /\ ~Top.senders \/ Len(Top.todo) > 1
    BY <1>4 DEF ClearTurns
  <2>2. Top.senders => Tail(Top.todo) \in Seq(Channels) \ {<<>>}
    <3>1. Top.todo \in Seq(Channels) /\ Top.todo # <<>>
      BY <1>1 DEF ClearFrames
    <3>2. Tail(Top.todo) \in Seq(Channels) /\ Len(Tail(Top.todo)) = Len(Top.todo) - 1
      BY <3>1, HeadTailProperties
    <3>3. Top.senders => Len(Tail(Top.todo)) > 0
      BY <2>1, <3>1, <3>2, LenProperties
    <3>4. \A s \in Seq(Channels) : Len(s) > 0 => s # <<>>
      OBVIOUS
    <3>. QED
      BY <3>2, <3>3, <3>4, Zenon
  <2>3. f \in ClearFrames
    BY <1>1, <2>2 DEF ClearFrames
  <2>. HIDE DEF f
  <2>. QED
    BY <1>1, <2>1, <2>3, ClearMovesOn
<1>5. ASSUME ClearEnds PROVE Control(Channels)' /\ OwnedFrames(X)'
  <2>. DEFINE r == IF Top.failed THEN "Error" ELSE "ok"
  <2>1. Return(r) /\ UNCHANGED <<q, tk, gl, mgr, ch>>
    BY <1>5 DEF ClearEnds
  <2>2. r \in Outcomes
    BY SimpleOutcomes
  <2>. HIDE DEF r
  <2>3. Control(Channels)'
    BY <1>1, <2>1, <2>2, InPlace, ReturnKeepsControl DEF Safe, Top
  <2>4. OwnedFrames(X)'
    BY <1>1, <2>1, ReturnsOwn
  <2>. QED
    BY <2>3, <2>4
<1>. QED
  BY <1>2, <1>3, <1>4, <1>5

LEMMA ClearCallsKeepControl ==
    ASSUME NEW X, Control(Channels), OwnedFrames(X), Flat,
           (\E c \in Channels : Clear(c)) \/ UnblockAllActiveChannels
    PROVE  Control(Channels)' /\ OwnedFrames(X)'
<1>1. PICK op \in {"clear", "unblock_all"} : Calls(op)
  BY DEF Clear, UnblockAllActiveChannels
<1>2. /\ stack[active] = <<>> /\ stack[active] \in Seq(PlainFrames(Channels))
      /\ Safe(Channels, q) /\ TaskletsStay(tk) /\ GreenletsStay(gl) /\ ChannelsFit(ch)
      /\ active = Main /\ MainOps \cap {"clear", "unblock_all"} # {}
  <2>1. CalledBy(op)
    BY <1>1, CallIsMade
  <2>2. active = Main /\ op \in MainOps
    BY <1>1, <2>1 DEF CalledBy, Flat
  <2>. QED
    BY <1>1, <2>2, CallIsMade
<1>3. UNCHANGED <<q, tk, gl, mgr, ch>>
  BY DEF Clear, UnblockAllActiveChannels
<1>4. \A todo \in Seq(Channels) \ {<<>>} : ClearFrame(todo) \in ClearFrames
  BY DEF ClearFrame, ClearFrames
<1>5. \/ Answer(<<>>, "ok")
      \/ \E todo \in Seq(Channels) \ {<<>>} : Answer(<<ClearFrame(todo)>>, "none")
  <2>1. ASSUME NEW c \in Channels, Clear(c)
        PROVE  \E todo \in Seq(Channels) \ {<<>>} : Answer(<<ClearFrame(todo)>>, "none")
    <3>1. <<c>> \in Seq(Channels) \ {<<>>} /\ Answer(<<ClearFrame(<<c>>)>>, "none")
      BY <2>1 DEF Clear, Push, Answer
    <3>. QED
      BY <3>1
  <2>2. ASSUME UnblockAllActiveChannels
        PROVE  \/ Answer(<<>>, "ok")
               \/ \E todo \in Seq(Channels) \ {<<>>} : Answer(<<ClearFrame(todo)>>, "none")
    <3>. DEFINE blocked == {c \in Channels : ch[c].balance # 0}
    <3>1. \/ Answer(<<>>, "ok")
          \/ blocked # {} /\ \E order \in Seqs!SetToSeqs(blocked) : Push(<<ClearFrame(order)>>)
      BY <2>2 DEF UnblockAllActiveChannels
    <3>2. blocked \in SUBSET Channels
      OBVIOUS
    <3>. HIDE DEF blocked
    <3>. QED
      BY <3>1, <3>2, OrdersAreSequences DEF Push, Answer
  <2>. QED
    BY <2>1, <2>2
<1>6. ASSUME Answer(<<>>, "ok") PROVE Control(Channels)' /\ OwnedFrames(X)'
  <2>1. OwnedFrames(X)'
    BY <1>6, NothingLeft, CallsOwn DEF Answer
  <2>. QED
    BY <1>2, <1>3, <1>6, <2>1, NoConts, SimpleOutcomes, AnswerKeepsControl DEF Safe
<1>7. ASSUME NEW f \in ClearFrames, Answer(<<f>>, "none") PROVE Control(Channels)' /\ OwnedFrames(X)'
  <2>1. <<f>> \in Seq(PlainFrames(Channels)) /\ Own(X, active, <<f>>)
    BY <1>2, ClearFramesAreOurs DEF ClearFrames
  <2>2. OwnedFrames(X)'
    BY <1>7, <2>1, CallsOwn DEF Answer
  <2>. QED
    BY <1>2, <1>3, <1>7, <2>1, <2>2, SimpleOutcomes, AnswerKeepsControl DEF Safe
<1>. QED
  BY <1>4, <1>5, <1>6, <1>7

(* Calls that are answered at once. *)
LEMMA SettersKeepControl ==
    ASSUME NEW X, Control(Channels), OwnedFrames(X),
           \/ \E c \in Channels : Close(c) \/ Open(c) \/ \E p \in Direction : SetPreference(c, p)
           \/ \E value \in BOOLEAN : SetBlocktrap(value)
    PROVE  Control(Channels)' /\ OwnedFrames(X)'
<1>1. (\E op : Calls(op)) /\ Answer(<<>>, "ok") /\ UNCHANGED <<q, gl, mgr>>
  BY DEF Close, Open, SetPreference, SetBlocktrap
<1>2. /\ stack[active] \in Seq(PlainFrames(Channels)) /\ active \in Tasklets
      /\ Safe(Channels, q) /\ TaskletsStay(tk) /\ GreenletsStay(gl) /\ ChannelsFit(ch)
  BY <1>1, CallIsMade
<1>3. TaskletsStay(tk') /\ ChannelsFit(ch')
  <2>1. ASSUME NEW c \in Channels,
               Close(c) \/ Open(c) \/ \E p \in Direction : SetPreference(c, p)
        PROVE  tk' = tk /\ ChannelsFit(ch')
    <3>1. ch[c] \in ChannelType(Tasklets)
      BY <1>2 DEF ChannelsFit
    <3>. DEFINE closing == [ch[c] EXCEPT !.closing = TRUE]
                open == [ch[c] EXCEPT !.closing = FALSE, !.closed = FALSE]
    <3>2. closing \in ChannelType(Tasklets) /\ open \in ChannelType(Tasklets)
      BY <3>1 DEF ChannelType
    <3>3. \A p \in Direction : [ch[c] EXCEPT !.preference = p] \in ChannelType(Tasklets)
      BY <3>1 DEF ChannelType
    <3>4. \/ ch' = [ch EXCEPT ![c] = UpdateCloseState(closing)]
          \/ ch' = [ch EXCEPT ![c] = open]
          \/ \E p \in Direction : ch' = [ch EXCEPT ![c] = [ch[c] EXCEPT !.preference = p]]
      BY <1>2, <2>1 DEF Close, Open, SetPreference, ChannelsFit
    <3>. HIDE DEF closing, open
    <3>5. UpdateCloseState(closing) \in ChannelType(Tasklets)
      BY <1>2, <3>2, ChannelKeepsItsType
    <3>6. tk' = tk
      BY <2>1 DEF Close, Open, SetPreference
    <3>. QED
      BY <1>2, <3>2, <3>3, <3>4, <3>5, <3>6, ChannelStays
  <2>2. ASSUME NEW value \in BOOLEAN, SetBlocktrap(value)
        PROVE  TaskletsStay(tk') /\ ch' = ch
    BY <1>2, <2>2, FieldsStay DEF SetBlocktrap
  <2>. QED
    BY <1>2, <2>1, <2>2
<1>4. OwnedFrames(X)'
  BY <1>1, NothingLeft, CallsOwn DEF Answer
<1>. QED
  BY <1>1, <1>2, <1>3, <1>4, NoConts, SimpleOutcomes, AnswerKeepsControl DEF Safe

LEMMA RestsAreOwned ==
    ASSUME NEW X, NEW k \in ChannelRests, NEW t, NEW c
    PROVE  /\ <<Rest(k, t, c)>> \in Seq({Rest(k, t, c)})
           /\ Own(X, t, <<Rest(k, t, c)>>)
<1>1. Owns(X, t, Rest(k, t, c))
  BY DEF Owns, Rest, ChannelRests
<1>. QED
  BY <1>1, OwnParts

LEMMA TransfersOwn ==
    ASSUME NEW X, Control(Channels), OwnedFrames(X), NEW c \in Channels,
           (\E exception \in BOOLEAN : Send(c, exception)) \/ Receive(c)
    PROVE  OwnedFrames(X)'
<1>1. q.current = active
  BY CallIsMade DEF Send, Receive
<1>2. \/ \E r : Answer(<<>>, r)
      \/ \E k \in ChannelRests : \E q0, tk0 : Yield(q0, tk0, <<Rest(k, active, c)>>)
  <2>1. ASSUME NEW exception \in BOOLEAN, Send(c, exception)
        PROVE  \/ \E r : Answer(<<>>, r)
               \/ \E k \in ChannelRests : \E q0, tk0 : Yield(q0, tk0, <<Rest(k, active, c)>>)
    <3>. DEFINE m == [from |-> q.current, exception |-> exception]
    <3>1. SendRefused(c, m) \/ SendBlocks(c, m) \/ SendDelivers(c, m)
      BY <2>1 DEF Send
    <3>. HIDE DEF m
    <3>2. SendRefused(c, m) => \E r : Answer(<<>>, r)
      BY DEF SendRefused
    <3>3. SendBlocks(c, m) => \E q0, tk0 : Yield(q0, tk0, <<Rest("Send", active, c)>>)
      BY <1>1 DEF SendBlocks
    <3>4. SendDelivers(c, m) => \/ \E r : Answer(<<>>, r)
                               \/ \E q0, tk0 : Yield(q0, tk0, <<Rest("Send.delivered", active, c)>>)
      BY <1>1 DEF SendDelivers
    <3>. QED
      BY <3>1, <3>2, <3>3, <3>4 DEF ChannelRests
  <2>2. ASSUME Receive(c)
        PROVE  \/ \E r : Answer(<<>>, r)
               \/ \E k \in ChannelRests : \E q0, tk0 : Yield(q0, tk0, <<Rest(k, active, c)>>)
    <3>2. ReceiveRefused(c) => \E r : Answer(<<>>, r)
      BY DEF ReceiveRefused
    <3>3. ReceiveBlocks(c) => \E q0, tk0 : Yield(q0, tk0, <<Rest("Receive", active, c)>>)
      BY <1>1 DEF ReceiveBlocks
    <3>4. ReceiveTakes(c) => \/ \E r : Answer(<<>>, r)
                             \/ \E q0, tk0 : Yield(q0, tk0, <<Rest("Receive.taken", active, c)>>)
      BY <1>1 DEF ReceiveTakes
    <3>. QED
      BY <2>2, <3>2, <3>3, <3>4 DEF ChannelRests, Receive
  <2>. QED
    BY <2>1, <2>2
<1>. QED
  BY <1>2, RestsAreOwned, NothingLeft, YieldOwn, CallsOwn DEF Answer

(* Control stays in its place whatever is called, and whoever waits.        *)
LEMMA ChannelNextKeepsFrames ==
    ASSUME NEW X, Control(Channels), OwnedFrames(X), MarkedIn(X), Flat, NoThrow, [ChannelNext]_vars
    PROVE  Control(Channels)' /\ OwnedFrames(X)'
<1>1. Calm
  BY QuietIsCalm
<1>2. ASSUME [Next]_vars PROVE Control(Channels)' /\ OwnedFrames(X)'
  BY <1>1, <1>2, NextKeepsControl, NextOwn
<1>3. ASSUME NEW c \in Channels, (\E exception \in BOOLEAN : Send(c, exception)) \/ Receive(c)
      PROVE  Control(Channels)' /\ OwnedFrames(X)'
  BY <1>3, SendKeepsControl, ReceiveKeepsControl, TransfersOwn
<1>4. ASSUME SendReturns \/ SendDeliveredReturns \/ ReceiveReturns \/ ReceiveTakenReturns
      PROVE  Control(Channels)' /\ OwnedFrames(X)'
  <2>1. stack[active] # <<>> /\ \E r : Return(r)
    BY <1>4 DEF SendReturns, SendDeliveredReturns, ReceiveReturns, ReceiveTakenReturns, AtThen
  <2>. QED
    BY <1>4, <2>1, RestsKeepControl, ReturnsOwn
<1>5. ASSUME ChannelCalls PROVE Control(Channels)' /\ OwnedFrames(X)'
  BY <1>3, <1>5, ClearCallsKeepControl, SettersKeepControl DEF ChannelCalls
<1>6. ASSUME ChannelSteps PROVE Control(Channels)' /\ OwnedFrames(X)'
  BY <1>4, <1>6, ClearsKeepControl DEF ChannelSteps
<1>. QED
  BY <1>2, <1>5, <1>6 DEF ChannelNext

LEMMA ChannelNextKeepsControl ==
    ASSUME Control(Channels), OwnFrames, Flat, NoThrow, [ChannelNext]_vars
    PROVE  Control(Channels)' /\ OwnFrames'
<1>1. MarkedIn(Tasklets)
  BY DEF MarkedIn
<1>. QED
  BY <1>1, ChannelNextKeepsFrames DEF OwnFrames

--------------------------------------------------------------------------------
(* The queue changes by steps of RunQueue here too.                         *)

LEMMA TransfersAreSteps ==
    ASSUME Control(Channels), NEW c \in Channels,
           (\E exception \in BOOLEAN : Send(c, exception)) \/ Receive(c)
    PROVE  q' = q \/ Queue!Next
<1>1. /\ q.current = active /\ active \in Tasklets /\ ChannelsFit(ch) /\ q.scheduled[q.current]
  <2>1. PICK op : Calls(op)
    BY DEF Send, Receive
  <2>2. /\ q.current = active /\ active \in Tasklets /\ ChannelsFit(ch) /\ Safe(Channels, q)
    BY <2>1, CallIsMade
  <2>. QED
    BY <2>2, GoodQueue DEF Safe, QueueStays, QueueFits
<1>2. \A p \in Tasklets : Unblock(q, p) \in Awake(p)
  BY DEF Awake
<1>3. \/ q' = q
      \/ q' = Block(q, active, c)
      \/ ch[c].recv # <<>> /\ (\/ q' = InsertTasklet(Unblock(q, Head(ch[c].recv)), Head(ch[c].recv))
                               \/ q' = PartnerRunsNext(Head(ch[c].recv), active))
      \/ ch[c].send # <<>> /\ (\/ q' = InsertTasklet(Unblock(q, Head(ch[c].send)), Head(ch[c].send))
                               \/ q' = PartnerRunsNext(Head(ch[c].send), active))
  <2>1. ASSUME NEW exception \in BOOLEAN, Send(c, exception)
        PROVE  \/ q' = q
               \/ q' = Block(q, active, c)
               \/ ch[c].recv # <<>> /\ (\/ q' = InsertTasklet(Unblock(q, Head(ch[c].recv)), Head(ch[c].recv))
                                        \/ q' = PartnerRunsNext(Head(ch[c].recv), active))
    <3>. DEFINE m == [from |-> q.current, exception |-> exception]
    <3>1. SendRefused(c, m) \/ SendBlocks(c, m) \/ SendDelivers(c, m)
      BY <2>1 DEF Send
    <3>. HIDE DEF m
    <3>. QED
      BY <1>1, <3>1 DEF SendRefused, SendBlocks, SendDelivers, Yield
  <2>2. ASSUME Receive(c)
        PROVE  \/ q' = q
               \/ q' = Block(q, active, c)
               \/ ch[c].send # <<>> /\ (\/ q' = InsertTasklet(Unblock(q, Head(ch[c].send)), Head(ch[c].send))
                                        \/ q' = PartnerRunsNext(Head(ch[c].send), active))
    BY <1>1, <2>2 DEF Receive, ReceiveRefused, ReceiveBlocks, ReceiveTakes, Yield
  <2>. QED
    BY <2>1, <2>2
<1>4. ASSUME NEW p \in Tasklets,
             q' = InsertTasklet(Unblock(q, p), p) \/ q' = PartnerRunsNext(p, active)
      PROVE  Queue!Next
  BY <1>1, <1>2, <1>4, InsertIsAStep, WakingIsAStep DEF PartnerRunsNext
<1>. QED
  BY <1>1, <1>3, <1>4, Waiters, MarkingIsAStep

LEMMA RestsAreSteps ==
    ASSUME Control(Channels), SendReturns \/ SendDeliveredReturns \/ ReceiveReturns \/ ReceiveTakenReturns
    PROVE  q' = q \/ Queue!Next
<1>1. PICK k \in {"Send", "Send.delivered", "Receive", "Receive.taken"} : AtThen(k)
  BY DEF SendReturns, SendDeliveredReturns, ReceiveReturns, ReceiveTakenReturns
<1>2. Top.t \in Tasklets
  BY <1>1, RestOnTop
<1>3. q' = q \/ q' = Unblock(q, Top.t)
  BY DEF SendReturns, SendDeliveredReturns, ReceiveReturns, ReceiveTakenReturns
<1>4. Unblock(q, Top.t) \in Awake(Top.t)
  BY DEF Awake
<1>. QED
  BY <1>2, <1>3, <1>4, InsertIsAStep

LEMMA ChannelNextIsAStep ==
    ASSUME Control(Channels), OwnFrames, Flat, NoThrow, [ChannelNext]_vars
    PROVE  [Queue!Next]_q
<1>1. ASSUME [Next]_vars PROVE [Queue!Next]_q
  BY <1>1, QuietIsCalm, NextIsAStep
<1>2. ASSUME ClearKills PROVE q' = q \/ Queue!Next
  <2>1. AtClear /\ ToBeCleared # <<>> /\ KillTasklet(Head(ToBeCleared), FALSE, <<>>)
    BY <1>2 DEF ClearKills
  <2>2. /\ active = Main /\ stack[active] \in Rests(Channels, active) /\ ~Nested
        /\ Head(Top.todo) \in Channels
    BY <2>1, ClearedByMain DEF Flat, OwnFrames
  <2>3. Head(ToBeCleared) \in Tasklets
    BY <2>1, <2>2, Waiters DEF ToBeCleared, Control, Types
  <2>. QED
    BY <2>1, <2>2, <2>3, KillTaskletIsAStep
<1>3. ASSUME ClearGoesOn \/ ClearTurns \/ ClearEnds PROVE q' = q
  BY <1>3 DEF ClearGoesOn, ClearTurns, ClearEnds
<1>4. ASSUME NEW c \in Channels,
             \/ Clear(c) \/ Close(c) \/ Open(c) \/ (\E p \in Direction : SetPreference(c, p))
      PROVE  q' = q
  BY <1>4 DEF Clear, Close, Open, SetPreference
<1>5. ASSUME UnblockAllActiveChannels \/ (\E value \in BOOLEAN : SetBlocktrap(value)) PROVE q' = q
  BY <1>5 DEF UnblockAllActiveChannels, SetBlocktrap
<1>6. ASSUME ChannelCalls PROVE q' = q \/ Queue!Next
  BY <1>4, <1>5, <1>6, TransfersAreSteps DEF ChannelCalls
<1>7. ASSUME ChannelSteps PROVE q' = q \/ Queue!Next
  BY <1>2, <1>3, <1>7, RestsAreSteps DEF ChannelSteps
<1>. QED
  BY <1>1, <1>6, <1>7 DEF ChannelNext

--------------------------------------------------------------------------------
(* The theorems about control.  They hold without nesting, for programs     *)
(* that keep to Flat and throw no exceptions at tasklets.                   *)

LEMMA AlwaysOwned ==
    ASSUME Flat, NoThrow
    PROVE  ChannelSpec => [](Control(Channels) /\ OwnFrames)
<1>1. Init => Control(Channels) /\ OwnFrames
  <2>1. Init => OwnFrames
    BY OwnParts DEF Init, OwnFrames, OwnedFrames
  <2>. QED
    BY <2>1, InitIsUnderControl
<1>2. (Control(Channels) /\ OwnFrames) /\ [ChannelNext]_vars => (Control(Channels) /\ OwnFrames)'
  BY ChannelNextKeepsControl
<1>. QED
  BY <1>1, <1>2, PTL DEF ChannelSpec

(* With channels too, every variable keeps its type.                        *)
THEOREM ChannelTypeCorrect ==
    ASSUME Flat, NoThrow
    PROVE  ChannelSpec => []TypeOK
<1>1. Control(Channels) /\ OwnFrames => TypeOK
  BY ControlShows
<1>. QED
  BY <1>1, AlwaysOwned, PTL

(* The tasklet whose code runs is the one getcurrent() names, although      *)
(* sends and receives give control away in the middle, and partners, kills  *)
(* and clear() take it to others.                                           *)
THEOREM ChannelCurrentIsActive ==
    ASSUME Flat, NoThrow
    PROVE  ChannelSpec => [](CurrentIsActive /\ RunnersWait /\ LimitsMatchTheCall)
<1>1. Control(Channels) /\ OwnFrames => CurrentIsActive /\ RunnersWait /\ LimitsMatchTheCall
  BY ControlShows DEF Control
<1>. QED
  BY <1>1, AlwaysOwned, PTL

(* Channels block, wake and kill tasklets by steps of RunQueue only: what   *)
(* RunQueueProofs says of the queue holds when tasklets meet on channels.   *)
THEOREM ChannelQueueSpec ==
    ASSUME Flat, NoThrow
    PROVE  ChannelSpec => QueueSpec
<1>1. (Control(Channels) /\ OwnFrames) /\ [ChannelNext]_vars => [Queue!Next]_q
  BY ChannelNextIsAStep
<1>. QED
  BY <1>1, InitIsInit, AlwaysOwned, PTL DEF ChannelSpec, QueueSpec, Queue!Spec

--------------------------------------------------------------------------------
(* The channels' lists.  From here on also the kills have to be gentle:     *)
(* section 3 of the README tells what goes wrong otherwise.                 *)

B == INSTANCE ChannelBookProofs

Gentle ==
    /\ Flat /\ NoThrow /\ NoTrap
    /\ "insert_queued" \notin AllOps /\ "rebind" \notin MainOps /\ "kill" \notin TaskletOps
    /\ \/ \A c, d \in Channels : c = d
       \/ MainOps \cap {"kill", "clear", "unblock_all"} = {}

(* What t notes on itself fits the lists. *)
Noting(t) ==
    /\ \A c \in Channels : /\ B!In(t, ch[c].send) => tk[t].dir = "SENDER"
                           /\ B!In(t, ch[c].recv) => tk[t].dir = "RECEIVER"
    /\ tk[t].dir # "NEITHER" => \E c \in Channels : B!Waits(t, ch[c])

LEMMA SameOps ==
    /\ Direction = B!Direction
    /\ \A b : UpdateCloseState(b) = B!UpdateCloseState(b)
    /\ \A b, t : AddTaskletToWaitingToSend(b, t) = B!AddTaskletToWaitingToSend(b, t)
    /\ \A b, t : AddTaskletToWaitingToReceive(b, t) = B!AddTaskletToWaitingToReceive(b, t)
    /\ \A b, t, dir : RemoveTaskletFromBlocked(b, t, dir) = B!RemoveTaskletFromBlocked(b, t, dir)
BY DEF Direction, B!Direction, UpdateCloseState, B!UpdateCloseState, Unlinked, B!Unlinked,
       AddTaskletToWaitingToSend, B!AddTaskletToWaitingToSend,
       AddTaskletToWaitingToReceive, B!AddTaskletToWaitingToReceive,
       RemoveTaskletFromBlocked, B!RemoveTaskletFromBlocked

LEMMA ChannelFacts ==
    ASSUME B!Kept, NEW c \in Channels
    PROVE  /\ B!Orderly(ch[c]) /\ ch = [d \in Channels |-> ch[d]]
           /\ ch[c].send \in Seq(Tasklets) /\ ch[c].recv \in Seq(Tasklets)
           /\ B!Once(ch[c].send) /\ B!Once(ch[c].recv)
           /\ ch[c].closed \in BOOLEAN /\ ch[c].closing \in BOOLEAN
<1>1. B!Orderly(ch[c]) /\ ch = [d \in Channels |-> ch[d]]
  BY B!KeptByChannel
<1>. QED
  BY <1>1 DEF B!Orderly, B!ChannelType

(* Nobody waits on two channels, or on both sides of one. *)
LEMMA WaitsOnce ==
    ASSUME B!Kept, NEW t \in Tasklets
    PROVE  \A c, d \in Channels : B!Waits(t, ch[c]) /\ B!Waits(t, ch[d]) => c = d
BY DEF B!Kept, B!WaitsOnOne, B!Listed, B!Waits

(* Whoever stands at the front of a list waits. *)
LEMMA FrontWaits ==
    ASSUME B!Kept, NEW c \in Channels
    PROVE  /\ ch[c].send # <<>> =>
                Head(ch[c].send) \in Tasklets /\ B!In(Head(ch[c].send), ch[c].send)
           /\ ch[c].recv # <<>> =>
                Head(ch[c].recv) \in Tasklets /\ B!In(Head(ch[c].recv), ch[c].recv)
<1>1. \A s \in Seq(Tasklets) : s # <<>> => Head(s) \in Tasklets /\ B!In(Head(s), s)
  BY DEF B!In
<1>. QED
  BY <1>1, ChannelFacts

(* Taking t out of c, by the direction it notes, does what the book says. *)
LEMMA TakenOut ==
    ASSUME B!Kept, NEW c \in Channels, NEW t \in Tasklets, Noting(t), tk[t].dir \in Direction,
           tk[t].dir # "NEITHER" => B!Waits(t, ch[c])
    PROVE  /\ tk[t].dir # "NEITHER" <=> B!Waits(t, ch[c])
           /\ RemoveTaskletFromBlocked(ch[c], t, tk[t].dir) =
                 IF B!Waits(t, ch[c]) THEN B!Left(ch[c], t) ELSE ch[c]
           /\ Without(c, t, tk[t].dir) =
                 B!Settled(IF B!Waits(t, ch[c]) THEN B!Left(ch[c], t) ELSE ch[c])
<1>. DEFINE b == ch[c]
<1>1. B!Orderly(b)
  BY ChannelFacts
<1>2. /\ tk[t].dir = "SENDER" <=> B!In(t, b.send)
      /\ tk[t].dir = "RECEIVER" <=> B!In(t, b.recv)
  BY DEF Noting, B!Waits
<1>3. RemoveTaskletFromBlocked(b, t, tk[t].dir) = IF B!Waits(t, b) THEN B!Left(b, t) ELSE b
  BY <1>1, <1>2, SameOps, B!CountedByDirection
<1>4. B!Waits(t, b) <=> tk[t].dir # "NEITHER"
  BY <1>2 DEF B!Waits, Direction
<1>5. \A r : B!Orderly(r) => UpdateCloseState(r) = B!Settled(r)
  BY SameOps, B!ClosedByBalance
<1>6. B!Waits(t, b) => B!Orderly(B!Left(b, t))
  BY <1>1, B!LeftOrderly
<1>. QED
  BY <1>1, <1>3, <1>4, <1>5, <1>6 DEF Without

(* Who is in the lists after a step. *)
SameLists(T) ==
    \A d \in Channels : \A u \in T : /\ B!In(u, ch'[d].send) <=> B!In(u, ch[d].send)
                                     /\ B!In(u, ch'[d].recv) <=> B!In(u, ch[d].recv)

(* t leaves the list it is in. *)
LEMMA LeavesTheBook ==
    ASSUME B!Kept, NEW c \in Channels, NEW t \in Tasklets, B!Waits(t, ch[c]),
           \/ ch' = [ch EXCEPT ![c] = B!Left(ch[c], t)]
           \/ ch' = [ch EXCEPT ![c] = B!Settled(B!Left(ch[c], t))]
    PROVE  /\ B!Next /\ SameLists(Tasklets \ {t})
           /\ \A d \in Channels : ~B!Waits(t, ch'[d])
<1>. DEFINE b == ch[c]
<1>1. B!Orderly(b) /\ ch = [d \in Channels |-> ch[d]]
  BY ChannelFacts
<1>2. B!Next
  BY DEF B!Next, B!Leave, B!Listed, B!Waits
<1>3. /\ B!Left(b, t).send = B!Unlinked(b.send, t) /\ B!Left(b, t).recv = B!Unlinked(b.recv, t)
      /\ B!Settled(B!Left(b, t)).send = B!Unlinked(b.send, t)
      /\ B!Settled(B!Left(b, t)).recv = B!Unlinked(b.recv, t)
  BY <1>1 DEF B!Settled, B!Left, B!Orderly, B!ChannelType
<1>4. \A u : /\ B!In(u, B!Unlinked(b.send, t)) <=> B!In(u, b.send) /\ u # t
             /\ B!In(u, B!Unlinked(b.recv, t)) <=> B!In(u, b.recv) /\ u # t
  BY ChannelFacts, B!UnlinkedKeeps
<1>5. ch'[c].send = B!Unlinked(b.send, t) /\ ch'[c].recv = B!Unlinked(b.recv, t)
  BY <1>1, <1>3
<1>6. \A d \in Channels \ {c} : ch'[d] = ch[d]
  BY <1>1
<1>7. SameLists(Tasklets \ {t})
  BY <1>4, <1>5, <1>6, Zenon DEF SameLists
<1>8. \A d \in Channels \ {c} : ~B!Waits(t, ch[d])
  BY WaitsOnce
<1>9. ~B!Waits(t, ch'[c])
  BY <1>4, <1>5 DEF B!Waits
<1>. QED
  BY <1>2, <1>6, <1>7, <1>8, <1>9, Zenon

(* t joins a list of an open channel that no partner waits on. *)
LEMMA JoinsTheBook ==
    ASSUME B!Kept, NEW c \in Channels, NEW t \in Tasklets, ~Closed(c),
           \A d \in Channels : ~B!Waits(t, ch[d]),
           NEW k \in {"send", "recv"},
           k = "send" => /\ ch[c].recv = <<>>
                         /\ ch' = [ch EXCEPT ![c] = UpdateCloseState(AddTaskletToWaitingToSend(@, t))],
           k = "recv" => /\ ch[c].send = <<>>
                         /\ ch' = [ch EXCEPT ![c] = UpdateCloseState(AddTaskletToWaitingToReceive(@, t))]
    PROVE  /\ B!Next /\ SameLists(Tasklets \ {t})
           /\ \A d \in Channels : /\ B!In(t, ch'[d].send) <=> d = c /\ k = "send"
                                  /\ B!In(t, ch'[d].recv) <=> d = c /\ k = "recv"
<1>. DEFINE b == ch[c]
            s == AddTaskletToWaitingToSend(b, t)
            r == AddTaskletToWaitingToReceive(b, t)
<1>1. /\ B!Orderly(b) /\ ch = [d \in Channels |-> ch[d]] /\ b \in ChannelType(Tasklets)
      /\ b.closing = FALSE /\ b.closed = FALSE
      /\ b.send \in Seq(Tasklets) /\ b.recv \in Seq(Tasklets)
  BY ChannelFacts DEF Closed, B!Orderly, B!ChannelType, ChannelType, Direction, B!Direction
<1>2. s.closing = FALSE /\ s.closed = FALSE /\ r.closing = FALSE /\ r.closed = FALSE
      /\ s.send = Append(b.send, t) /\ s.recv = b.recv
      /\ r.recv = Append(b.recv, t) /\ r.send = b.send
      /\ s = [s EXCEPT !.closed = FALSE] /\ r = [r EXCEPT !.closed = FALSE]
  BY <1>1 DEF AddTaskletToWaitingToSend, AddTaskletToWaitingToReceive, ChannelType
<1>3. UpdateCloseState(s) = s /\ UpdateCloseState(r) = r
  BY <1>2 DEF UpdateCloseState
<1>4. /\ k = "send" => ch' = [ch EXCEPT ![c] = s]
      /\ k = "recv" => ch' = [ch EXCEPT ![c] = r]
  BY <1>3
<1>5. B!Next
  <2>1. k = "send" => B!WaitToSend(c, t)
    BY <1>1, <1>4, SameOps DEF B!WaitToSend, B!IsOpen, B!Listed, B!Waits
  <2>2. k = "recv" => B!WaitToReceive(c, t)
    BY <1>1, <1>4, SameOps DEF B!WaitToReceive, B!IsOpen, B!Listed, B!Waits
  <2>. QED
    BY <2>1, <2>2 DEF B!Next
<1>. HIDE DEF s, r
<1>6. \A u : /\ B!In(u, Append(b.send, t)) <=> B!In(u, b.send) \/ u = t
             /\ B!In(u, Append(b.recv, t)) <=> B!In(u, b.recv) \/ u = t
  <2>1. ~B!In(t, b.send) /\ ~B!In(t, b.recv)
    BY DEF B!Waits
  <2>. QED
    BY <1>1, <2>1, ChannelFacts, B!AppendKeeps
<1>7. /\ \A d \in Channels \ {c} : ch'[d] = ch[d]
      /\ k = "send" => ch'[c].send = Append(b.send, t) /\ ch'[c].recv = b.recv
      /\ k = "recv" => ch'[c].recv = Append(b.recv, t) /\ ch'[c].send = b.send
  BY <1>1, <1>2, <1>4
<1>8. \A d \in Channels : ~B!In(t, ch[d].send) /\ ~B!In(t, ch[d].recv)
  BY DEF B!Waits
<1>. HIDE DEF b
<1>9. b = ch[c]
  BY DEF b
<1>10. SameLists(Tasklets \ {t})
  BY <1>6, <1>7, <1>9, Zenon DEF SameLists
<1>11. /\ B!In(t, ch'[c].send) <=> k = "send"
       /\ B!In(t, ch'[c].recv) <=> k = "recv"
  <2>1. CASE k = "send"
    BY <1>6, <1>7, <1>8, <1>9, <2>1
  <2>2. CASE k = "recv"
    BY <1>6, <1>7, <1>8, <1>9, <2>2
  <2>. QED
    BY <2>1, <2>2
<1>. QED
  BY <1>5, <1>7, <1>8, <1>10, <1>11, Zenon

(* Nobody joins or leaves. *)
LEMMA StaysInTheBook ==
    ASSUME B!Kept,
           \/ ch' = ch
           \/ \E c \in Channels :
                 \/ ch' = [ch EXCEPT ![c] = UpdateCloseState(@)]
                 \/ ch' = [ch EXCEPT ![c] = UpdateCloseState([@ EXCEPT !.closing = TRUE])]
                 \/ ch' = [ch EXCEPT ![c].closing = FALSE, ![c].closed = FALSE]
                 \/ \E p \in Direction : ch' = [ch EXCEPT ![c].preference = p]
    PROVE  [B!Next]_ch /\ SameLists(Tasklets)
<1>1. CASE ch' = ch
  BY <1>1 DEF SameLists
<1>2. ASSUME NEW c \in Channels, NEW v,
             ch' = [ch EXCEPT ![c] = v], v.send = ch[c].send, v.recv = ch[c].recv
      PROVE  SameLists(Tasklets)
  <2>1. ch = [d \in Channels |-> ch[d]]
    BY <1>2, ChannelFacts
  <2>2. \A d \in Channels : ch'[d].send = ch[d].send /\ ch'[d].recv = ch[d].recv
    BY <1>2, <2>1
  <2>. QED
    BY <2>2 DEF SameLists
<1>3. ASSUME NEW c \in Channels
      PROVE  /\ B!Orderly(ch[c]) /\ ch[c] \in ChannelType(Tasklets)
             /\ ch = [d \in Channels |-> ch[d]]
             /\ UpdateCloseState(ch[c]) = B!Settled(ch[c])
  <2>1. B!Orderly(ch[c]) /\ ch = [d \in Channels |-> ch[d]]
    BY ChannelFacts
  <2>2. \A b : B!Orderly(b) => UpdateCloseState(b) = B!Settled(b)
    BY SameOps, B!ClosedByBalance
  <2>. QED
    BY <2>1, <2>2 DEF B!Orderly, B!ChannelType, ChannelType, Direction, B!Direction
<1>4. ASSUME NEW c \in Channels, ch' = [ch EXCEPT ![c] = UpdateCloseState(@)]
      PROVE  B!Next /\ SameLists(Tasklets)
  <2>1. ch' = [ch EXCEPT ![c] = UpdateCloseState(ch[c])]
    BY <1>4
  <2>2. UpdateCloseState(ch[c]).send = ch[c].send /\ UpdateCloseState(ch[c]).recv = ch[c].recv
    BY <1>3 DEF UpdateCloseState, ChannelType
  <2>3. B!Settle(c)
    BY <1>3, <1>4 DEF B!Settle
  <2>. QED
    BY <1>2, <2>1, <2>2, <2>3 DEF B!Next
<1>5. ASSUME NEW c \in Channels,
             ch' = [ch EXCEPT ![c] = UpdateCloseState([@ EXCEPT !.closing = TRUE])]
      PROVE  B!Next /\ SameLists(Tasklets)
  <2>. DEFINE b == [ch[c] EXCEPT !.closing = TRUE]
  <2>1. /\ b.send = ch[c].send /\ b.recv = ch[c].recv /\ b \in B!ChannelType(Tasklets)
        /\ b.balance = ch[c].balance /\ b.closing
    BY <1>3 DEF ChannelType, B!ChannelType, Direction, B!Direction
  <2>2. b.balance = Len(b.send) - Len(b.recv) /\ (b.send = <<>> \/ b.recv = <<>>)
        /\ b.send \in Seq(Tasklets) /\ b.recv \in Seq(Tasklets)
    BY <1>3, <2>1 DEF B!Orderly, B!ChannelType
  <2>. HIDE DEF b
  <2>3. ch' = [ch EXCEPT ![c] = UpdateCloseState(b)]
    BY <1>5 DEF b
  <2>4. b.balance = 0 <=> b.send = <<>> /\ b.recv = <<>>
    <3>1. \A x \in Seq(Tasklets) : Len(x) \in Nat /\ (Len(x) = 0 <=> x = <<>>)
      BY EmptySeq
    <3>2. Len(b.send) \in Nat /\ (Len(b.send) = 0 <=> b.send = <<>>)
          /\ Len(b.recv) \in Nat /\ (Len(b.recv) = 0 <=> b.recv = <<>>)
      BY <2>2, <3>1
    <3>. QED
      BY <2>2, <3>2
  <2>5. UpdateCloseState(b) = B!Settled(b)
    BY <2>1, <2>4 DEF UpdateCloseState, B!Settled, B!Drained
  <2>6. B!Close(c)
    BY <2>3, <2>5 DEF B!Close, b
  <2>7. UpdateCloseState(b).send = ch[c].send /\ UpdateCloseState(b).recv = ch[c].recv
    BY <2>1 DEF UpdateCloseState, B!ChannelType
  <2>. QED
    BY <1>2, <2>3, <2>6, <2>7 DEF B!Next
<1>6. ASSUME NEW c \in Channels, ch' = [ch EXCEPT ![c].closing = FALSE, ![c].closed = FALSE]
      PROVE  B!Next /\ SameLists(Tasklets)
  <2>. DEFINE b == [ch[c] EXCEPT !.closing = FALSE, !.closed = FALSE]
  <2>1. b.send = ch[c].send /\ b.recv = ch[c].recv
    BY <1>3 DEF ChannelType
  <2>2. ch' = [ch EXCEPT ![c] = b]
    BY <1>3, <1>6
  <2>3. B!Open(c)
    BY <2>2 DEF B!Open
  <2>. HIDE DEF b
  <2>. QED
    BY <1>2, <2>1, <2>2, <2>3 DEF B!Next
<1>7. ASSUME NEW c \in Channels, NEW p \in Direction, ch' = [ch EXCEPT ![c].preference = p]
      PROVE  B!Next /\ SameLists(Tasklets)
  <2>. DEFINE b == [ch[c] EXCEPT !.preference = p]
  <2>1. b.send = ch[c].send /\ b.recv = ch[c].recv
    BY <1>3 DEF ChannelType
  <2>2. ch' = [ch EXCEPT ![c] = b]
    BY <1>3, <1>7
  <2>3. B!Prefer(c, p)
    BY <2>2 DEF B!Prefer
  <2>. HIDE DEF b
  <2>4. p \in B!Direction
    BY SameOps
  <2>. QED
    BY <1>2, <2>1, <2>2, <2>3, <2>4 DEF B!Next
<1>. QED
  BY <1>1, <1>4, <1>5, <1>6, <1>7

(* The book of TaskletChannels is that of the proofs. *)
LEMMA SameBook ==
    /\ Book!Init <=> B!Init
    /\ Book!Next <=> B!Next
    /\ Book!BalanceOK <=> B!BalanceOK
<1>1. Book!Init <=> B!Init
  BY DEF Book!Init, B!Init, B!InitChannel, Book!InitChannel
<1>2. B!Direction = Book!Direction
  BY DEF B!Direction, Book!Direction
<1>3. \A b, t : B!Left(b, t) = Book!Left(b, t)
  BY DEF B!Left, Book!Left, B!Unlinked, Book!Unlinked, B!In, Book!In
<1>4. \A b : B!Settled(b) = Book!Settled(b)
  BY DEF B!Settled, Book!Settled, B!Drained, Book!Drained
<1>5. \A c, t : B!Listed(c, t) <=> Book!Listed(c, t)
  BY DEF B!Listed, Book!Listed, B!In, Book!In
<1>6. \A c : B!IsOpen(c) <=> Book!IsOpen(c)
  BY DEF B!IsOpen, Book!IsOpen
<1>7. \A c, t : B!WaitToSend(c, t) <=> Book!WaitToSend(c, t)
  BY <1>5, <1>6, Zenon DEF B!WaitToSend, Book!WaitToSend,
     B!AddTaskletToWaitingToSend, Book!AddTaskletToWaitingToSend
<1>8. \A c, t : B!WaitToReceive(c, t) <=> Book!WaitToReceive(c, t)
  BY <1>5, <1>6, Zenon DEF B!WaitToReceive, Book!WaitToReceive,
     B!AddTaskletToWaitingToReceive, Book!AddTaskletToWaitingToReceive
<1>9. \A c, t : B!Leave(c, t) <=> Book!Leave(c, t)
  BY <1>3, <1>4, <1>5 DEF B!Leave, Book!Leave
<1>10. \A c : /\ B!Settle(c) <=> Book!Settle(c)
              /\ B!Close(c) <=> Book!Close(c)
              /\ B!Open(c) <=> Book!Open(c)
              /\ \A p : B!Prefer(c, p) <=> Book!Prefer(c, p)
  BY <1>4 DEF B!Settle, Book!Settle, B!Close, Book!Close, B!Open, Book!Open, B!Prefer, Book!Prefer
<1>11. Book!Next <=> B!Next
  BY <1>2, <1>7, <1>8, <1>9, <1>10, Zenon DEF B!Next, Book!Next
<1>12. Book!BalanceOK <=> B!BalanceOK
  BY DEF Book!BalanceOK, B!BalanceOK
<1>. QED
  BY <1>1, <1>11, <1>12

--------------------------------------------------------------------------------
(* Where those who wait are. *)

Listed(t) == \E c \in Channels : B!Waits(t, ch[c])

(* What is left to do of the call that has put t on c. *)
Wait(t, c) == Rest(IF tk[t].dir = "SENDER" THEN "Send" ELSE "Receive", t, c)

(* t has only f left to do, once somebody has switched back to it. *)
Asleep(t, f) ==
    IF t = Main
    THEN \/ stack[t] = <<Then("Yield.main", Main), f>>
         \/ /\ stack[t] # <<>> /\ Head(stack[t]).k = "Run"
            /\ Tail(stack[t]) = <<Then("Yield.main", Main), f>>
    ELSE stack[t] # <<>> /\ Head(stack[t]).k = "Yield" /\ Tail(stack[t]) = <<f>>

(* t has come back to f, with an exception. *)
Failed(t, f) == active = t /\ stack[t] = <<f>> /\ ret \in Errors

(* t is on its way out of the queue: the loop has yet to look at its mark. *)
Leaves(t) ==
    \/ active = t /\ AtYield(t, "head")
    \/ active = Main /\ RunsOne /\ Target = t

(* The loop of the main tasklet is about to switch to t. *)
Chosen(t) ==
    active = Main /\ AtRun("head") /\ ~RunIsOver(Head(stack[Main])) /\ q.next[Main] = t

(* An exception ends the wait of t. *)
Killed(t) ==
    \/ Chosen(t) /\ tk[t].exc # "none"
    \/ active = t /\ AtYield(t, "in") /\ tk[t].exc # "none"
    \/ active = t /\ AtYield(t, "out") /\ ret \in Errors

Unqueued(t) ==
    /\ q.reschedule[t] = "NONE"
    /\ q.scheduled[t] => active = t \/ Leaves(t) \/ Killed(t)

(* Whoever is listed is suspended in the call that has put it there, and is *)
(* marked blocked, unless it is just being killed.                          *)
Placed(t) ==
    \A c \in Channels : B!Waits(t, ch[c]) =>
        /\ \/ Failed(t, Wait(t, c))
           \/ Asleep(t, Wait(t, c)) /\ (q.blockedOn[t] = c \/ (t # Main /\ Killed(t)))
        /\ t # Main => Unqueued(t)

(* The same of those who are left alone. *)
Idle(t) ==
    \A c \in Channels : B!Waits(t, ch[c]) =>
        /\ Asleep(t, Wait(t, c)) /\ q.blockedOn[t] = c
        /\ t # Main => q.reschedule[t] = "NONE" /\ ~q.scheduled[t]

Sound(t) ==
    /\ q.reschedule[t] # "NONE" => Leaves(t)
    /\ stack[t] # <<>> => gl[t].state = "started"
    /\ gl[t].state = "started" => ~tk[t].firstRun /\ (active # t => stack[t] # <<>>)
    /\ gl[t].state = "new" => tk[t].firstRun
    /\ gl[t].state = "unborn" => ~q.scheduled[t]
    /\ active = t /\ (AtYield(t, "in") \/ AtYield(t, "out")) => ret # "none"

MainSound ==
    /\ q.blockedOn[Main] # NULL => Listed(Main)
    /\ gl[Main].parent = NULL

(* A tasklet that has come back because it has ended, or with an exception, *)
(* has nothing left to do.                                                  *)
Ended ==
    active = Main /\ RunsOne /\ (ret # "ok" \/ q.current = Target) =>
        stack[Target] = <<>> /\ q.reschedule[Target] = "NONE"

Books ==
    /\ B!Kept
    /\ \A t \in Tasklets : Noting(t) /\ Placed(t)
    /\ \A t \in Tasklets \ {Main} : Sound(t)
    /\ MainSound /\ Ended

--------------------------------------------------------------------------------
(* While a call is made, those who wait sleep. *)

LEMMA NotSwitching ==
    ASSUME Control(Channels), stack[active] \in Rests(Channels, active)
    PROVE  /\ \A pc : ~TopIs(active, "Run", pc) /\ ~TopIs(active, "Yield", pc)
           /\ active = Main => ~RunsOne /\ ~AtRun("head")
           /\ \A t : ~Chosen(t) /\ ~Leaves(t) /\ ~Killed(t)
<1>1. \A pc : ~TopIs(active, "Run", pc) /\ ~TopIs(active, "Yield", pc)
  BY TopOfRest DEF TopIs
<1>2. active = Main => ~RunsOne /\ ~AtRun("head")
  BY <1>1 DEF RunsOne, AtRun
<1>. QED
  BY <1>1, <1>2 DEF Chosen, Leaves, Killed, AtYield

LEMMA WaitersSleep ==
    ASSUME Control(Channels), Books, stack[active] \in Rests(Channels, active)
    PROVE  /\ \A u \in Tasklets \ {active} : Idle(u)
           /\ \A u \in Tasklets \ {Main} : q.reschedule[u] = "NONE"
           /\ \A c \in Channels : B!Waits(active, ch[c]) =>
                 \/ Failed(active, Wait(active, c))
                 \/ /\ active = Main /\ q.blockedOn[Main] = c
                    /\ stack[Main] = <<Then("Yield.main", Main), Wait(Main, c)>>
<1>1. /\ \A t : ~Chosen(t) /\ ~Leaves(t) /\ ~Killed(t)
      /\ \A pc : ~TopIs(active, "Run", pc) /\ ~TopIs(active, "Yield", pc)
      /\ active \in Tasklets
  BY NotSwitching DEF Control, Types
<1>2. \A t \in Tasklets : Placed(t)
  BY DEF Books
<1>3. \A u \in Tasklets \ {active} : Idle(u)
  BY <1>1, <1>2 DEF Placed, Idle, Failed, Unqueued
<1>4. \A u \in Tasklets \ {Main} : q.reschedule[u] = "NONE"
  BY <1>1 DEF Books, Sound
<1>5. stack[active] # <<>> => Head(stack[active]).k \notin {"Run", "Yield"}
  BY TopOfRest
<1>6. \A c \in Channels : B!Waits(active, ch[c]) =>
         \/ Failed(active, Wait(active, c))
         \/ /\ active = Main /\ q.blockedOn[Main] = c
            /\ stack[Main] = <<Then("Yield.main", Main), Wait(Main, c)>>
  BY <1>1, <1>2, <1>5 DEF Placed, Asleep
<1>. QED
  BY <1>3, <1>4, <1>6

(* Python code runs only in tasklets that wait for nothing, and so does     *)
(* what is left of a kill or of a clear.                                    *)
LEMMA CallerIsFree ==
    ASSUME Control(Channels), Books, stack[active] \in Rests(Channels, active),
           stack[active] # <<>> =>
              Head(stack[active]).k \notin {"Yield.main", "Send", "Receive"}
    PROVE  /\ ~Listed(active) /\ tk[active].dir = "NEITHER"
           /\ active = Main => q.blockedOn[Main] = NULL
<1>1. active \in Tasklets
  BY DEF Control, Types
<1>2. \A c \in Channels : ~Failed(active, Wait(active, c))
  BY DEF Failed, Wait, Rest
<1>3. \A c \in Channels : stack[Main] = <<Then("Yield.main", Main), Wait(Main, c)>> => active # Main
  BY DEF Then
<1>4. ~Listed(active)
  BY <1>2, <1>3, WaitersSleep DEF Listed
<1>5. tk[active].dir = "NEITHER"
  BY <1>1, <1>4 DEF Books, Noting, Listed
<1>. QED
  BY <1>4, <1>5 DEF Books, MainSound

(* Who is listed, by what it notes. *)
LEMMA ListedNotes ==
    ASSUME Books, NEW t \in Tasklets
    PROVE  /\ Listed(t) <=> tk[t].dir # "NEITHER"
           /\ \A c \in Channels : B!Waits(t, ch[c]) =>
                 /\ tk[t].dir = "SENDER" <=> B!In(t, ch[c].send)
                 /\ tk[t].dir = "RECEIVER" <=> B!In(t, ch[c].recv)
BY DEF Books, Noting, Listed, B!Waits

--------------------------------------------------------------------------------
(* A call that stays on its greenlet. *)

Steady(u) ==
    /\ q'.blockedOn[u] = q.blockedOn[u] /\ q'.reschedule[u] = q.reschedule[u]
    /\ q'.scheduled[u] => q.scheduled[u]
    /\ tk'[u].dir = tk[u].dir /\ tk'[u].firstRun = tk[u].firstRun
    /\ gl'[u].state = gl[u].state

Unmoved(u) == SameLists({u}) /\ Steady(u)

Gone(u) == (\A c \in Channels : ~B!Waits(u, ch'[c])) /\ tk'[u].dir = "NEITHER"

Settles(u) ==
    /\ q'.reschedule[u] = "NONE"
    /\ \/ /\ gl'[u].state = gl[u].state /\ tk'[u].firstRun = tk[u].firstRun
          /\ q'.scheduled[u] => q.scheduled[u] \/ gl[u].state # "unborn"
       \/ gl[u].state # "started" /\ gl'[u].state = "new" /\ tk'[u].firstRun
       \/ gl[u].state # "started" /\ gl'[u].state = "unborn" /\ ~q'.scheduled[u]

LEMMA GoneIsPlaced ==
    ASSUME NEW u, Gone(u)
    PROVE  Noting(u)' /\ Placed(u)' /\ Idle(u)'
BY DEF Gone, Noting, Placed, Idle, B!Waits

LEMMA IdleIsPlaced ==
    ASSUME NEW u, Idle(u)'
    PROVE  Placed(u)'
BY DEF Idle, Placed, Unqueued

LEMMA UnmovedIsIdle ==
    ASSUME NEW u, Noting(u), Idle(u), Unmoved(u), stack'[u] = stack[u]
    PROVE  Noting(u)' /\ Idle(u)'
<1>1. \A c \in Channels : /\ B!In(u, ch'[c].send) <=> B!In(u, ch[c].send)
                          /\ B!In(u, ch'[c].recv) <=> B!In(u, ch[c].recv)
                          /\ B!Waits(u, ch'[c]) <=> B!Waits(u, ch[c])
  BY DEF Unmoved, SameLists, B!Waits
<1>2. tk'[u].dir = tk[u].dir
  BY DEF Unmoved, Steady
<1>3. Noting(u)'
  BY <1>1, <1>2 DEF Noting
<1>4. \A c : Wait(u, c)' = Wait(u, c)
  BY <1>2 DEF Wait
<1>5. \A f : Asleep(u, f) => Asleep(u, f)'
  BY DEF Asleep
<1>6. Idle(u)'
  <2>. SUFFICES ASSUME NEW c \in Channels, B!Waits(u, ch'[c])
                PROVE  /\ Asleep(u, Wait(u, c))' /\ q'.blockedOn[u] = c
                       /\ u # Main => q'.reschedule[u] = "NONE" /\ ~q'.scheduled[u]
    BY DEF Idle
  <2>1. /\ Asleep(u, Wait(u, c)) /\ q.blockedOn[u] = c
        /\ u # Main => q.reschedule[u] = "NONE" /\ ~q.scheduled[u]
    BY <1>1 DEF Idle
  <2>2. Asleep(u, Wait(u, c))'
    BY <1>4, <2>1 DEF Asleep
  <2>. QED
    BY <2>1, <2>2 DEF Unmoved, Steady
<1>. QED
  BY <1>3, <1>6

(* What is to be shown of every step. *)
KeepsBooks == Books' /\ [B!Next]_ch

LEMMA CallKeepsBooks ==
    ASSUME Control(Channels), Books, stack[active] \in Rests(Channels, active), Stays(Channels),
           [B!Next]_ch,
           \A u \in Tasklets \ {active} :
              \/ Unmoved(u)
              \/ Noting(u)' /\ Placed(u)' /\ (u # Main => Settles(u)),
           NEW a, a = active, Noting(a)', Placed(a)', MainSound',
           active # Main => /\ gl'[active].state = gl[active].state
                            /\ tk'[active].firstRun = tk[active].firstRun
                            /\ q'.reschedule[active] # "NONE" => AtHead(Channels)
    PROVE  KeepsBooks
<1>1. /\ active \in Tasklets /\ active' = active
      /\ \A t \in Tasklets : t # active => stack'[t] = stack[t]
  BY DEF Stays, Control, Types, Stacks
<1>2. B!Kept'
  BY B!NextKeeps DEF Books
<1>3. /\ \A u \in Tasklets \ {active} : Idle(u)
      /\ \A u \in Tasklets \ {Main} : q.reschedule[u] = "NONE"
  BY WaitersSleep
<1>4. \A u \in Tasklets : Noting(u)' /\ Placed(u)'
  <2>1. ASSUME NEW u \in Tasklets, u # active, Unmoved(u) PROVE Noting(u)' /\ Placed(u)'
    <3>1. Noting(u) /\ Idle(u) /\ stack'[u] = stack[u]
      BY <1>1, <1>3, <2>1 DEF Books
    <3>. QED
      BY <2>1, <3>1, UnmovedIsIdle, IdleIsPlaced
  <2>2. ASSUME NEW u \in Tasklets PROVE Noting(u)' /\ Placed(u)'
    <3>1. u = active => u = a
      OBVIOUS
    <3>. QED
      BY <2>1, <2>2, <3>1, Zenon
  <2>. QED
    BY <2>2
<1>5. ASSUME NEW u \in Tasklets \ {Main}, u # active PROVE Sound(u)'
  <2>1. /\ stack[u] # <<>> <=> gl[u].state = "started"
        /\ gl[u].state = "started" => ~tk[u].firstRun
        /\ gl[u].state = "new" => tk[u].firstRun
        /\ gl[u].state = "unborn" => ~q.scheduled[u]
    BY <1>5 DEF Books, Sound
  <2>2. Unmoved(u) \/ Settles(u)
    BY <1>5
  <2>3. q'.reschedule[u] = "NONE"
    BY <1>3, <1>5, <2>2 DEF Unmoved, Steady, Settles
  <2>4. /\ stack'[u] # <<>> <=> gl'[u].state = "started"
        /\ gl'[u].state = "started" => ~tk'[u].firstRun
        /\ gl'[u].state = "new" => tk'[u].firstRun
        /\ gl'[u].state = "unborn" => ~q'.scheduled[u]
    BY <1>1, <1>5, <2>1, <2>2 DEF Unmoved, Steady, Settles
  <2>. QED
    BY <1>1, <1>5, <2>3, <2>4 DEF Sound
<1>6. /\ stack'[active] # <<>> /\ AtHead(Channels) /\ active # Main => TopIs(active, "Yield", "head")'
      /\ stack'[active] \in Rests(Channels, active) =>
            \A pc : ~TopIs(active, "Run", pc)' /\ ~TopIs(active, "Yield", pc)'
      /\ AtHead(Channels) => \A k : \A pc \in {"in", "out"} : ~TopIs(active, k, pc)'
  <2>1. stack'[active] \in Rests(Channels, active) =>
            \A pc : ~TopIs(active, "Run", pc)' /\ ~TopIs(active, "Yield", pc)'
    BY <1>1, TopOfRest DEF TopIs
  <2>2. AtHead(Channels) => /\ stack'[active] # <<>> /\ Head(stack'[active]).pc = "head"
                            /\ Head(stack'[active]) \in Switching(active)
    BY DEF AtHead, Switches
  <2>3. active # Main /\ AtHead(Channels) => Head(stack'[active]).k = "Yield"
    BY <2>2 DEF Switching, YieldFrames
  <2>. QED
    BY <1>1, <2>1, <2>2, <2>3 DEF TopIs
<1>7. active # Main => Sound(active)'
  <2>. SUFFICES ASSUME active # Main PROVE Sound(active)'
    OBVIOUS
  <2>1. gl[active].state = "started"
    BY Here
  <2>2. ~tk[active].firstRun
    BY <1>1, <2>1 DEF Books, Sound
  <2>3. AtHead(Channels) => Leaves(active)'
    <3>1. AtHead(Channels) => stack'[active] # <<>>
      BY DEF AtHead, Switches
    <3>. QED
      BY <1>1, <1>6, <3>1 DEF Leaves, AtYield
  <2>4. ~AtYield(active, "in")' /\ ~AtYield(active, "out")'
    BY <1>1, <1>6 DEF Stays, AtYield
  <2>. QED
    BY <1>1, <2>1, <2>2, <2>3, <2>4 DEF Sound
<1>8. Ended'
  <2>1. active = Main => ~RunsOne'
    BY <1>1, <1>6 DEF Stays, RunsOne, AtRun
  <2>. QED
    BY <1>1, <2>1 DEF Ended
<1>. QED
  BY <1>1, <1>2, <1>4, <1>5, <1>7, <1>8 DEF Books, KeepsBooks

(* A call of a tasklet that waits for nothing, about one t. *)
LEMMA QuietCall ==
    ASSUME Control(Channels), Books, stack[active] \in Rests(Channels, active), ~Listed(active),
           Stays(Channels), [B!Next]_ch, SameLists(Tasklets),
           \A u \in Tasklets : tk'[u].dir = tk[u].dir,
           NEW t \in Tasklets, \A u \in Tasklets \ {active, t} : Steady(u),
           t # active => Steady(t) \/ (~Listed(t) /\ (t # Main => Settles(t))),
           active # Main => /\ gl'[active].state = gl[active].state
                            /\ tk'[active].firstRun = tk[active].firstRun
                            /\ q'.reschedule[active] # "NONE" => AtHead(Channels),
           q'.blockedOn[Main] \in {q.blockedOn[Main], NULL}, gl'[Main].parent = NULL
    PROVE  KeepsBooks
<1>1. \A u \in Tasklets : \A d \in Channels :
         /\ B!In(u, ch'[d].send) <=> B!In(u, ch[d].send)
         /\ B!In(u, ch'[d].recv) <=> B!In(u, ch[d].recv)
         /\ B!Waits(u, ch'[d]) <=> B!Waits(u, ch[d])
  BY DEF SameLists, B!Waits
<1>2. \A u \in Tasklets : SameLists({u})
  BY DEF SameLists
<1>3. ASSUME NEW u \in Tasklets, ~Listed(u)
      PROVE  Noting(u)' /\ Placed(u)'
  <2>1. \A d \in Channels : ~B!Waits(u, ch'[d])
    BY <1>1, <1>3 DEF Listed
  <2>2. tk[u].dir = "NEITHER"
    BY <1>3, ListedNotes
  <2>3. tk'[u].dir = "NEITHER"
    BY <2>2
  <2>. QED
    BY <2>1, <2>3, GoneIsPlaced DEF Gone
<1>4. \A u \in Tasklets \ {active} :
         \/ Unmoved(u)
         \/ Noting(u)' /\ Placed(u)' /\ (u # Main => Settles(u))
  <2>1. ASSUME NEW u \in Tasklets \ {active}, Steady(u) PROVE Unmoved(u)
    BY <1>2, <2>1 DEF Unmoved
  <2>2. ASSUME NEW u \in Tasklets \ {active}, u = t, ~Steady(u)
        PROVE  Noting(u)' /\ Placed(u)' /\ (u # Main => Settles(u))
    <3>1. ~Listed(t) /\ (t # Main => Settles(t))
      BY <2>2
    <3>2. Noting(t)' /\ Placed(t)'
      BY <1>3, <3>1
    <3>. QED
      BY <2>2, <3>1, <3>2
  <2>. QED
    BY <2>1, <2>2, Zenon
<1>5. MainSound'
  <2>1. Listed(Main)' <=> Listed(Main)
    BY <1>1, MainAssumption DEF Listed
  <2>2. q'.blockedOn[Main] # NULL => q.blockedOn[Main] # NULL
    OBVIOUS
  <2>. QED
    BY <2>1, <2>2 DEF MainSound, Books
<1>6. active \in Tasklets
  BY DEF Control, Types
<1>. DEFINE a == active
<1>7. a = active /\ a \in Tasklets /\ ~Listed(a)
  BY <1>6
<1>. HIDE DEF a
<1>8. \A b \in Tasklets : ~Listed(b) => Noting(b)' /\ Placed(b)'
  BY <1>3
<1>9. PICK b \in Tasklets : b = active
  BY <1>6
<1>10. ~Listed(b)
  BY <1>9, <1>7
<1>11. Noting(b)' /\ Placed(b)'
  BY <1>8, <1>10
<1>. QED
  BY <1>4, <1>5, <1>9, <1>11, CallKeepsBooks

--------------------------------------------------------------------------------
(* The calls that take nobody off a channel. *)

LEMMA CallIsQuiet ==
    ASSUME Control(Channels), Books, NEW op, Calls(op)
    PROVE  /\ stack[active] = <<>> /\ stack[active] \in Seq(PlainFrames(Channels))
           /\ stack[active] \in Rests(Channels, active)
           /\ q.current = active /\ active \in Tasklets /\ Q!Good(q)
           /\ ~Listed(active) /\ tk[active].dir = "NEITHER"
           /\ active = Main => q.blockedOn[Main] = NULL
           /\ gl[Main].parent = NULL
           /\ \A u \in Tasklets \ {Main} : q.reschedule[u] = "NONE"
           /\ tk \in [Tasklets -> TaskletType]
<1>1. /\ stack[active] = <<>> /\ stack[active] \in Seq(PlainFrames(Channels))
      /\ stack[active] \in Rests(Channels, active)
      /\ q.current = active /\ active \in Tasklets
  BY CallIsMade
<1>2. Q!Good(q) /\ tk \in [Tasklets -> TaskletType]
  BY DEF Control, Types, QueueFits, TaskletsFit
<1>. QED
  BY <1>1, <1>2, CallerIsFree, WaitersSleep DEF Books, MainSound

(* The book of channels when they stay as they are. *)
LEMMA SameBookAgain ==
    ASSUME Books, ch' = ch
    PROVE  [B!Next]_ch /\ SameLists(Tasklets)
BY StaysInTheBook DEF Books

(* Nothing of what the books are about has changed. *)
LEMMA OnlyTheStack ==
    ASSUME Control(Channels), Books, stack[active] \in Rests(Channels, active), ~Listed(active),
           Stays(Channels), [B!Next]_ch, SameLists(Tasklets), q' = q, gl' = gl,
           \A u \in Tasklets : tk'[u].dir = tk[u].dir /\ tk'[u].firstRun = tk[u].firstRun
    PROVE  KeepsBooks
<1>1. \A u \in Tasklets : Steady(u)
  BY DEF Steady
<1>2. gl'[Main].parent = NULL
  BY DEF Books, MainSound
<1>3. active \in Tasklets /\ \A u \in Tasklets \ {Main} : q'.reschedule[u] = "NONE"
  BY WaitersSleep DEF Control, Types
<1>. QED
  BY <1>1, <1>2, <1>3, QuietCall

LEMMA ContinuesInPlace ==
    ASSUME Control(Channels), Control(Channels)', NEW fs, NEW r, Continue(fs, r),
           fs # <<>> => Head(fs).k \notin {"Run", "Yield"} \/ Head(fs).pc = "head"
    PROVE  Stays(Channels)
<1>1. /\ active' = active /\ active \in Tasklets
      /\ stack' = [stack EXCEPT ![active] = fs] /\ stack = [t \in Tasklets |-> stack[t]]
  BY DEF Continue, Control, Types, Stacks
<1>2. stack'[active] = fs
  BY <1>1
<1>3. fs \in Rests(Channels, active) \/ Switches(Channels, active, fs)
  BY <1>1, <1>2 DEF Control, Stacks
<1>4. Switches(Channels, active, fs) => Head(fs).pc = "head"
  BY DEF Switches, Switching, RunFrames, YieldFrames
<1>. QED
  BY <1>1, <1>2, <1>3, <1>4 DEF Stays, AtHead

LEMMA ScheduleKeepsBooks ==
    ASSUME Control(Channels), Books, Schedule \/ ScheduleRemove
    PROVE  KeepsBooks
<1>1. PICK op : Calls(op)
  BY DEF Schedule, ScheduleRemove
<1>2. ch' = ch
  BY DEF Schedule, ScheduleRemove
<1>3. [B!Next]_ch /\ SameLists(Tasklets)
  BY <1>2, SameBookAgain
<1>4. ASSUME Schedule PROVE KeepsBooks
  <2>. DEFINE q0 == SetReschedule(q, q.current, "BACK")
  <2>1. Yield(q0, tk, <<>>)
    BY <1>4 DEF Schedule
  <2>2. q.current = active /\ Flagged(q, q0, active, "BACK")
    BY <1>1, CallIsQuiet, MarksFlag DEF RescheduleType
  <2>. HIDE DEF q0
  <2>3. /\ Stays(Channels) /\ q' = q0 /\ tk' = tk /\ gl' = gl
        /\ active # Main => AtHead(Channels)
    BY <1>1, <2>1, <2>2, CallIsQuiet, NoConts, YieldStays DEF Flagged
  <2>4. \A u \in Tasklets \ {active} : Steady(u)
    BY <2>2, <2>3 DEF Flagged, Steady
  <2>5. q'.blockedOn = q.blockedOn
    BY <2>2, <2>3 DEF Flagged
  <2>. QED
    BY <1>1, <1>3, <2>3, <2>4, <2>5, CallIsQuiet, QuietCall
<1>5. ASSUME ScheduleRemove PROVE KeepsBooks
  <2>. DEFINE tk0 == [tk EXCEPT ![q.current].tagged = TRUE]
  <2>1. Yield(q, tk0, <<>>)
    BY <1>5 DEF ScheduleRemove
  <2>2. \A u \in Tasklets : tk0[u].dir = tk[u].dir /\ tk0[u].firstRun = tk[u].firstRun
    BY <1>1, CallIsQuiet DEF TaskletType
  <2>. HIDE DEF tk0
  <2>3. Stays(Channels) /\ q' = q /\ tk' = tk0 /\ gl' = gl
    BY <1>1, <2>1, CallIsQuiet, NoConts, YieldStays
  <2>. QED
    BY <1>1, <1>3, <2>2, <2>3, CallIsQuiet, OnlyTheStack
<1>. QED
  BY <1>4, <1>5

(* Calls that are answered at once, and those that start a loop. *)
LEMMA AnswersKeepBooks ==
    ASSUME Control(Channels), OwnFrames, Flat, Books,
           \/ RunScheduler \/ (\E n \in 1..MaxLimit : RunNTasklets(n)) \/ RunTaskletsForTime
           \/ \E delta \in {-1, 1} : SwitchTrap(delta)
           \/ Catch
    PROVE  KeepsBooks
<1>1. Control(Channels)'
  BY RunSchedulerKeepsControl, RunLimitedKeepsControl, SwitchTrapKeepsControl, CatchKeepsControl
<1>2. stack[active] = <<>> /\ q' = q /\ tk' = tk /\ gl' = gl /\ ch' = ch
  BY DEF RunScheduler, RunNTasklets, RunTaskletsForTime, SwitchTrap, Catch, Raising, Calls, Running, InPython
<1>3. stack[active] \in Rests(Channels, active)
  BY <1>2, EmptyStack
<1>4. ~Listed(active)
  BY <1>2, <1>3, CallerIsFree
<1>5. Stays(Channels)
  <2>1. stack[active] \in Seq(PlainFrames(Channels)) /\ <<>> \o stack[active] = <<>>
    BY <1>2, EmptyStack
  <2>2. ASSUME (\E delta \in {-1, 1} : SwitchTrap(delta)) \/ Catch PROVE Stays(Channels)
    <3>1. Continue(<<>>, "ok")
      BY <2>1, <2>2 DEF SwitchTrap, Catch, Answer
    <3>. QED
      BY <1>1, <3>1, ContinuesInPlace
  <2>3. ASSUME NEW f, NEW s, f.pc = "head", Continue(<<f, s>>, "none") PROVE Stays(Channels)
    BY <1>1, <2>3, ContinuesInPlace
  <2>4. ASSUME NEW f, f.pc = "head", Continue(<<f>>, "none") PROVE Stays(Channels)
    BY <1>1, <2>4, ContinuesInPlace
  <2>5. \A b, e, u : RunFrame(b, e, u).pc = "head"
    BY DEF RunFrame
  <2>6. ASSUME RunScheduler PROVE Stays(Channels)
    <3>. DEFINE f == RunFrame(q.current, NULL, FALSE)
    <3>1. Push(<<f>>) /\ f.pc = "head"
      BY <2>5, <2>6 DEF RunScheduler
    <3>. HIDE DEF f
    <3>2. <<f>> \o stack[active] = <<f>>
      BY <1>2
    <3>. QED
      BY <2>4, <3>1, <3>2 DEF Push
  <2>7. ASSUME NEW k, Push(<<RunFrame(q.current, NULL, FALSE), Then(k, NULL)>>) PROVE Stays(Channels)
    <3>. DEFINE f == RunFrame(q.current, NULL, FALSE)
                w == Then(k, NULL)
    <3>1. Push(<<f, w>>) /\ f.pc = "head"
      BY <2>5, <2>7
    <3>. HIDE DEF f, w
    <3>2. <<f, w>> \o stack[active] = <<f, w>>
      BY <1>2
    <3>. QED
      BY <2>3, <3>1, <3>2 DEF Push
  <2>. QED
    BY <2>2, <2>6, <2>7 DEF RunNTasklets, RunTaskletsForTime
<1>. QED
  BY <1>2, <1>3, <1>4, <1>5, SameBookAgain, OnlyTheStack

LEMMA SettersKeepBooks ==
    ASSUME Control(Channels), Books,
           \/ \E c \in Channels : Close(c) \/ Open(c) \/ \E p \in Direction : SetPreference(c, p)
           \/ \E value \in BOOLEAN : SetBlocktrap(value)
    PROVE  KeepsBooks
<1>1. PICK op : Calls(op)
  BY DEF Close, Open, SetPreference, SetBlocktrap
<1>2. Answer(<<>>, "ok") /\ UNCHANGED <<q, gl, mgr>>
  BY DEF Close, Open, SetPreference, SetBlocktrap
<1>3. Stays(Channels)
  BY <1>1, <1>2, CallIsQuiet, NoConts, SimpleOutcomes, AnswerStays
<1>4. [B!Next]_ch /\ SameLists(Tasklets)
  BY StaysInTheBook DEF Books, Close, Open, SetPreference, SetBlocktrap
<1>5. \A u \in Tasklets : tk'[u].dir = tk[u].dir /\ tk'[u].firstRun = tk[u].firstRun
  <2>1. tk' = tk \/ \E value \in BOOLEAN : tk' = [tk EXCEPT ![active].blockTrap = value]
    BY DEF Close, Open, SetPreference, SetBlocktrap
  <2>2. tk \in [Tasklets -> TaskletType] /\ active \in Tasklets
    BY <1>1, CallIsQuiet
  <2>. QED
    BY <2>1, <2>2 DEF TaskletType
<1>. QED
  BY <1>1, <1>2, <1>3, <1>4, <1>5, CallIsQuiet, OnlyTheStack

(* What is left of a clear moves on, and so does a limited run's end. *)
LEMMA ClearsKeepBooks ==
    ASSUME Control(Channels), OwnFrames, Flat, Books,
           ClearGoesOn \/ ClearTurns \/ ClearEnds \/ LimitedRunReturns
    PROVE  KeepsBooks
<1>1. Control(Channels)'
  BY ClearsKeepControl, LimitedRunReturnsKeepsControl DEF OwnFrames, MarkedIn
<1>2. stack[active] # <<>> /\ Top.k \in {"Clear"} \cup Limited /\ q' = q /\ tk' = tk /\ gl' = gl /\ ch' = ch
  BY DEF ClearGoesOn, ClearTurns, ClearEnds, LimitedRunReturns, AtClear, AtThen, Limited
<1>3. stack[active] \in Rests(Channels, active)
  BY <1>2, RestOfACall DEF Limited
<1>4. ~Listed(active)
  BY <1>2, <1>3, CallerIsFree DEF Top, Limited
<1>5. Stays(Channels)
  <2>1. ASSUME NEW r, Return(r) PROVE Stays(Channels)
    <3>. DEFINE s == Tail(stack[active])
    <3>1. s \in Seq(PlainFrames(Channels))
      BY <1>2, <1>3, TopOfRest
    <3>2. s # <<>> => Head(s) \in PlainFrames(Channels)
      BY <3>1
    <3>3. s # <<>> => Head(s).k \notin {"Run", "Yield"}
      BY <3>2, PlainKinds
    <3>. HIDE DEF s
    <3>4. Continue(s, r)
      BY <2>1 DEF Return, s
    <3>. QED
      BY <1>1, <3>3, <3>4, ContinuesInPlace
  <2>2. ASSUME NEW f, f.k = "Clear", Continue(<<f>> \o Tail(stack[active]), "none") PROVE Stays(Channels)
    <3>1. Tail(stack[active]) \in Seq(PlainFrames(Channels))
      BY <1>2, <1>3, TopOfRest
    <3>. DEFINE s == <<f>> \o Tail(stack[active])
    <3>2. Head(s) = f
      BY <3>1, PutOnTop
    <3>. HIDE DEF s
    <3>3. Continue(s, "none")
      BY <2>2 DEF s
    <3>4. Head(s).k \notin {"Run", "Yield"}
      BY <2>2, <3>2
    <3>. QED
      BY <1>1, <3>3, <3>4, ContinuesInPlace
  <2>3. ASSUME ClearGoesOn \/ ClearTurns PROVE Stays(Channels)
    <3>1. Top \in ClearFrames
      BY <2>3, ClearedByMain DEF OwnFrames, ClearGoesOn, ClearTurns, ClearFrames
    <3>2. [Top EXCEPT !.failed = @ \/ ret # "ok"].k = "Clear"
      BY <3>1 DEF ClearFrames
    <3>3. [Top EXCEPT !.todo = IF Top.senders THEN Tail(@) ELSE @, !.senders = ~@].k = "Clear"
      BY <3>1 DEF ClearFrames
    <3>. QED
      BY <2>2, <2>3, <3>2, <3>3 DEF ClearGoesOn, ClearTurns
  <2>. QED
    BY <2>1, <2>3 DEF ClearEnds, LimitedRunReturns
<1>. QED
  BY <1>2, <1>3, <1>4, <1>5, SameBookAgain, OnlyTheStack

(* Whoever is not marked blocked, has not started or is not alive waits for nothing. *)
LEMMA FreeOnes ==
    ASSUME Control(Channels), Books, stack[active] \in Rests(Channels, active),
           NEW t \in Tasklets \ {active}
    PROVE  /\ Listed(t) => q.blockedOn[t] # NULL /\ stack[t] # <<>>
           /\ Listed(t) /\ t # Main =>
                 q.reschedule[t] = "NONE" /\ ~q.scheduled[t] /\ gl[t].state = "started"
           /\ \A c \in Channels : B!Waits(t, ch[c]) => q.blockedOn[t] = c
<1>1. Idle(t)
  BY WaitersSleep
<1>2. ASSUME NEW c \in Channels, B!Waits(t, ch[c])
      PROVE  q.blockedOn[t] = c /\ stack[t] # <<>>
  BY <1>1, <1>2 DEF Idle, Asleep
<1>3. t # Main /\ stack[t] # <<>> => gl[t].state = "started"
  BY DEF Books, Sound
<1>. QED
  BY <1>1, <1>2, <1>3, NullAssumption DEF Idle, Listed

LEMMA CallerIsQueued ==
    ASSUME Control(Channels), stack[active] \in Rests(Channels, active)
    PROVE  q.scheduled[active] /\ q.scheduled[Main] /\ gl[active].state = "started"
<1>1. Q!Good(q) /\ gl[Main].state = "started"
  BY DEF Control, Types, QueueFits, GreenletsFit
<1>. QED
  BY <1>1, GoodQueue, Here

LEMMA InsertKeepsBooks ==
    ASSUME Control(Channels), Books, Gentle, NEW t \in Tasklets, Insert(t)
    PROVE  KeepsBooks
<1>1. Calls(IF q.scheduled[t] THEN "insert_queued" ELSE "insert") /\ gl[t].state # "unborn"
      /\ gl' = gl /\ mgr' = mgr /\ ch' = ch
  BY DEF Insert
<1>2. PICK op : Calls(op)
  BY <1>1
<1>3. ~q.scheduled[t]
  BY <1>1, CallIsMade DEF Gentle, AllOps, CalledBy
<1>4. [B!Next]_ch /\ SameLists(Tasklets)
  BY <1>1, SameBookAgain
<1>5. CASE IsBlocked(q, t) \/ ~tk[t].alive
  <2>1. Answer(<<>>, "Error") /\ q' = q /\ tk' = tk
    BY <1>5 DEF Insert
  <2>2. Stays(Channels)
    BY <1>2, <2>1, CallIsQuiet, NoConts, SimpleOutcomes, AnswerStays
  <2>. QED
    BY <1>1, <1>2, <1>4, <2>1, <2>2, CallIsQuiet, OnlyTheStack
<1>6. CASE ~(IsBlocked(q, t) \/ ~tk[t].alive)
  <2>1. Answer(<<>>, "ok") /\ q' = InsertTasklet(q, t) /\ tk' = [tk EXCEPT ![t].paused = FALSE]
    BY <1>6 DEF Insert
  <2>2. Stays(Channels)
    BY <1>2, <2>1, CallIsQuiet, NoConts, SimpleOutcomes, AnswerStays
  <2>3. Inserted(q, q', t)
    BY <1>2, <2>1, CallIsQuiet, InsertsInsert
  <2>4. \A u \in Tasklets : tk'[u].dir = tk[u].dir /\ tk'[u].firstRun = tk[u].firstRun
    <3>1. tk \in [Tasklets -> TaskletType]
      BY <1>2, CallIsQuiet
    <3>. QED
      BY <2>1, <3>1 DEF TaskletType
  <2>5. t \notin {Main, active}
    BY <1>2, <1>3, CallIsQuiet, CallerIsQueued
  <2>6. \A u \in Tasklets \ {t} : Steady(u)
    BY <1>1, <2>3, <2>4 DEF Inserted, Steady
  <2>7. ~Listed(t)
    BY <1>2, <1>6, <2>5, FreeOnes, CallIsQuiet DEF IsBlocked
  <2>8. q.reschedule[t] = "NONE" /\ q'.reschedule[t] = q.reschedule[t]
    BY <1>2, <1>3, <2>3, <2>5, CallIsQuiet DEF Inserted
  <2>9. Settles(t)
    BY <1>1, <2>4, <2>8 DEF Settles
  <2>10. /\ q'.blockedOn[Main] = q.blockedOn[Main] /\ active \in Tasklets
         /\ q'.reschedule[active] = q.reschedule[active]
    BY <1>2, <2>3, <2>5, MainAssumption, CallIsQuiet DEF Inserted
  <2>. QED
    BY <1>1, <1>2, <1>4, <2>2, <2>4, <2>6, <2>7, <2>9, <2>10, CallIsQuiet, QuietCall
<1>. QED
  BY <1>5, <1>6

LEMMA RemoveKeepsBooks ==
    ASSUME Control(Channels), Books, Flat, NEW t \in Tasklets, Remove(t)
    PROVE  KeepsBooks
<1>1. t \notin {Main, active}
  BY RemoveKeepsControl
<1>2. PICK op : Calls(op)
  BY DEF Remove
<1>3. gl' = gl /\ mgr' = mgr /\ ch' = ch /\ Answer(<<>>, "ok")
  BY DEF Remove
<1>4. [B!Next]_ch /\ SameLists(Tasklets) /\ Stays(Channels)
  BY <1>2, <1>3, SameBookAgain, CallIsQuiet, NoConts, SimpleOutcomes, AnswerStays
<1>5. CASE q.scheduled[t]
  <2>1. q' = RemoveTasklet(q, t) /\ tk' = [tk EXCEPT ![t].paused = TRUE]
    BY <1>5 DEF Remove
  <2>2. Removed(q, q', t)
    BY <1>1, <1>2, <2>1, CallIsQuiet, RemoveRemoves
  <2>3. \A u \in Tasklets : tk'[u].dir = tk[u].dir /\ tk'[u].firstRun = tk[u].firstRun
    <3>1. tk \in [Tasklets -> TaskletType]
      BY <1>2, CallIsQuiet
    <3>. QED
      BY <2>1, <3>1 DEF TaskletType
  <2>4. \A u \in Tasklets : Steady(u)
    BY <1>3, <2>2, <2>3 DEF Removed, Steady
  <2>5. q'.blockedOn = q.blockedOn /\ q'.reschedule = q.reschedule
    BY <2>2 DEF Removed
  <2>. QED
    BY <1>2, <1>3, <1>4, <2>3, <2>4, <2>5, CallIsQuiet, QuietCall
<1>6. CASE ~q.scheduled[t]
  <2>1. q' = q /\ tk' = tk
    BY <1>6 DEF Remove
  <2>. QED
    BY <1>2, <1>3, <1>4, <2>1, CallIsQuiet, OnlyTheStack
<1>. QED
  BY <1>5, <1>6

LEMMA RunKeepsBooks ==
    ASSUME Control(Channels), Books, Flat, NEW t \in Tasklets, Run(t)
    PROVE  KeepsBooks
<1>1. /\ Calls("run") /\ gl[t].state # "unborn" /\ t # Main /\ t # active
      /\ RunTasklet(t, q, tk, <<>>) /\ mgr' = mgr /\ ch' = ch
  BY DEF Run, Flat
<1>2. [B!Next]_ch /\ SameLists(Tasklets)
  BY <1>1, SameBookAgain
<1>3. CASE ~tk[t].alive \/ IsBlocked(q, t)
  <2>1. Answer(<<>>, "Error") /\ q' = q /\ tk' = tk /\ gl' = gl
    BY <1>1, <1>3 DEF RunTasklet
  <2>2. Stays(Channels)
    BY <1>1, <2>1, CallIsQuiet, NoConts, SimpleOutcomes, AnswerStays
  <2>. QED
    BY <1>1, <1>2, <2>1, <2>2, CallIsQuiet, OnlyTheStack
<1>4. CASE ~(~tk[t].alive \/ IsBlocked(q, t))
  <2>. DEFINE q1 == MoveToRunNext(q, t)
  <2>1. Yield(q1, tk, <<>>)
    BY <1>1, <1>4 DEF RunTasklet, Flat
  <2>2. q.current = active /\ Moved(q, q1, t)
    BY <1>1, CallIsQuiet, CallerIsQueued, MoveMoves
  <2>. HIDE DEF q1
  <2>3. /\ Stays(Channels) /\ q' = q1 /\ tk' = tk /\ gl' = gl
        /\ active # Main => AtHead(Channels)
    BY <1>1, <2>1, <2>2, CallIsQuiet, NoConts, YieldStays DEF Moved
  <2>4. \A u \in Tasklets \ {active, t} : Steady(u)
    BY <2>2, <2>3 DEF Moved, Steady
  <2>5. ~Listed(t)
    BY <1>1, <1>4, FreeOnes, CallIsQuiet DEF IsBlocked
  <2>6. q'.reschedule[t] = "NONE"
    BY <1>1, <2>2, <2>3, CallIsQuiet DEF Moved
  <2>7. Settles(t)
    BY <1>1, <2>3, <2>6 DEF Settles
  <2>8. q'.blockedOn[Main] = q.blockedOn[Main]
    BY <1>1, <2>2, <2>3, MainAssumption DEF Moved
  <2>. QED
    BY <1>1, <1>2, <2>3, <2>4, <2>5, <2>7, <2>8, CallIsQuiet, QuietCall
<1>. QED
  BY <1>3, <1>4

(* A tasklet that has not started gets another greenlet. *)
LEMMA NewGreenletKeepsBooks ==
    ASSUME Control(Channels), Books, NEW op, Calls(op), NEW t \in Tasklets, gl[t].state # "started",
           NEW g, gl' = Replaced(t, g), NEW r \in Outcomes, Answer(<<>>, r), ch' = ch,
           NEW v, tk' = [tk EXCEPT ![t] = v], v.dir = tk[t].dir,
           \/ q' = q /\ ~q.scheduled[t] /\ g.state = "unborn"
           \/ /\ q' = q \/ q' = InsertTasklet(q, t)
              /\ ~q.scheduled[t] /\ g.state = "new" /\ v.firstRun
    PROVE  KeepsBooks
<1>1. t \notin {Main, active}
  BY CallIsQuiet, CallerIsQueued DEF Control, Types, GreenletsFit
<1>2. ~Listed(t) /\ q.reschedule[t] = "NONE"
  BY <1>1, CallIsQuiet, FreeOnes
<1>3. [B!Next]_ch /\ SameLists(Tasklets) /\ Stays(Channels)
  BY SameBookAgain, CallIsQuiet, NoConts, SimpleOutcomes, AnswerStays
<1>4. /\ \A u \in Tasklets \ {t} : gl'[u].state = gl[u].state
      /\ gl'[t].state = g.state /\ gl'[Main].parent = NULL
  <2>1. \A u \in Tasklets : Replaced(t, g)[u].state = IF u = t THEN g.state ELSE gl[u].state
    BY ReplacedStates
  <2>2. gl[Main].parent = NULL /\ t # NULL
    BY CallIsQuiet, NullAssumption
  <2>3. Replaced(t, g)[Main] = gl[Main]
    BY <1>1, <2>2, MainAssumption DEF Replaced
  <2>. QED
    BY <2>1, <2>2, <2>3
<1>5. /\ \A u \in Tasklets \ {t} : tk'[u] = tk[u]
      /\ tk'[t] = v /\ \A u \in Tasklets : tk'[u].dir = tk[u].dir
  BY CallIsQuiet
<1>6. /\ \A u \in Tasklets \ {t} : /\ q'.blockedOn[u] = q.blockedOn[u]
                                   /\ q'.reschedule[u] = q.reschedule[u]
                                   /\ q'.scheduled[u] => q.scheduled[u]
      /\ q'.reschedule[t] = "NONE"
  <2>1. Inserted(q, InsertTasklet(q, t), t)
    BY CallIsQuiet, InsertsInsert
  <2>2. ~q.scheduled[t] /\ (q' = q \/ Inserted(q, q', t))
    BY <2>1
  <2>. QED
    BY <1>2, <2>2 DEF Inserted
<1>7. \A u \in Tasklets \ {t} : Steady(u)
  BY <1>4, <1>5, <1>6 DEF Steady
<1>8. Settles(t)
  <2>1. CASE g.state = "unborn"
    <3>1. ~q'.scheduled[t]
      BY <2>1
    <3>. QED
      BY <1>4, <1>6, <2>1, <3>1 DEF Settles
  <2>2. CASE g.state = "new"
    BY <1>4, <1>5, <1>6, <2>2 DEF Settles
  <2>. QED
    BY <2>1, <2>2
<1>9. /\ q'.blockedOn[Main] = q.blockedOn[Main] /\ active \in Tasklets
      /\ q'.reschedule[active] = q.reschedule[active]
  BY <1>1, <1>6, MainAssumption, CallIsQuiet
<1>. QED
  BY <1>1, <1>2, <1>3, <1>4, <1>5, <1>7, <1>8, <1>9, CallIsQuiet, QuietCall

LEMMA BindsKeepBooks ==
    ASSUME Control(Channels), Books, Gentle, NEW t \in Tasklets, Setup(t) \/ Bind(t) \/ Unbind(t)
    PROVE  KeepsBooks
<1>1. PICK op : Calls(op)
  BY DEF Setup, Bind, Unbind
<1>2. tk[t] \in TaskletType /\ ch' = ch /\ tk \in [Tasklets -> TaskletType]
  BY <1>1, CallIsQuiet DEF Setup, Bind, Unbind
<1>3. ASSUME Setup(t) \/ Bind(t) PROVE gl[t].state = "unborn" /\ ~q.scheduled[t] /\ t # Main
  <2>1. gl[t].state = "unborn"
    BY <1>3 DEF Setup, Bind, Rebindable, Gentle
  <2>2. gl[Main].state = "started"
    BY DEF Control, Types, GreenletsFit
  <2>. QED
    BY <2>1, <2>2 DEF Books, Sound
<1>4. Unborn.state = "unborn" /\ \A p : [state |-> "new", parent |-> p].state = "new"
  BY DEF Unborn
<1>5. CASE Setup(t) /\ IsBlocked(q, t)
  <2>. DEFINE v == [tk[t] EXCEPT !.paused = TRUE, !.firstRun = TRUE]
              g == Unborn
  <2>1. /\ gl' = Replaced(t, g) /\ Answer(<<>>, "Error") /\ q' = q
        /\ tk' = [tk EXCEPT ![t].paused = TRUE, ![t].firstRun = TRUE]
    BY <1>5 DEF Setup
  <2>2. v.dir = tk[t].dir
    BY <1>2 DEF TaskletType
  <2>3. tk' = [tk EXCEPT ![t] = v]
    BY <1>2, <2>1
  <2>4. gl[t].state # "started" /\ ~q.scheduled[t] /\ "Error" \in Outcomes /\ g.state = "unborn"
    BY <1>3, <1>4, <1>5, SimpleOutcomes
  <2>. DEFINE r == "Error"
  <2>5. /\ gl' = Replaced(t, g) /\ r \in Outcomes /\ Answer(<<>>, r)
        /\ q' = q /\ ~q.scheduled[t] /\ g.state = "unborn"
    BY <2>1, <2>4
  <2>. HIDE DEF v, g, r
  <2>. QED
    BY <1>1, <1>2, <2>2, <2>3, <2>4, <2>5, NewGreenletKeepsBooks
<1>6. CASE Setup(t) /\ ~IsBlocked(q, t)
  <2>. DEFINE v == [tk[t] EXCEPT !.alive = TRUE, !.paused = FALSE, !.firstRun = TRUE]
              g == [state |-> "new", parent |-> active]
  <2>1. /\ gl' = Replaced(t, g) /\ Answer(<<>>, "ok") /\ q' = InsertTasklet(q, t)
        /\ tk' = [tk EXCEPT ![t].alive = TRUE, ![t].paused = FALSE, ![t].firstRun = TRUE]
    BY <1>6 DEF Setup, Rebirth
  <2>2. v.dir = tk[t].dir /\ v.firstRun
    BY <1>2 DEF TaskletType
  <2>3. tk' = [tk EXCEPT ![t] = v]
    BY <1>2, <2>1
  <2>4. g.state = "new"
    OBVIOUS
  <2>. HIDE DEF v, g
  <2>. QED
    BY <1>1, <1>2, <1>3, <1>6, <2>1, <2>2, <2>3, <2>4, SimpleOutcomes, NewGreenletKeepsBooks
<1>7. CASE Bind(t)
  <2>. DEFINE v == [tk[t] EXCEPT !.alive = TRUE, !.paused = TRUE, !.firstRun = TRUE]
              g == [state |-> "new", parent |-> active]
  <2>1. /\ gl' = Replaced(t, g) /\ Answer(<<>>, "ok") /\ q' = q
        /\ tk' = [tk EXCEPT ![t].alive = TRUE, ![t].paused = TRUE, ![t].firstRun = TRUE]
    BY <1>7 DEF Bind, Rebirth
  <2>2. v.dir = tk[t].dir /\ v.firstRun
    BY <1>2 DEF TaskletType
  <2>3. tk' = [tk EXCEPT ![t] = v]
    BY <1>2, <2>1
  <2>4. g.state = "new"
    OBVIOUS
  <2>. HIDE DEF v, g
  <2>. QED
    BY <1>1, <1>2, <1>3, <1>7, <2>1, <2>2, <2>3, <2>4, SimpleOutcomes, NewGreenletKeepsBooks
<1>8. CASE Unbind(t) /\ (t = q.current \/ q.scheduled[t])
  <2>1. Answer(<<>>, "Error") /\ q' = q /\ tk' = tk /\ gl' = gl
    BY <1>8 DEF Unbind
  <2>2. [B!Next]_ch /\ SameLists(Tasklets) /\ Stays(Channels)
    BY <1>1, <1>2, <2>1, SameBookAgain, CallIsQuiet, NoConts, SimpleOutcomes, AnswerStays
  <2>. QED
    BY <1>1, <2>1, <2>2, CallIsQuiet, OnlyTheStack
<1>9. CASE Unbind(t) /\ ~(t = q.current \/ q.scheduled[t])
  <2>. DEFINE v == [tk[t] EXCEPT !.alive = FALSE]
  <2>1. /\ gl' = Replaced(t, Unborn) /\ Answer(<<>>, "ok") /\ q' = q
        /\ tk' = [tk EXCEPT ![t].alive = FALSE] /\ gl[t].state # "started"
    BY <1>9 DEF Unbind
  <2>2. v.dir = tk[t].dir
    BY <1>2 DEF TaskletType
  <2>3. tk' = [tk EXCEPT ![t] = v]
    BY <1>2, <2>1
  <2>. HIDE DEF v
  <2>. QED
    BY <1>1, <1>2, <1>4, <1>9, <2>1, <2>2, <2>3, SimpleOutcomes, NewGreenletKeepsBooks
<1>. QED
  BY <1>5, <1>6, <1>7, <1>8, <1>9

(* A call that takes t off its channel. *)
LEMMA PartnerLeaves ==
    ASSUME Control(Channels), Books, stack[active] \in Rests(Channels, active), ~Listed(active),
           Stays(Channels), [B!Next]_ch, NEW t \in Tasklets \ {active},
           SameLists(Tasklets \ {t}), Gone(t), t # Main => Settles(t),
           t = Main => q'.blockedOn[Main] = NULL,
           \A u \in Tasklets \ {active, t} : Steady(u),
           tk'[active].dir = tk[active].dir,
           active = Main => q'.blockedOn[Main] \in {q.blockedOn[Main], NULL},
           active # Main => /\ gl'[active].state = gl[active].state
                            /\ tk'[active].firstRun = tk[active].firstRun
                            /\ q'.reschedule[active] # "NONE" => AtHead(Channels),
           gl'[Main].parent = NULL
    PROVE  KeepsBooks
<1>1. active \in Tasklets
  BY DEF Control, Types
<1>2. \A u \in Tasklets \ {t} : SameLists({u})
  BY DEF SameLists
<1>3. \A u \in Tasklets \ {active} :
         \/ Unmoved(u)
         \/ Noting(u)' /\ Placed(u)' /\ (u # Main => Settles(u))
  <2>1. \A u \in Tasklets \ {active, t} : Unmoved(u)
    BY <1>2 DEF Unmoved
  <2>2. Noting(t)' /\ Placed(t)' /\ (t # Main => Settles(t))
    BY GoneIsPlaced
  <2>. QED
    BY <2>1, <2>2, Zenon
<1>4. \A u \in Tasklets \ {t} : \A d \in Channels : B!Waits(u, ch'[d]) <=> B!Waits(u, ch[d])
  BY DEF SameLists, B!Waits
<1>5. Gone(active)
  <2>1. \A d \in Channels : ~B!Waits(active, ch'[d])
    BY <1>1, <1>4 DEF Listed
  <2>2. tk[active].dir = "NEITHER"
    BY <1>1, ListedNotes
  <2>. QED
    BY <2>1, <2>2 DEF Gone
<1>6. MainSound'
  <2>1. Main # t => (Listed(Main)' <=> Listed(Main))
    BY <1>4, MainAssumption DEF Listed
  <2>2. active = Main => q.blockedOn[Main] = NULL
    BY DEF Books, MainSound
  <2>3. Main \notin {t, active} => q'.blockedOn[Main] = q.blockedOn[Main]
    BY MainAssumption DEF Steady
  <2>4. q'.blockedOn[Main] # NULL => Listed(Main)'
    BY <2>1, <2>2, <2>3 DEF Books, MainSound
  <2>. QED
    BY <2>4 DEF MainSound
<1>7. PICK a \in Tasklets : a = active
  BY <1>1
<1>8. Gone(a)
  BY <1>5, <1>7
<1>9. Noting(a)' /\ Placed(a)'
  BY <1>8, GoneIsPlaced
<1>. QED
  BY <1>3, <1>6, <1>7, <1>9, CallKeepsBooks

LEMMA ClearCallsKeepBooks ==
    ASSUME Control(Channels), OwnFrames, Flat, Books,
           (\E c \in Channels : Clear(c)) \/ UnblockAllActiveChannels
    PROVE  KeepsBooks
<1>1. PICK op : Calls(op)
  BY DEF Clear, UnblockAllActiveChannels
<1>2. q' = q /\ tk' = tk /\ gl' = gl /\ ch' = ch
  BY DEF Clear, UnblockAllActiveChannels
<1>3. Control(Channels)' /\ stack[active] = <<>>
  BY <1>1, ClearCallsKeepControl, CallIsQuiet DEF OwnFrames
<1>4. \A todo : ClearFrame(todo).k = "Clear"
  BY DEF ClearFrame
<1>5. ASSUME NEW f, f.k = "Clear", Push(<<f>>) PROVE Stays(Channels)
  <2>. DEFINE s == <<f>>
  <2>1. Continue(s \o stack[active], "none")
    BY <1>5 DEF Push
  <2>2. s \o stack[active] = s
    BY <1>3
  <2>3. Head(s).k = "Clear"
    BY <1>5
  <2>. HIDE DEF s
  <2>4. Continue(s, "none")
    BY <2>1, <2>2
  <2>. QED
    BY <1>3, <2>3, <2>4, ContinuesInPlace
<1>6. ASSUME Answer(<<>>, "ok") PROVE Stays(Channels)
  BY <1>1, <1>6, CallIsQuiet, NoConts, SimpleOutcomes, AnswerStays
<1>7. Answer(<<>>, "ok") \/ \E todo : Push(<<ClearFrame(todo)>>)
  BY DEF Clear, UnblockAllActiveChannels
<1>8. Stays(Channels)
  BY <1>4, <1>5, <1>6, <1>7
<1>. QED
  BY <1>1, <1>2, <1>8, CallIsQuiet, SameBookAgain, OnlyTheStack

(* Main's wait is over: because it can go on, or with an exception. *)
LEMMA YieldMainReturnsKeepsBooks ==
    ASSUME Control(Channels), Books, YieldMainReturns
    PROVE  KeepsBooks
<1>. DEFINE r == IF ret = "ok" /\ IsBlocked(q, Main) THEN "Error" ELSE ret
<1>1. /\ stack[active] # <<>> /\ Top.k = "Yield.main" /\ ret # "none" /\ Return(r)
      /\ q' = q /\ tk' = tk /\ gl' = gl /\ ch' = ch
  BY DEF YieldMainReturns, AtThen
<1>2. stack[active] \in Rests(Channels, active) /\ ret \in Outcomes
  BY <1>1, RestOfACall, RetIsAnOutcome DEF Limited
<1>3. r \in Outcomes /\ r # "none" /\ (IsBlocked(q, Main) => r \in Errors)
  BY <1>1, <1>2 DEF Outcomes, Errors
<1>. HIDE DEF r
<1>4. Stays(Channels)
  BY <1>1, <1>2, <1>3, ReturnStays
<1>5. [B!Next]_ch /\ SameLists(Tasklets)
  BY <1>1, SameBookAgain
<1>6. CASE ~Listed(active)
  BY <1>1, <1>2, <1>4, <1>5, <1>6, OnlyTheStack
<1>7. CASE Listed(active)
  <2>1. PICK c \in Channels : B!Waits(active, ch[c])
    BY <1>7 DEF Listed
  <2>2. ~Failed(active, Wait(active, c))
    BY <1>1 DEF Failed, Wait, Rest, Top
  <2>3. /\ active = Main /\ q.blockedOn[Main] = c
        /\ stack[Main] = <<Then("Yield.main", Main), Wait(Main, c)>>
    BY <1>2, <2>1, <2>2, WaitersSleep
  <2>4. r \in Errors
    BY <1>3, <2>3, NullAssumption DEF IsBlocked
  <2>5. Failed(Main, Wait(Main, c))'
    <3>. DEFINE w == Wait(Main, c)
                m == Then("Yield.main", Main)
    <3>1. stack[Main] = <<m, w>>
      BY <2>3
    <3>2. Tail(<<m, w>>) = <<w>>
      OBVIOUS
    <3>3. stack' = [stack EXCEPT ![Main] = Tail(stack[Main])] /\ active' = active
      BY <1>1, <2>3 DEF Return, Continue
    <3>4. stack'[Main] = Tail(stack[Main])
      BY <3>3, MainAssumption DEF Control, Stacks
    <3>5. ret' = r
      BY <1>1, <2>4 DEF Return, Continue, Errors
    <3>6. w' = w
      BY <1>1 DEF Wait
    <3>7. active' = Main /\ stack'[Main] = <<w>> /\ ret' \in Errors
      BY <2>3, <2>4, <3>1, <3>2, <3>3, <3>4, <3>5
    <3>. HIDE DEF w
    <3>8. Failed(Main, w)'
      BY <3>6, <3>7 DEF Failed
    <3>. QED
      BY <3>8 DEF w
  <2>6. \A d \in Channels : B!Waits(Main, ch[d]) => d = c
    BY <2>1, <2>3, WaitsOnce, MainAssumption DEF Books
  <2>7. Placed(Main)'
    <3>1. \A d \in Channels : B!Waits(Main, ch'[d]) => d = c
      BY <1>1, <2>6
    <3>. QED
      BY <2>5, <3>1 DEF Placed
  <2>8. Noting(Main)' /\ MainSound'
    BY <1>1, MainAssumption DEF Books, Noting, MainSound, Listed
  <2>9. \A u \in Tasklets : Unmoved(u)
    BY <1>1, <1>5 DEF Unmoved, Steady, SameLists
  <2>. QED
    BY <1>2, <1>4, <1>5, <2>3, <2>7, <2>8, <2>9, CallKeepsBooks
<1>. QED
  BY <1>6, <1>7

(* A kill that has failed marks its target blocked again. *)
LEMMA KillReturnsKeepsBooks ==
    ASSUME Control(Channels), OwnFrames, Gentle, Books, KillReturns
    PROVE  KeepsBooks
<1>1. /\ stack[active] # <<>> /\ Top.k = "Kill" /\ Return(ret)
      /\ q' = IF ret \in Errors /\ Top.c # NULL THEN Block(q, Top.t, Top.c) ELSE q
      /\ tk' = tk /\ gl' = gl /\ mgr' = mgr /\ ch' = ch
  BY DEF KillReturns, AtThen
<1>2. stack[active] \in Rests(Channels, active) /\ Top \in PlainFrames(Channels)
      /\ stack[active] \in Seq(PlainFrames(Channels))
  BY <1>1, RestOfACall DEF Limited
<1>3. Top.t \in Tasklets /\ Top.c \in Channels \cup {NULL}
  BY <1>1, <1>2 DEF PlainFrames
<1>4. ~Listed(active) /\ Stays(Channels)
  BY <1>1, <1>2, CallerIsFree, RetIsAnOutcome, ReturnStays DEF Top
<1>5. [B!Next]_ch /\ SameLists(Tasklets)
  BY <1>1, SameBookAgain
<1>6. active = Main /\ Top.t # Main /\ \A c, d \in Channels : c = d
  <2>1. Owns(Tasklets, active, Top)
    BY <1>1, <1>2, OwnTogether DEF OwnFrames, OwnedFrames, Control, Types, Top
  <2>. QED
    BY <1>1, <2>1 DEF Owns, Gentle
<1>7. CASE ~(ret \in Errors /\ Top.c # NULL)
  <2>1. q' = q
    BY <1>1, <1>7
  <2>. QED
    BY <1>1, <1>2, <1>4, <1>5, <2>1, OnlyTheStack
<1>8. CASE ret \in Errors /\ Top.c # NULL
  <2>1. PICK t \in Tasklets \ {Main}, c \in Channels : t = Top.t /\ c = Top.c
    BY <1>3, <1>6, <1>8
  <2>2. Freed(q, q', t, c)
    <3>1. q' = Block(q, t, c)
      BY <1>1, <1>8, <2>1
    <3>. QED
      BY <3>1, BlocksFree DEF Control, Types, QueueFits
  <2>3. \A u \in Tasklets \ {t} : Steady(u)
    BY <1>1, <2>2 DEF Freed, Steady
  <2>4. t # active /\ (Listed(t) => q.blockedOn[t] = c)
    <3>1. t # active
      BY <1>6
    <3>2. \A d \in Channels : B!Waits(t, ch[d]) => q.blockedOn[t] = d
      BY <1>2, <3>1, FreeOnes
    <3>3. \A d \in Channels : d = c
      BY <1>6
    <3>. QED
      BY <3>1, <3>2, <3>3 DEF Listed
  <2>5. Listed(t) => Steady(t)
    BY <1>1, <2>2, <2>4 DEF Freed, Steady
  <2>6. Settles(t)
    BY <1>1, <1>2, <2>2, WaitersSleep DEF Freed, Settles
  <2>7. q'.blockedOn[Main] = q.blockedOn[Main] /\ gl'[Main].parent = NULL
    BY <1>1, <2>2, MainAssumption DEF Freed, Books, MainSound
  <2>. QED
    BY <1>1, <1>2, <1>4, <1>5, <1>6, <2>3, <2>4, <2>5, <2>6, <2>7, QuietCall
<1>. QED
  BY <1>7, <1>8

--------------------------------------------------------------------------------
(* Kill. *)

(* Who is moved to run next is next. *)
LEMMA MovesToTheFront ==
    ASSUME NEW x, Q!Good(x), x.current = Main, NEW t \in Tasklets \ {Main}
    PROVE  MoveToRunNext(x, t).next[Main] = t
<1>. DEFINE out == IF x.scheduled[t] THEN RemoveTasklet(x, t) ELSE x
            in == InsertTaskletToRunNext(out, t)
<1>1. Q!Good(out) /\ out.current = Main /\ ~out.scheduled[t]
  <2>1. CASE x.scheduled[t]
    <3>1. Removed(x, RemoveTasklet(x, t), t)
      BY RemoveRemoves
    <3>. QED
      BY <2>1, <3>1 DEF Removed
  <2>2. CASE ~x.scheduled[t]
    BY <2>2
  <2>. QED
    BY <2>1, <2>2
<1>2. MoveToRunNext(x, t) = SetReschedule(in, x.current, "FRONT_PLUS_ONE")
  BY DEF MoveToRunNext
<1>. HIDE DEF out
<1>3. out \in QueueType
  BY <1>1, GoodQueue
<1>4. in.next[Main] = t
  BY <1>1, <1>3, MainAssumption DEF InsertTaskletToRunNext, Unblock, QueueType
<1>. HIDE DEF in
<1>5. Q!Good(in)
  <2>1. out.scheduled[out.current]
    BY <1>1, GoodQueue
  <2>. QED
    BY <1>1, <2>1, InsertsInsert DEF in, Inserted
<1>6. SetReschedule(in, x.current, "FRONT_PLUS_ONE").next = in.next
  BY <1>5, GoodQueue DEF SetReschedule, QueueType
<1>. QED
  BY <1>2, <1>4, <1>6

(* A kill that waits: t leaves its channel. *)
LEMMA PendingKillKeepsBooks ==
    ASSUME Control(Channels), Books, stack[active] \in Seq(PlainFrames(Channels)), ~Listed(active),
           NEW t \in Tasklets \ {Main, active}, gl[t].state # "unborn",
           NEW c, c = q.blockedOn[t], Answer(<<>>, "ok"), gl' = gl,
           q' = SetReschedule(InsertTasklet(Unblock(q, t), t), t, "NONE"),
           tk' = [tk EXCEPT ![t].exc = "TaskletExit", ![t].killPending = TRUE,
                            ![t].dir = IF c = NULL THEN @ ELSE "NEITHER"],
           ch' = IF c = NULL THEN ch
                 ELSE [ch EXCEPT ![c] = RemoveTaskletFromBlocked(@, t, tk[t].dir)]
    PROVE  KeepsBooks
<1>1. stack[active] \in Rests(Channels, active)
  BY PlainRests
<1>2. /\ Stays(Channels) /\ Q!Good(q) /\ tk \in [Tasklets -> TaskletType]
      /\ c \in Channels \cup {NULL} /\ active \in Tasklets
  <2>1. Stays(Channels)
    BY NoConts, SimpleOutcomes, AnswerStays
  <2>. QED
    BY <2>1 DEF Control, Types, QueueFits, TaskletsFit
<1>3. /\ q'.reschedule[t] = "NONE" /\ q'.blockedOn[Main] = q.blockedOn[Main]
      /\ \A u \in Tasklets \ {t} : /\ q'.blockedOn[u] = q.blockedOn[u]
                                   /\ q'.reschedule[u] = q.reschedule[u]
                                   /\ q'.scheduled[u] => q.scheduled[u]
  <2>. DEFINE q1 == Unblock(q, t)
              q2 == InsertTasklet(q1, t)
  <2>1. Freed(q, q1, t, NULL)
    BY <1>2, BlocksFree
  <2>. HIDE DEF q1
  <2>2. Inserted(q1, q2, t)
    BY <2>1, InsertsInsert DEF Freed
  <2>3. q' = SetReschedule(q2, t, "NONE")
    BY DEF q1
  <2>. HIDE DEF q2
  <2>4. Flagged(q2, q', t, "NONE")
    BY <2>2, <2>3, MarksFlag DEF Inserted, RescheduleType
  <2>5. q'.reschedule[t] = "NONE"
    BY <2>4 DEF Flagged
  <2>6. \A u \in Tasklets \ {t} : /\ q'.blockedOn[u] = q.blockedOn[u]
                                  /\ q'.reschedule[u] = q.reschedule[u]
                                  /\ q'.scheduled[u] => q.scheduled[u]
    BY <2>1, <2>2, <2>4 DEF Flagged, Inserted, Freed
  <2>. QED
    BY <2>5, <2>6, MainAssumption
<1>4. /\ \A u \in Tasklets : tk'[u].firstRun = tk[u].firstRun
      /\ \A u \in Tasklets \ {t} : tk'[u].dir = tk[u].dir
      /\ tk'[t].dir = IF c = NULL THEN tk[t].dir ELSE "NEITHER"
  BY <1>2 DEF TaskletType
<1>5. \A u \in Tasklets \ {t} : Steady(u)
  BY <1>3, <1>4 DEF Steady
<1>6. Settles(t)
  BY <1>3, <1>4 DEF Settles
<1>7. /\ gl'[Main].parent = NULL
      /\ \A u \in Tasklets \ {Main} : q.reschedule[u] = "NONE"
  BY <1>1, WaitersSleep DEF Books, MainSound
<1>8. CASE ~Listed(t)
  <2>1. tk[t].dir = "NEITHER"
    BY <1>8, ListedNotes
  <2>2. \A u \in Tasklets : tk'[u].dir = tk[u].dir
    BY <1>4, <2>1
  <2>3. ch' = ch
    <3>1. CASE c = NULL
      BY <3>1
    <3>2. CASE c # NULL
      <4>1. c \in Channels
        BY <1>2, <3>2
      <4>2. RemoveTaskletFromBlocked(ch[c], t, tk[t].dir) = ch[c]
        BY <1>8, <2>1, <4>1, TakenOut DEF Books, Direction, Listed
      <4>3. ch = [d \in Channels |-> ch[d]]
        BY <4>1, ChannelFacts DEF Books
      <4>. QED
        BY <3>2, <4>1, <4>2, <4>3
    <3>. QED
      BY <3>1, <3>2
  <2>4. [B!Next]_ch /\ SameLists(Tasklets)
    BY <2>3, SameBookAgain
  <2>. QED
    BY <1>1, <1>2, <1>3, <1>5, <1>6, <1>7, <1>8, <2>2, <2>4, QuietCall
<1>9. CASE Listed(t)
  <2>1. c \in Channels /\ c # NULL /\ B!Waits(t, ch[c])
    <3>1. \A d \in Channels : B!Waits(t, ch[d]) => q.blockedOn[t] = d
      BY <1>1, FreeOnes
    <3>. QED
      BY <1>9, <3>1, NullAssumption DEF Listed
  <2>2. tk[t].dir \in Direction /\ Noting(t)
    BY <1>2 DEF Books, TaskletType
  <2>3. RemoveTaskletFromBlocked(ch[c], t, tk[t].dir) = B!Left(ch[c], t)
    BY <2>1, <2>2, TakenOut DEF Books
  <2>4. ch' = [ch EXCEPT ![c] = B!Left(ch[c], t)]
    BY <2>1, <2>3
  <2>5. B!Next /\ SameLists(Tasklets \ {t}) /\ \A d \in Channels : ~B!Waits(t, ch'[d])
    BY <2>1, <2>4, LeavesTheBook DEF Books
  <2>6. Gone(t)
    BY <1>4, <2>1, <2>5 DEF Gone
  <2>. QED
    BY <1>1, <1>2, <1>3, <1>4, <1>5, <1>6, <1>7, <2>5, <2>6, PartnerLeaves
<1>. QED
  BY <1>8, <1>9

(* Main kills t here and now: it runs it, with an exception, to q0 and tk0. *)
DirectKill(t, c, q0, tk0) ==
    /\ q0 = SetReschedule(Unblock(q, t), t, "NONE")
    /\ tk0 = [tk EXCEPT ![t].exc = "TaskletExit"]
    /\ RunTasklet(t, q0, tk0, <<RestoreBlocked(t, c)>>)

(* Main, which kills t here and now, is about to switch to it. *)
LEMMA DirectKillChooses ==
    ASSUME Control(Channels), active = Main, stack[Main] \in Seq(PlainFrames(Channels)),
           q.blockedOn[Main] = NULL, mgr' = mgr, ~Nested,
           NEW t \in Tasklets \ {Main}, tk[t].alive, NEW c \in Channels \cup {NULL},
           NEW q0, NEW tk0, DirectKill(t, c, q0, tk0)
    PROVE  /\ Chosen(t)' /\ tk' = tk0 /\ gl' = gl /\ Stays(Channels) /\ active' = Main
           /\ Moved(q0, q', t) /\ q0.current = Main /\ q0.reschedule[t] = "NONE"
           /\ q0.scheduled = q.scheduled
           /\ \A u \in Tasklets \ {t} : /\ q0.blockedOn[u] = q.blockedOn[u]
                                        /\ q0.reschedule[u] = q.reschedule[u]
<1>0. /\ q0 = SetReschedule(Unblock(q, t), t, "NONE") /\ tk0 = [tk EXCEPT ![t].exc = "TaskletExit"]
      /\ RunTasklet(t, q0, tk0, <<RestoreBlocked(t, c)>>)
  BY DEF DirectKill
<1>1. /\ stack[active] \in Rests(Channels, active) /\ stack[active] \in Seq(PlainFrames(Channels))
      /\ tk \in [Tasklets -> TaskletType] /\ Q!Good(q) /\ q.current = Main
  BY PlainRests, Here DEF Control, Types, QueueFits, TaskletsFit
<1>2. /\ Q!Good(q0) /\ q0.current = Main /\ ~IsBlocked(q0, t) /\ q0.scheduled = q.scheduled
      /\ q0.reschedule[t] = "NONE"
      /\ \A u \in Tasklets \ {t} : /\ q0.blockedOn[u] = q.blockedOn[u]
                                   /\ q0.reschedule[u] = q.reschedule[u]
  <2>. DEFINE q1 == Unblock(q, t)
  <2>1. Freed(q, q1, t, NULL)
    BY <1>1, BlocksFree
  <2>. HIDE DEF q1
  <2>2. q0 = SetReschedule(q1, t, "NONE")
    BY <1>0 DEF q1
  <2>3. Flagged(q1, q0, t, "NONE")
    BY <2>1, <2>2, MarksFlag DEF Freed, RescheduleType
  <2>. QED
    BY <1>1, <2>1, <2>3 DEF Freed, Flagged, IsBlocked
<1>3. /\ \A u \in Tasklets : tk0[u].dir = tk[u].dir /\ tk0[u].firstRun = tk[u].firstRun
      /\ tk0[t].alive /\ tk0[t].exc = "TaskletExit"
  BY <1>0, <1>1 DEF TaskletType
<1>. DEFINE q1 == MoveToRunNext(q0, t)
            f == RunFrame(Main, NULL, FALSE)
            g == RestoreBlocked(t, c)
<1>4. Moved(q0, q1, t) /\ q1.next[Main] = t
  <2>1. q0.scheduled[q0.current]
    BY <1>2, GoodQueue
  <2>. QED
    BY <1>2, <2>1, MoveMoves, MovesToTheFront
<1>5. q1.current = Main /\ ~IsBlocked(q1, Main)
  BY <1>2, <1>4, MainAssumption DEF Moved, IsBlocked
<1>6. Yield(q1, tk0, <<g>>)
  BY <1>0, <1>2, <1>3 DEF RunTasklet
<1>. HIDE DEF q1
<1>7. <<g>> \in Seq(PlainFrames(Channels))
  BY DEF RestoreBlocked, PlainFrames
<1>8. /\ q' = q1 /\ tk' = tk0 /\ gl' = gl /\ Stays(Channels) /\ active' = Main
  <2>1. ASSUME NEW y, NEW x, NEW w \in Seq(PlainFrames(Channels)), y.current = active, Yield(y, x, w)
        PROVE  q' = y /\ tk' = x /\ gl' = gl /\ Stays(Channels)
    BY <1>1, <2>1, YieldStays
  <2>2. q1.current = active
    BY <1>5
  <2>. HIDE DEF f, g
  <2>3. q' = q1 /\ tk' = tk0 /\ gl' = gl /\ Stays(Channels)
    BY <1>6, <1>7, <2>1, <2>2
  <2>. QED
    BY <2>3 DEF Stays
<1>9. stack'[Main] # <<>> /\ Head(stack'[Main]) = f
  <2>1. Push(<<f>> \o <<>> \o <<g>>)
    <3>. DEFINE b == IsBlocked(q1, Main)
    <3>1. b = FALSE
      BY <1>5 DEF IsBlocked
    <3>2. Push(<<RunFrame(Main, NULL, b)>>
               \o (IF b THEN <<Then("Yield.main", Main)>> ELSE <<>>) \o <<g>>)
      BY <1>5, <1>6 DEF Yield
    <3>. HIDE DEF b
    <3>. QED
      BY <3>1, <3>2, Zenon
  <2>. HIDE DEF f, g
  <2>. DEFINE P == PlainFrames(Channels)
              r == <<g>> \o stack[Main]
              s == <<f>> \o r
  <2>2. r \in Seq(P)
    BY <1>7, ConcatProperties
  <2>3. ((<<f>> \o <<>>) \o <<g>>) \o stack[Main] = s
    <3>. DEFINE T == P \cup {f}
    <3>1. <<f>> \in Seq(T) /\ <<g>> \in Seq(T) /\ stack[Main] \in Seq(T)
      BY <1>7, SeqMonotonic
    <3>2. <<f>> \o <<>> = <<f>>
      OBVIOUS
    <3>3. \A a, b, d \in Seq(T) : (a \o b) \o d = a \o (b \o d)
      BY ConcatAssociative
    <3>. HIDE DEF T
    <3>4. (<<f>> \o <<g>>) \o stack[Main] = s
      BY <3>1, <3>3, Zenon
    <3>. QED
      BY <3>2, <3>4, Zenon
  <2>4. s # <<>> /\ Head(s) = f
    <3>. HIDE DEF P, r
    <3>. QED
      BY <2>2, PutOnTop
  <2>. HIDE DEF s
  <2>5. Continue(s, "none")
    BY <2>1, <2>3 DEF Push
  <2>6. stack'[Main] = s
    BY <2>5, MainAssumption DEF Continue, Control, Stacks
  <2>. QED
    BY <2>4, <2>6
<1>10. Chosen(t)'
  <2>1. f.k = "Run" /\ f.pc = "head" /\ f.base = Main /\ f.done = FALSE
    BY DEF RunFrame
  <2>2. ~mgr.stop
    <3>1. ~Has(stack[Main], "RunNTasklets") /\ ~Has(stack[Main], "RunTaskletsForTime")
      BY PlainRests
    <3>2. ~Waiting(Main, "RunNTasklets") /\ ~Waiting(Main, "RunTaskletsForTime")
      BY <3>1 DEF Has, Waiting
    <3>3. LimitsMatchTheCall /\ mgr \in ManagerType
      BY DEF Control, Types, ManagerFits
    <3>4. mgr.runType \in {"STANDARD", "TASKLET_LIMITED", "TIME_LIMITED"}
      BY <3>3 DEF ManagerType
    <3>. QED
      BY <3>2, <3>3, <3>4 DEF LimitsMatchTheCall
  <2>. HIDE DEF f
  <2>3. AtRun("head")'
    BY <1>9, <2>1 DEF AtRun, TopIs
  <2>4. q'.next[Main] = t /\ t # NULL /\ q'.current = Main
    BY <1>4, <1>5, <1>8, NullAssumption
  <2>5. ~RunIsOver(Head(stack[Main]))'
    BY <1>9, <2>1, <2>2, <2>4 DEF RunIsOver
  <2>. QED
    BY <1>8, <2>3, <2>4, <2>5 DEF Chosen
<1>. QED
  BY <1>2, <1>4, <1>8, <1>10

(* The books when Main kills t here and now. *)
LEMMA DirectKillKeepsBooks ==
    ASSUME Control(Channels), Books, active = Main, stack[Main] \in Seq(PlainFrames(Channels)),
           ~Listed(Main), q.blockedOn[Main] = NULL, mgr' = mgr, ch' = ch, ~Nested,
           NEW t \in Tasklets \ {Main}, gl[t].state # "unborn", tk[t].alive,
           NEW c \in Channels \cup {NULL},
           NEW q0, NEW tk0, DirectKill(t, c, q0, tk0)
    PROVE  KeepsBooks
<1>1. /\ stack[active] \in Rests(Channels, active) /\ stack[active] \in Seq(PlainFrames(Channels))
      /\ tk \in [Tasklets -> TaskletType] /\ Q!Good(q) /\ q.current = Main
  BY PlainRests, Here DEF Control, Types, QueueFits, TaskletsFit
<1>2. /\ Chosen(t)' /\ tk' = tk0 /\ gl' = gl /\ Stays(Channels) /\ active' = Main
      /\ Moved(q0, q', t) /\ q0.current = Main /\ q0.reschedule[t] = "NONE"
      /\ q0.scheduled = q.scheduled
      /\ \A u \in Tasklets \ {t} : /\ q0.blockedOn[u] = q.blockedOn[u]
                                   /\ q0.reschedule[u] = q.reschedule[u]
  BY DirectKillChooses
<1>3. /\ \A u \in Tasklets : tk0[u].dir = tk[u].dir /\ tk0[u].firstRun = tk[u].firstRun
      /\ tk0[t].alive /\ tk0[t].exc = "TaskletExit"
  BY <1>1 DEF DirectKill, TaskletType
<1>4. Killed(t)'
  BY <1>3, <1>2 DEF Killed
<1>5. \A d \in Channels : \A u \in Tasklets : B!Waits(u, ch'[d]) <=> B!Waits(u, ch[d])
  OBVIOUS
<1>6. /\ q'.reschedule[t] = "NONE" /\ gl'[t].state = gl[t].state
       /\ tk'[t].dir = tk[t].dir /\ tk'[t].firstRun = tk[t].firstRun
       /\ q'.scheduled[t] /\ q'.blockedOn[Main] = NULL
  BY <1>2, <1>3, MainAssumption DEF Moved
<1>7. Settles(t)
  BY <1>6 DEF Settles
<1>8. Noting(t)'
  BY <1>6 DEF Books, Noting
<1>9. Placed(t)'
  <2>1. stack'[t] = stack[t]
    BY <1>2 DEF Stays, Control, Stacks
  <2>2. Idle(t)
    BY <1>1, WaitersSleep
  <2>. SUFFICES ASSUME NEW d \in Channels, B!Waits(t, ch'[d])
                PROVE  Asleep(t, Wait(t, d))' /\ Unqueued(t)'
    BY <1>4 DEF Placed
  <2>3. Asleep(t, Wait(t, d))
    BY <1>5, <2>2 DEF Idle
  <2>. DEFINE w == Wait(t, d)
  <2>4. w' = w
    BY <1>6 DEF Wait
  <2>. HIDE DEF w
  <2>5. Asleep(t, w)
    BY <2>3 DEF w
  <2>6. Asleep(t, w)'
    BY <2>1, <2>4, <2>5 DEF Asleep
  <2>7. Asleep(t, Wait(t, d))'
    BY <2>6 DEF w
  <2>. QED
    BY <1>4, <1>6, <2>7 DEF Unqueued
<1>10. \A u \in Tasklets \ {Main, t} : Unmoved(u)
  <2>1. SameLists(Tasklets)
    BY SameBookAgain
  <2>2. \A u \in Tasklets \ {Main, t} : Steady(u)
    BY <1>2, <1>3 DEF Moved, Steady
  <2>. QED
    BY <2>1, <2>2 DEF Unmoved, SameLists
<1>11. Noting(Main)' /\ Placed(Main)' /\ MainSound'
  <2>1. Gone(Main)
    <3>1. tk[Main].dir = "NEITHER"
      BY ListedNotes, MainAssumption
    <3>. QED
      BY <1>3, <1>2, <3>1, MainAssumption DEF Gone, Listed
  <2>. QED
    BY <1>2, <1>6, <2>1, GoneIsPlaced, MainAssumption DEF MainSound, Books
<1>. QED
  BY <1>1, <1>2, <1>7, <1>8, <1>9, <1>10, <1>11, SameBookAgain, CallKeepsBooks

LEMMA KillTaskletKeepsBooks ==
    ASSUME Control(Channels), Flat, Books, stack[active] \in Seq(PlainFrames(Channels)),
           ~Listed(active), active = Main => q.blockedOn[Main] = NULL,
           NEW t \in Tasklets \ {Main}, gl[t].state # "unborn",
           NEW pending \in BOOLEAN, ~pending => active = Main,
           KillTasklet(t, pending, <<>>), mgr' = mgr
    PROVE  KeepsBooks
<1>1. stack[active] \in Rests(Channels, active)
  BY PlainRests
<1>2. /\ q.current = active /\ active \in Tasklets /\ Q!Good(q)
      /\ q.blockedOn[t] \in Channels \cup {NULL}
  BY <1>1, InPlace DEF Control, Types, QueueFits
<1>3. CASE ~tk[t].alive \/ tk[t].killPending
  <2>1. Answer(<<>>, "ok") /\ q' = q /\ tk' = tk /\ gl' = gl /\ ch' = ch
    BY <1>3 DEF KillTasklet
  <2>2. Stays(Channels)
    BY <2>1, NoConts, SimpleOutcomes, AnswerStays
  <2>. QED
    BY <1>1, <2>1, <2>2, SameBookAgain, OnlyTheStack
<1>4. CASE ~(~tk[t].alive \/ tk[t].killPending) /\ active = t
  <2>1. /\ Answer(<<>>, "TaskletExit") /\ q' = Unblock(q, t) /\ gl' = gl /\ ch' = ch
        /\ tk' = [tk EXCEPT ![t].exc = "none"]
    BY <1>2, <1>4 DEF KillTasklet
  <2>2. Stays(Channels) /\ [B!Next]_ch /\ SameLists(Tasklets)
    BY <2>1, NoConts, SimpleOutcomes, AnswerStays, SameBookAgain
  <2>3. \A u \in Tasklets : tk'[u].dir = tk[u].dir /\ tk'[u].firstRun = tk[u].firstRun
    <3>1. tk \in [Tasklets -> TaskletType]
      BY DEF Control, Types, TaskletsFit
    <3>. QED
      BY <2>1, <3>1 DEF TaskletType
  <2>4. Freed(q, q', t, NULL)
    BY <1>2, <2>1, BlocksFree
  <2>5. \A u \in Tasklets \ {t} : Steady(u)
    BY <2>1, <2>3, <2>4 DEF Freed, Steady
  <2>6. q'.blockedOn[Main] = q.blockedOn[Main] /\ q'.reschedule = q.reschedule
        /\ gl'[Main].parent = NULL
    BY <2>1, <2>4, MainAssumption DEF Freed, Books, MainSound
  <2>7. \A u \in Tasklets \ {Main} : q.reschedule[u] = "NONE"
    BY <1>1, WaitersSleep
  <2>. QED
    BY <1>1, <1>4, <2>1, <2>2, <2>3, <2>5, <2>6, <2>7, QuietCall
<1>5. CASE ~(~tk[t].alive \/ tk[t].killPending) /\ active # t /\ pending
  <2>. DEFINE c == q.blockedOn[t]
  <2>1. /\ Answer(<<>>, "ok") /\ gl' = gl
        /\ q' = SetReschedule(InsertTasklet(Unblock(q, t), t), t, "NONE")
        /\ tk' = [tk EXCEPT ![t].exc = "TaskletExit", ![t].killPending = TRUE,
                            ![t].dir = IF c = NULL THEN @ ELSE "NEITHER"]
        /\ ch' = IF c = NULL THEN ch
                 ELSE [ch EXCEPT ![c] = RemoveTaskletFromBlocked(@, t, tk[t].dir)]
    BY <1>2, <1>5 DEF KillTasklet
  <2>2. t \in Tasklets \ {Main, active} /\ c = q.blockedOn[t]
    BY <1>5
  <2>. HIDE DEF c
  <2>. QED
    BY <2>1, <2>2, PendingKillKeepsBooks
<1>6. CASE ~(~tk[t].alive \/ tk[t].killPending) /\ active # t /\ ~pending
  <2>. DEFINE c == q.blockedOn[t]
              q0 == SetReschedule(Unblock(q, t), t, "NONE")
              tk0 == [tk EXCEPT ![t].exc = "TaskletExit"]
  <2>1. RunTasklet(t, q0, tk0, <<RestoreBlocked(t, c)>> \o <<>>) /\ ch' = ch /\ tk[t].alive
    BY <1>2, <1>6 DEF KillTasklet
  <2>2. active = Main /\ ~Nested /\ c \in Channels \cup {NULL} /\ stack[Main] \in Seq(PlainFrames(Channels))
        /\ ~Listed(Main) /\ q.blockedOn[Main] = NULL
    BY <1>2, <1>6 DEF Flat
  <2>. HIDE DEF c
  <2>. DEFINE g == RestoreBlocked(t, c)
  <2>3. <<g>> \o <<>> = <<g>>
    OBVIOUS
  <2>4. DirectKill(t, c, q0, tk0)
    BY <2>1, <2>3 DEF DirectKill
  <2>. HIDE DEF q0, tk0
  <2>. QED
    BY <2>1, <2>2, <2>4, DirectKillKeepsBooks
<1>. QED
  BY <1>3, <1>4, <1>5, <1>6

LEMMA KillsKeepBooks ==
    ASSUME Control(Channels), OwnFrames, Gentle, Books,
           ClearKills \/ \E t \in Tasklets : \E pending \in BOOLEAN : Kill(t, pending)
    PROVE  KeepsBooks
<1>1. ASSUME NEW t \in Tasklets, NEW pending \in BOOLEAN, Kill(t, pending) PROVE KeepsBooks
  <2>. DEFINE op == IF pending THEN "kill_pending" ELSE "kill"
  <2>1. /\ Calls(op) /\ gl[t].state # "unborn" /\ t # Main
        /\ KillTasklet(t, pending, <<>>) /\ mgr' = mgr
    BY <1>1 DEF Kill
  <2>2. ~pending => active = Main
    BY <2>1, CallIsMade DEF CalledBy, Gentle
  <2>. HIDE DEF op
  <2>3. /\ stack[active] \in Seq(PlainFrames(Channels)) /\ ~Listed(active)
        /\ active = Main => q.blockedOn[Main] = NULL
    BY <2>1, CallIsQuiet
  <2>. QED
    BY <2>1, <2>2, <2>3, KillTaskletKeepsBooks DEF Gentle
<1>2. ASSUME ClearKills PROVE KeepsBooks
  <2>. DEFINE t == Head(ToBeCleared)
  <2>1. AtClear /\ ToBeCleared # <<>> /\ KillTasklet(t, FALSE, <<>>) /\ mgr' = mgr
    BY <1>2 DEF ClearKills
  <2>2. /\ active = Main /\ stack[active] \in Seq(PlainFrames(Channels))
        /\ stack[active] \in Rests(Channels, active) /\ Top \in ClearFrames
        /\ stack[active] # <<>>
    BY <2>1, ClearedByMain DEF OwnFrames, ClearFrames, AtClear
  <2>3. Head(Top.todo) \in Channels /\ Top.k = "Clear"
    BY <2>2 DEF ClearFrames
  <2>4. ~Listed(active) /\ q.blockedOn[Main] = NULL
    BY <2>2, <2>3, CallerIsFree DEF Top
  <2>5. t \in Tasklets /\ Listed(t)
    <3>1. \A c \in Channels :
             /\ ch[c].send # <<>> => Head(ch[c].send) \in Tasklets /\ Listed(Head(ch[c].send))
             /\ ch[c].recv # <<>> => Head(ch[c].recv) \in Tasklets /\ Listed(Head(ch[c].recv))
      BY FrontWaits DEF Books, Listed, B!Waits
    <3>. QED
      BY <2>1, <2>3, <3>1 DEF ToBeCleared
  <2>. HIDE DEF t
  <2>6. t # Main /\ gl[t].state # "unborn"
    BY <2>2, <2>4, <2>5, FreeOnes
  <2>. QED
    BY <2>1, <2>2, <2>4, <2>5, <2>6, KillTaskletKeepsBooks DEF Gentle
<1>. QED
  BY <1>1, <1>2

--------------------------------------------------------------------------------
(* Send and Receive: who must wait joins, who comes takes the first off.    *)

LEMMA TwoInARow ==
    ASSUME NEW f, NEW g
    PROVE  <<f>> \o <<g>> = <<f, g>>
<1>. DEFINE S == {f, g}
            s == <<f>> \o <<g>>
            z == <<f, g>>
<1>1. <<f>> \in Seq(S) /\ <<g>> \in Seq(S) /\ Len(<<f>>) = 1 /\ Len(<<g>>) = 1
      /\ <<f>>[1] = f /\ <<g>>[1] = g
  OBVIOUS
<1>2. z \in Seq(S) /\ Len(z) = 2 /\ z[1] = f /\ z[2] = g
  OBVIOUS
<1>3. /\ s \in Seq(S) /\ Len(s) = Len(<<f>>) + Len(<<g>>)
      /\ \A i \in 1..(Len(<<f>>) + Len(<<g>>)) :
            s[i] = IF i <= Len(<<f>>) THEN <<f>>[i] ELSE <<g>>[i - Len(<<f>>)]
  BY <1>1, ConcatProperties
<1>4. Len(s) = 2 /\ s[1] = f /\ s[2] = g
  BY <1>1, <1>3
<1>. HIDE DEF s, z, S
<1>5. \A i \in 1..Len(s) : s[i] = z[i]
  BY <1>2, <1>4
<1>6. s = z
  BY <1>2, <1>3, <1>4, <1>5, SeqEqual
<1>. QED
  BY <1>6 DEF s, z

(* Where a call of Yield leaves its caller, with f to do when it is back. *)
LEMMA YieldSleeps ==
    ASSUME Control(Channels), stack[active] = <<>>, NEW q0, NEW tk0, NEW f,
           q0.current = active, Yield(q0, tk0, <<f>>), NEW a, a = active,
           a = Main => IsBlocked(q0, Main)
    PROVE  Asleep(a, f)' \/ Failed(a, f)'
<1>. DEFINE m == Then("Yield.main", Main)
            y == YieldFrame(a)
            r == RunFrame(Main, NULL, IsBlocked(q0, Main))
<1>1. /\ a \in Tasklets /\ stack = [t \in Tasklets |-> stack[t]]
      /\ \A fs, o : Continue(fs, o) =>
            /\ active' = a /\ stack'[a] = fs
            /\ o # "ok" => ret' = o
  BY DEF Control, Types, Stacks, Continue
<1>2. y.k = "Yield" /\ r.k = "Run"
  BY DEF YieldFrame, RunFrame
<1>. HIDE DEF m, y, r
<1>3. ASSUME NEW g
      PROVE  LET s == (<<g>> \o <<f>>) \o stack[active]
             IN  s # <<>> /\ Head(s) = g /\ Tail(s) = <<f>>
  <2>. DEFINE S == {f, g}
              s == <<g>> \o <<f>>
  <2>1. <<g>> \in Seq(S) /\ <<f>> \in Seq(S)
    OBVIOUS
  <2>2. s \in Seq(S)
    BY <2>1, ConcatProperties
  <2>3. s \o <<>> = s
    BY <2>2, ConcatEmptySeq
  <2>4. s # <<>> /\ Head(s) = g /\ Tail(s) = <<f>>
    BY <2>1, PutOnTop
  <2>. HIDE DEF s
  <2>. QED
    BY <2>3, <2>4 DEF s
<1>4. ASSUME NEW g
      PROVE  LET s == ((<<g>> \o <<m>>) \o <<f>>) \o stack[active]
             IN  s # <<>> /\ Head(s) = g /\ Tail(s) = <<m, f>>
  <2>. DEFINE S == {f, g, m}
              z == <<m>> \o <<f>>
              s == <<g>> \o z
  <2>1. <<g>> \in Seq(S) /\ <<f>> \in Seq(S) /\ <<m>> \in Seq(S)
    OBVIOUS
  <2>2. (<<g>> \o <<m>>) \o <<f>> = s
    BY <2>1, ConcatAssociative
  <2>3. z \in Seq(S) /\ z = <<m, f>>
    BY <2>1, ConcatProperties, TwoInARow
  <2>. HIDE DEF z
  <2>4. s \in Seq(S) /\ s # <<>> /\ Head(s) = g /\ Tail(s) = z
    BY <2>1, <2>3, ConcatProperties, PutOnTop
  <2>5. s \o <<>> = s
    BY <2>4, ConcatEmptySeq
  <2>. HIDE DEF s
  <2>. QED
    BY <2>2, <2>3, <2>4, <2>5
<1>5. ASSUME a # Main PROVE Asleep(a, f)'
  <2>1. Push(<<y>> \o <<f>>)
    BY <1>5 DEF Yield, y
  <2>2. stack'[a] = (<<y>> \o <<f>>) \o stack[active]
    BY <1>1, <2>1 DEF Push
  <2>3. stack'[a] # <<>> /\ Head(stack'[a]) = y /\ Tail(stack'[a]) = <<f>>
    BY <1>3, <2>2
  <2>. QED
    BY <1>2, <1>5, <2>3 DEF Asleep
<1>6. ASSUME a = Main, q0.next[Main] = NULL PROVE Failed(a, f)'
  <2>1. Answer(<<f>>, "Error")
    BY <1>6 DEF Yield
  <2>2. <<f>> \o stack[active] = <<f>>
    OBVIOUS
  <2>3. Continue(<<f>>, "Error")
    BY <2>1, <2>2 DEF Answer
  <2>4. active' = a /\ stack'[a] = <<f>> /\ ret' = "Error"
    BY <1>1, <2>3
  <2>. QED
    BY <2>4 DEF Failed, Errors
<1>7. ASSUME a = Main, q0.next[Main] # NULL PROVE Asleep(a, f)'
  <2>1. Push((<<r>> \o <<m>>) \o <<f>>)
    BY <1>7 DEF Yield, r, m
  <2>2. stack'[a] = ((<<r>> \o <<m>>) \o <<f>>) \o stack[active]
    BY <1>1, <2>1 DEF Push
  <2>3. stack'[a] # <<>> /\ Head(stack'[a]) = r /\ Tail(stack'[a]) = <<m, f>>
    BY <1>4, <2>2
  <2>. QED
    BY <1>2, <1>7, <2>3 DEF Asleep, m
<1>. QED
  BY <1>5, <1>6, <1>7

(* The caller has to wait: it joins c, blocked. *)
LEMMA BlockingKeepsBooks ==
    ASSUME Control(Channels), Books, NEW op, Calls(op), NEW c \in Channels, ~Closed(c),
           NEW k \in {"Send", "Receive"}, NEW tk0,
           Yield(Block(q, active, c), tk0, <<Rest(k, active, c)>>),
           \A u \in Tasklets : /\ tk0[u].firstRun = tk[u].firstRun
                               /\ u # active => tk0[u].dir = tk[u].dir,
           tk0[active].dir = IF k = "Send" THEN "SENDER" ELSE "RECEIVER",
           k = "Send" =>
              /\ ch[c].recv = <<>>
              /\ ch' = [ch EXCEPT ![c] = UpdateCloseState(AddTaskletToWaitingToSend(@, active))],
           k = "Receive" =>
              /\ ch[c].send = <<>>
              /\ ch' = [ch EXCEPT ![c] = UpdateCloseState(AddTaskletToWaitingToReceive(@, active))]
    PROVE  KeepsBooks
<1>. DEFINE q0 == Block(q, active, c)
<1>1. PICK a \in Tasklets : a = active
  BY CallIsQuiet
<1>2. /\ stack[active] = <<>> /\ ~Listed(active) /\ q.current = active
      /\ stack[active] \in Seq(PlainFrames(Channels)) /\ stack[active] \in Rests(Channels, active)
  BY CallIsQuiet
<1>3. Freed(q, q0, active, c)
  BY CallIsQuiet, BlocksFree
<1>. DEFINE f == Rest(k, a, c)
            conts == <<f>>
<1>4. conts \in Seq(PlainFrames(Channels))
  BY RestsArePlain
<1>5. Yield(q0, tk0, conts) /\ q0.current = active
  BY <1>1, <1>2, <1>3 DEF Freed
<1>6. a = Main => IsBlocked(q0, Main)
  BY <1>1, <1>3, NullAssumption DEF Freed, IsBlocked
<1>. HIDE DEF q0, f, conts
<1>7. /\ Stays(Channels) /\ q' = q0 /\ tk' = tk0 /\ gl' = gl
      /\ active # Main => AtHead(Channels)
  BY <1>2, <1>4, <1>5, YieldStays
<1>8. Asleep(a, f)' \/ Failed(a, f)'
  <2>1. Yield(q0, tk0, <<f>>)
    BY <1>5 DEF conts
  <2>. QED
    BY <1>1, <1>2, <1>5, <1>6, <2>1, YieldSleeps
<1>. DEFINE j == IF k = "Send" THEN "send" ELSE "recv"
<1>9. /\ B!Next /\ SameLists(Tasklets \ {active})
      /\ \A d \in Channels : /\ B!In(a, ch'[d].send) <=> d = c /\ k = "Send"
                             /\ B!In(a, ch'[d].recv) <=> d = c /\ k = "Receive"
  <2>1. \A d \in Channels : ~B!Waits(a, ch[d])
    BY <1>1, <1>2 DEF Listed
  <2>2. /\ j \in {"send", "recv"} /\ (j = "send" <=> k = "Send") /\ (j = "recv" <=> k = "Receive")
    OBVIOUS
  <2>. HIDE DEF j
  <2>3. /\ j = "send" =>
              /\ ch[c].recv = <<>>
              /\ ch' = [ch EXCEPT ![c] = UpdateCloseState(AddTaskletToWaitingToSend(@, a))]
        /\ j = "recv" =>
              /\ ch[c].send = <<>>
              /\ ch' = [ch EXCEPT ![c] = UpdateCloseState(AddTaskletToWaitingToReceive(@, a))]
    BY <1>1, <2>2
  <2>4. /\ B!Next /\ SameLists(Tasklets \ {a})
        /\ \A d \in Channels : /\ B!In(a, ch'[d].send) <=> d = c /\ j = "send"
                               /\ B!In(a, ch'[d].recv) <=> d = c /\ j = "recv"
    BY <2>1, <2>2, <2>3, JoinsTheBook DEF Books
  <2>. QED
    BY <1>1, <2>2, <2>4
<1>10. \A d \in Channels : B!Waits(a, ch'[d]) <=> d = c
  BY <1>9 DEF B!Waits
<1>11. tk'[a].dir = (IF k = "Send" THEN "SENDER" ELSE "RECEIVER")
  BY <1>1, <1>7
<1>12. Noting(a)'
  BY <1>9, <1>10, <1>11 DEF Noting
<1>13. Placed(a)'
  <2>1. Wait(a, c)' = f
    BY <1>1, <1>11 DEF Wait, f
  <2>2. q'.blockedOn[a] = c /\ (a # Main => q'.reschedule[a] = "NONE")
    BY <1>1, <1>3, <1>7, CallIsQuiet DEF Freed
  <2>3. active' = a
    BY <1>1, <1>7 DEF Stays
  <2>4. \/ Failed(a, Wait(a, c))'
        \/ Asleep(a, Wait(a, c))' /\ q'.blockedOn[a] = c
    <3>. DEFINE w == Wait(a, c)
    <3>1. w' = f
      BY <2>1
    <3>. HIDE DEF w
    <3>2. Failed(a, w)' \/ Asleep(a, w)'
      BY <1>8, <3>1 DEF Failed, Asleep
    <3>. QED
      BY <2>2, <3>2 DEF w
  <2>5. a # Main => Unqueued(a)'
    BY <2>2, <2>3 DEF Unqueued
  <2>. QED
    BY <1>10, <2>4, <2>5 DEF Placed
<1>14. \A u \in Tasklets \ {active} : Unmoved(u)
  <2>1. \A u \in Tasklets \ {active} : SameLists({u})
    BY <1>9 DEF SameLists
  <2>2. \A u \in Tasklets \ {active} : Steady(u)
    BY <1>3, <1>7 DEF Freed, Steady
  <2>. QED
    BY <2>1, <2>2 DEF Unmoved
<1>15. MainSound'
  <2>1. CASE a = Main
    <3>1. Listed(Main)'
      BY <1>10, <2>1 DEF Listed
    <3>. QED
      BY <1>7, <3>1 DEF MainSound, Books
  <2>2. CASE a # Main
    <3>1. Unmoved(Main)
      BY <1>1, <1>14, <2>2, MainAssumption
    <3>2. Listed(Main)' <=> Listed(Main)
      BY <3>1 DEF Unmoved, SameLists, Listed, B!Waits
    <3>. QED
      BY <1>7, <3>1, <3>2 DEF MainSound, Books, Unmoved, Steady
  <2>. QED
    BY <2>1, <2>2
<1>16. active # Main => /\ gl'[active].state = gl[active].state
                        /\ tk'[active].firstRun = tk[active].firstRun
                        /\ q'.reschedule[active] # "NONE" => AtHead(Channels)
  BY <1>1, <1>7
<1>. QED
  BY <1>1, <1>2, <1>7, <1>9, <1>12, <1>13, <1>14, <1>15, <1>16, CallKeepsBooks

(* The caller takes r, the first in line, off c. *)
LEMMA PartnerComesKeepsBooks ==
    ASSUME Control(Channels), Books, NEW op, Calls(op), NEW c \in Channels, NEW r,
           \/ ch[c].send # <<>> /\ r = Head(ch[c].send)
           \/ ch[c].recv # <<>> /\ r = Head(ch[c].recv),
           ch' = [ch EXCEPT ![c] = Without(c, r, tk[r].dir)], Stays(Channels), gl' = gl,
           \A u \in Tasklets : /\ tk'[u].firstRun = tk[u].firstRun
                               /\ u # r => tk'[u].dir = tk[u].dir,
           tk'[r].dir = "NEITHER",
           \/ q' = PartnerRunsNext(r, active) /\ (active # Main => AtHead(Channels))
           \/ q' = InsertTasklet(Unblock(q, r), r)
    PROVE  KeepsBooks
<1>1. PICK a \in Tasklets : a = active
  BY CallIsQuiet
<1>2. /\ ~Listed(a) /\ Q!Good(q) /\ q.current = a /\ stack[active] \in Rests(Channels, active)
      /\ tk \in [Tasklets -> TaskletType] /\ gl[Main].parent = NULL
      /\ \A u \in Tasklets \ {Main} : q.reschedule[u] = "NONE"
  BY <1>1, CallIsQuiet
<1>3. r \in Tasklets /\ B!Waits(r, ch[c])
  BY FrontWaits DEF Books, B!Waits
<1>4. r \in Tasklets \ {a}
  BY <1>2, <1>3 DEF Listed
<1>5. r # Main => ~q.scheduled[r] /\ gl[r].state = "started"
  BY <1>1, <1>2, <1>3, <1>4, FreeOnes DEF Listed
<1>6. Without(c, r, tk[r].dir) = B!Settled(B!Left(ch[c], r))
  <2>1. Noting(r) /\ tk[r].dir \in Direction
    BY <1>2, <1>3 DEF Books, TaskletType
  <2>. QED
    BY <1>3, <2>1, TakenOut DEF Books
<1>7. B!Next /\ SameLists(Tasklets \ {r}) /\ \A d \in Channels : ~B!Waits(r, ch'[d])
  <2>1. ch' = [ch EXCEPT ![c] = B!Settled(B!Left(ch[c], r))]
    BY <1>6
  <2>. QED
    BY <1>3, <2>1, LeavesTheBook DEF Books
<1>8. Gone(r)
  BY <1>7 DEF Gone
<1>9. /\ \A u \in Tasklets \ {a, r} : /\ q'.blockedOn[u] = q.blockedOn[u]
                                      /\ q'.reschedule[u] = q.reschedule[u]
                                      /\ q'.scheduled[u] => q.scheduled[u]
      /\ r # Main => q'.reschedule[r] = "NONE"
      /\ q'.blockedOn[r] = NULL /\ q'.blockedOn[a] = q.blockedOn[a]
      /\ q'.reschedule[a] # q.reschedule[a] /\ a # Main => AtHead(Channels)
  <2>. DEFINE q1 == Unblock(q, r)
              q2 == InsertTasklet(q1, r)
              q3 == InsertTaskletToRunNext(q1, r)
  <2>1. Freed(q, q1, r, NULL)
    BY <1>2, <1>3, BlocksFree
  <2>2. q.scheduled[a]
    BY <1>1, <1>2, CallerIsQueued
  <2>. HIDE DEF q1
  <2>3. Inserted(q1, q2, r) /\ Inserted(q1, q3, r)
    <3>1. Q!Good(q1) /\ q1.scheduled[q1.current]
      BY <1>2, <2>1, <2>2 DEF Freed
    <3>. QED
      BY <1>3, <3>1, InsertsInsert
  <2>4. \/ q' = SetReschedule(q3, a, "BACK") /\ (a # Main => AtHead(Channels))
        \/ q' = q2
    BY <1>1 DEF q1, PartnerRunsNext
  <2>. HIDE DEF q2, q3
  <2>5. \/ Flagged(q3, q', a, "BACK") /\ (a # Main => AtHead(Channels))
        \/ q' = q2
    BY <2>3, <2>4, MarksFlag DEF Inserted, RescheduleType
  <2>6. \A y : Inserted(q1, y, r) =>
           /\ \A u \in Tasklets \ {r} : /\ y.blockedOn[u] = q.blockedOn[u]
                                        /\ y.reschedule[u] = q.reschedule[u]
                                        /\ y.scheduled[u] => q.scheduled[u]
           /\ r # Main => y.reschedule[r] = "NONE"
           /\ y.blockedOn[r] = NULL
    BY <1>2, <1>3, <1>5, <2>1 DEF Freed, Inserted
  <2>7. CASE q' = q2
    BY <1>4, <2>3, <2>6, <2>7
  <2>8. CASE Flagged(q3, q', a, "BACK") /\ (a # Main => AtHead(Channels))
    BY <1>3, <1>4, <2>3, <2>6, <2>8 DEF Flagged
  <2>. QED
    BY <2>5, <2>7, <2>8
<1>10. \A u \in Tasklets \ {active, r} : Steady(u)
  BY <1>1, <1>9 DEF Steady
<1>11. r # Main => Settles(r)
  BY <1>3, <1>5, <1>9 DEF Settles
<1>12. r \in Tasklets \ {active} /\ r = Main => q'.blockedOn[Main] = NULL
  BY <1>1, <1>4, <1>9
<1>13. active = Main => q'.blockedOn[Main] \in {q.blockedOn[Main], NULL}
  BY <1>1, <1>9
<1>14. active # Main => /\ gl'[active].state = gl[active].state
                        /\ tk'[active].firstRun = tk[active].firstRun
                        /\ q'.reschedule[active] # "NONE" => AtHead(Channels)
  BY <1>1, <1>2, <1>9
<1>15. tk'[active].dir = tk[active].dir /\ ~Listed(active) /\ r \in Tasklets \ {active}
  BY <1>1, <1>2, <1>4
<1>16. [B!Next]_ch /\ gl'[Main].parent = NULL /\ (r = Main => q'.blockedOn[Main] = NULL)
  BY <1>2, <1>7, <1>9
<1>. QED
  BY <1>2, <1>7, <1>8, <1>10, <1>11, <1>13, <1>14, <1>15, <1>16, PartnerLeaves

LEMMA PartnerKeepsCurrent ==
    ASSUME Control(Channels), NEW op, Calls(op), NEW r \in Tasklets
    PROVE  PartnerRunsNext(r, q.current).current = active
<1>. DEFINE t == q.current
<1>1. /\ Safe(Channels, q) /\ stack[active] \in Rests(Channels, active)
      /\ t = active /\ active \in Tasklets
  BY CallIsMade
<1>2. Safe(Channels, Unblock(q, r))
  BY <1>1, SafeSteps
<1>3. Safe(Channels, InsertTaskletToRunNext(Unblock(q, r), r))
  BY <1>1, <1>2, SafeSteps
<1>4. Safe(Channels, PartnerRunsNext(r, t))
  BY <1>1, <1>3, SafeSteps DEF PartnerRunsNext
<1>. QED
  BY <1>1, <1>4 DEF Safe, QueueStays

LEMMA SendKeepsBooks ==
    ASSUME Control(Channels), Books, NEW c \in Channels, NEW exception \in BOOLEAN, Send(c, exception)
    PROVE  KeepsBooks
<1>. DEFINE t == q.current
            m == [from |-> t, exception |-> exception]
<1>1. PICK op : Calls(op)
  BY DEF Send
<1>2. SendRefused(c, m) \/ SendBlocks(c, m) \/ SendDelivers(c, m)
  BY DEF Send
<1>3. t = active /\ active \in Tasklets /\ tk \in [Tasklets -> TaskletType]
  BY <1>1, CallIsQuiet
<1>. HIDE DEF m
<1>4. ASSUME SendRefused(c, m) PROVE KeepsBooks
  <2>1. /\ Answer(<<>>, "Error") /\ q' = q /\ gl' = gl /\ ch' = ch
        /\ tk' = [tk EXCEPT ![t].transfer = TRUE]
    BY <1>4 DEF SendRefused
  <2>2. \A u \in Tasklets : tk'[u].dir = tk[u].dir /\ tk'[u].firstRun = tk[u].firstRun
    BY <1>3, <2>1 DEF TaskletType
  <2>3. [B!Next]_ch /\ SameLists(Tasklets) /\ Stays(Channels)
    BY <1>1, <2>1, SameBookAgain, CallIsQuiet, NoConts, SimpleOutcomes, AnswerStays
  <2>. QED
    BY <1>1, <2>1, <2>2, <2>3, CallIsQuiet, OnlyTheStack
<1>5. ASSUME SendBlocks(c, m) PROVE KeepsBooks
  <2>. DEFINE tk0 == [tk EXCEPT ![t].transfer = TRUE, ![t].dir = "SENDER", ![t].args = m]
  <2>1. /\ ch[c].recv = <<>> /\ ~Closed(c)
        /\ Yield(Block(q, active, c), tk0, <<Rest("Send", active, c)>>)
        /\ ch' = [ch EXCEPT ![c] = UpdateCloseState(AddTaskletToWaitingToSend(@, active))]
    BY <1>3, <1>5 DEF SendBlocks
  <2>2. /\ \A u \in Tasklets : /\ tk0[u].firstRun = tk[u].firstRun
                               /\ u # active => tk0[u].dir = tk[u].dir
        /\ tk0[active].dir = "SENDER"
    BY <1>3 DEF TaskletType
  <2>. DEFINE k == "Send"
  <2>3. /\ k \in {"Send", "Receive"} /\ k = "Send" /\ k # "Receive"
        /\ Yield(Block(q, active, c), tk0, <<Rest(k, active, c)>>)
    BY <2>1
  <2>. HIDE DEF tk0, k
  <2>. QED
    BY <1>1, <2>1, <2>2, <2>3, BlockingKeepsBooks
<1>6. ASSUME SendDelivers(c, m) PROVE KeepsBooks
  <2>. DEFINE r == Head(ch[c].recv)
              handed == [tk EXCEPT ![t].transfer = TRUE, ![r].dir = "NEITHER", ![r].args = m]
              conts == <<Rest("Send.delivered", t, c)>>
              over == [handed EXCEPT ![t].transfer = FALSE]
  <2>1. /\ ch[c].recv # <<>> /\ ch' = [ch EXCEPT ![c] = Without(c, r, tk[r].dir)]
        /\ \/ Yield(PartnerRunsNext(r, t), handed, conts)
           \/ /\ q' = InsertTasklet(Unblock(q, r), r)
              /\ tk' = over
              /\ Answer(<<>>, "ok") /\ gl' = gl
    BY <1>6 DEF SendDelivers
  <2>2. r \in Tasklets
    BY <2>1, FrontWaits DEF Books
  <2>3. conts \in Seq(PlainFrames(Channels))
    BY <1>3, RestsArePlain
  <2>. HIDE DEF r, conts
  <2>4. \A y : y = handed \/ y = over =>
           /\ \A u \in Tasklets : /\ y[u].firstRun = tk[u].firstRun
                                  /\ u # r => y[u].dir = tk[u].dir
           /\ y[r].dir = "NEITHER"
    BY <1>3, <2>2 DEF TaskletType
  <2>. HIDE DEF handed, over
  <2>5. ASSUME Yield(PartnerRunsNext(r, t), handed, conts) PROVE KeepsBooks
    <3>. DEFINE q0 == PartnerRunsNext(r, t)
    <3>1. q0.current = active
      BY <1>1, <1>3, <2>2, PartnerKeepsCurrent
    <3>. HIDE DEF q0
    <3>2. /\ Stays(Channels) /\ q' = q0 /\ tk' = handed /\ gl' = gl
          /\ active # Main => AtHead(Channels)
      <4>1. Yield(q0, handed, conts)
        BY <2>5 DEF q0
      <4>. QED
        BY <1>1, <2>3, <3>1, <4>1, CallIsQuiet, YieldStays
    <3>3. q' = PartnerRunsNext(r, active) /\ (active # Main => AtHead(Channels))
      BY <1>3, <3>2 DEF q0
    <3>4. /\ ch[c].recv # <<>> /\ r = Head(ch[c].recv)
          /\ ch' = [ch EXCEPT ![c] = Without(c, r, tk[r].dir)]
      BY <2>1 DEF r
    <3>5. /\ \A u \in Tasklets : /\ tk'[u].firstRun = tk[u].firstRun
                                 /\ u # r => tk'[u].dir = tk[u].dir
          /\ tk'[r].dir = "NEITHER"
      BY <2>4, <3>2
    <3>. QED
      BY <1>1, <3>2, <3>3, <3>4, <3>5, PartnerComesKeepsBooks
  <2>6. ASSUME q' = InsertTasklet(Unblock(q, r), r), tk' = over, Answer(<<>>, "ok"), gl' = gl
        PROVE  KeepsBooks
    <3>1. Stays(Channels)
      BY <1>1, <2>6, CallIsQuiet, NoConts, SimpleOutcomes, AnswerStays
    <3>2. /\ ch[c].recv # <<>> /\ r = Head(ch[c].recv)
          /\ ch' = [ch EXCEPT ![c] = Without(c, r, tk[r].dir)]
      BY <2>1 DEF r
    <3>3. /\ \A u \in Tasklets : /\ tk'[u].firstRun = tk[u].firstRun
                                 /\ u # r => tk'[u].dir = tk[u].dir
          /\ tk'[r].dir = "NEITHER"
      BY <2>4, <2>6
    <3>. QED
      BY <1>1, <2>6, <3>1, <3>2, <3>3, PartnerComesKeepsBooks
  <2>. QED
    BY <2>1, <2>5, <2>6
<1>. QED
  BY <1>2, <1>4, <1>5, <1>6

LEMMA ReceiveKeepsBooks ==
    ASSUME Control(Channels), Books, NEW c \in Channels, Receive(c)
    PROVE  KeepsBooks
<1>. DEFINE t == q.current
<1>1. Calls("receive") /\ (ReceiveRefused(c) \/ ReceiveBlocks(c) \/ ReceiveTakes(c))
  BY DEF Receive
<1>2. t = active /\ active \in Tasklets /\ tk \in [Tasklets -> TaskletType]
  BY <1>1, CallIsQuiet
<1>3. ASSUME ReceiveRefused(c) PROVE KeepsBooks
  <2>1. /\ Answer(<<>>, "Error") /\ q' = q /\ gl' = gl /\ ch' = ch
        /\ tk' = [tk EXCEPT ![t].transfer = FALSE, ![t].dir = "NEITHER"]
    BY <1>3 DEF ReceiveRefused
  <2>2. \A u \in Tasklets : tk'[u].dir = tk[u].dir /\ tk'[u].firstRun = tk[u].firstRun
    <3>1. tk[active].dir = "NEITHER"
      BY <1>1, CallIsQuiet
    <3>. QED
      BY <1>2, <2>1, <3>1 DEF TaskletType
  <2>3. [B!Next]_ch /\ SameLists(Tasklets) /\ Stays(Channels)
    BY <1>1, <2>1, SameBookAgain, CallIsQuiet, NoConts, SimpleOutcomes, AnswerStays
  <2>. QED
    BY <1>1, <2>1, <2>2, <2>3, CallIsQuiet, OnlyTheStack
<1>4. ASSUME ReceiveBlocks(c) PROVE KeepsBooks
  <2>. DEFINE tk0 == [tk EXCEPT ![t].transfer = TRUE, ![t].dir = "RECEIVER"]
  <2>1. /\ ch[c].send = <<>> /\ ~Closed(c)
        /\ Yield(Block(q, active, c), tk0, <<Rest("Receive", active, c)>>)
        /\ ch' = [ch EXCEPT ![c] = UpdateCloseState(AddTaskletToWaitingToReceive(@, active))]
    BY <1>2, <1>4 DEF ReceiveBlocks
  <2>2. /\ \A u \in Tasklets : /\ tk0[u].firstRun = tk[u].firstRun
                               /\ u # active => tk0[u].dir = tk[u].dir
        /\ tk0[active].dir = "RECEIVER"
    BY <1>2 DEF TaskletType
  <2>. DEFINE k == "Receive"
  <2>3. /\ k \in {"Send", "Receive"} /\ k # "Send" /\ k = "Receive"
        /\ Yield(Block(q, active, c), tk0, <<Rest(k, active, c)>>)
    BY <2>1
  <2>. HIDE DEF tk0, k
  <2>. QED
    BY <1>1, <2>1, <2>2, <2>3, BlockingKeepsBooks
<1>5. ASSUME ReceiveTakes(c) PROVE KeepsBooks
  <2>. DEFINE r == Head(ch[c].send)
              moved == [tk EXCEPT ![t].transfer = TRUE, ![t].args = tk[r].args,
                                  ![r].transfer = FALSE, ![r].dir = "NEITHER", ![r].args = NULL]
              conts == <<Rest("Receive.taken", t, c)>>
              over == Taken(t, moved)
              o == Outcome(t, moved)
  <2>1. /\ ch[c].send # <<>> /\ ch' = [ch EXCEPT ![c] = Without(c, r, tk[r].dir)]
        /\ \/ Yield(PartnerRunsNext(r, t), moved, conts)
           \/ /\ q' = InsertTasklet(Unblock(q, r), r)
              /\ tk' = over
              /\ Answer(<<>>, o) /\ gl' = gl
    BY <1>5 DEF ReceiveTakes
  <2>2. r \in Tasklets
    BY <2>1, FrontWaits DEF Books
  <2>3. conts \in Seq(PlainFrames(Channels))
    BY <1>2, RestsArePlain
  <2>4. o \in Outcomes
    BY DEF Outcome, Outcomes, Errors
  <2>. HIDE DEF r, conts, o
  <2>5. \A y : y = moved \/ y = over =>
           /\ \A u \in Tasklets : /\ y[u].firstRun = tk[u].firstRun
                                  /\ u # r => y[u].dir = tk[u].dir
           /\ y[r].dir = "NEITHER"
    <3>1. \A u \in Tasklets : /\ moved[u].firstRun = tk[u].firstRun
                             /\ moved[u].dir = IF u = r THEN "NEITHER" ELSE tk[u].dir
      BY <1>2, <2>2 DEF TaskletType
    <3>2. \A u \in Tasklets : over[u].firstRun = moved[u].firstRun /\ over[u].dir = moved[u].dir
      <4>1. moved = [u \in Tasklets |-> moved[u]]
        BY <1>2
      <4>2. DOMAIN moved[t] = DOMAIN tk[t]
        BY <1>2, <2>2 DEF TaskletType
      <4>. HIDE DEF moved
      <4>. QED
        BY <1>2, <4>1, <4>2 DEF Taken, TaskletType
    <3>. QED
      BY <2>2, <3>1, <3>2
  <2>. HIDE DEF moved, over
  <2>6. ASSUME Yield(PartnerRunsNext(r, t), moved, conts) PROVE KeepsBooks
    <3>. DEFINE q0 == PartnerRunsNext(r, t)
    <3>1. q0.current = active
      BY <1>1, <1>2, <2>2, PartnerKeepsCurrent
    <3>. HIDE DEF q0
    <3>2. /\ Stays(Channels) /\ q' = q0 /\ tk' = moved /\ gl' = gl
          /\ active # Main => AtHead(Channels)
      <4>1. Yield(q0, moved, conts)
        BY <2>6 DEF q0
      <4>. QED
        BY <1>1, <2>3, <3>1, <4>1, CallIsQuiet, YieldStays
    <3>3. q' = PartnerRunsNext(r, active) /\ (active # Main => AtHead(Channels))
      BY <1>2, <3>2 DEF q0
    <3>4. /\ ch[c].send # <<>> /\ r = Head(ch[c].send)
          /\ ch' = [ch EXCEPT ![c] = Without(c, r, tk[r].dir)]
      BY <2>1 DEF r
    <3>5. /\ \A u \in Tasklets : /\ tk'[u].firstRun = tk[u].firstRun
                                 /\ u # r => tk'[u].dir = tk[u].dir
          /\ tk'[r].dir = "NEITHER"
      BY <2>5, <3>2
    <3>. QED
      BY <1>1, <3>2, <3>3, <3>4, <3>5, PartnerComesKeepsBooks
  <2>7. ASSUME q' = InsertTasklet(Unblock(q, r), r), tk' = over, Answer(<<>>, o), gl' = gl
        PROVE  KeepsBooks
    <3>1. Stays(Channels)
      BY <1>1, <2>4, <2>7, CallIsQuiet, NoConts, AnswerStays
    <3>2. /\ ch[c].send # <<>> /\ r = Head(ch[c].send)
          /\ ch' = [ch EXCEPT ![c] = Without(c, r, tk[r].dir)]
      BY <2>1 DEF r
    <3>3. /\ \A u \in Tasklets : /\ tk'[u].firstRun = tk[u].firstRun
                                 /\ u # r => tk'[u].dir = tk[u].dir
          /\ tk'[r].dir = "NEITHER"
      BY <2>5, <2>7
    <3>. QED
      BY <1>1, <2>7, <3>1, <3>2, <3>3, PartnerComesKeepsBooks
  <2>. QED
    BY <2>1, <2>6, <2>7
<1>. QED
  BY <1>1, <1>3, <1>4, <1>5

(* What is left of a channel operation whose tasklet waits no more. *)
LEMMA OperationOver ==
    ASSUME Control(Channels), OwnFrames, Books, NEW k \in ChannelRests, AtThen(k),
           NEW r \in Outcomes, Return(r), gl' = gl, NEW c, c = Top.c,
           \/ /\ ~Listed(active) /\ q' = q
              /\ ch' = ch \/ ch' = [ch EXCEPT ![c] = UpdateCloseState(@)]
              /\ \/ tk' = tk
                 \/ tk' = [tk EXCEPT ![Top.t].transfer = FALSE]
                 \/ tk' = Taken(Top.t, tk)
           \/ /\ q' = Unblock(q, Top.t) /\ tk' = Withdrawn(Top.t)
              /\ ch' = [ch EXCEPT ![c] = Without(c, Top.t, tk[Top.t].dir)]
    PROVE  KeepsBooks
<1>1. /\ stack[active] # <<>> /\ stack[active] \in Rests(Channels, active)
      /\ Top.k = k /\ k \notin Limited /\ c \in Channels
      /\ active \in Tasklets /\ tk \in [Tasklets -> TaskletType] /\ Q!Good(q)
  BY RestOnTop DEF ChannelRests, TaskletsStay, TaskletsFit, Control, Types, QueueFits
<1>2. PICK a \in Tasklets : a = active
  BY <1>1
<1>3. Top.t = a
  <2>1. Owns(Tasklets, active, Top)
    <3>1. stack[active] \in Seq(PlainFrames(Channels) \cup LimitedFrames) /\ Own(Tasklets, active, stack[active])
      BY <1>1, RestsAreSequences DEF OwnFrames, OwnedFrames
    <3>. QED
      BY <1>1, <3>1, OwnTogether DEF Top
  <2>. QED
    BY <1>1, <1>2, <2>1 DEF Owns
<1>4. Stays(Channels)
  BY <1>1, ReturnStays
<1>5. ASSUME ~Listed(active), q' = q,
             ch' = ch \/ ch' = [ch EXCEPT ![c] = UpdateCloseState(@)],
             \/ tk' = tk
             \/ tk' = [tk EXCEPT ![Top.t].transfer = FALSE]
             \/ tk' = Taken(Top.t, tk)
      PROVE  KeepsBooks
  <2>1. [B!Next]_ch /\ SameLists(Tasklets)
    BY <1>1, <1>5, StaysInTheBook DEF Books
  <2>2. \A u \in Tasklets : tk'[u].dir = tk[u].dir /\ tk'[u].firstRun = tk[u].firstRun
    BY <1>1, <1>3, <1>5 DEF Taken, TaskletType
  <2>. QED
    BY <1>1, <1>4, <1>5, <2>1, <2>2, OnlyTheStack
<1>6. ASSUME q' = Unblock(q, Top.t), tk' = Withdrawn(Top.t),
             ch' = [ch EXCEPT ![c] = Without(c, Top.t, tk[Top.t].dir)]
      PROVE  KeepsBooks
  <2>1. Freed(q, q', a, NULL)
    BY <1>1, <1>3, <1>6, BlocksFree
  <2>2. /\ \A u \in Tasklets : tk'[u].firstRun = tk[u].firstRun
        /\ \A u \in Tasklets \ {a} : tk'[u].dir = tk[u].dir
        /\ tk'[a].dir = "NEITHER"
    BY <1>1, <1>3, <1>6 DEF Withdrawn, TaskletType
  <2>3. \A d \in Channels : B!Waits(a, ch[d]) => d = c
    <3>. SUFFICES ASSUME NEW d \in Channels, B!Waits(a, ch[d]) PROVE d = c
      OBVIOUS
    <3>1. \/ Failed(active, Wait(active, d))
          \/ stack[Main] = <<Then("Yield.main", Main), Wait(Main, d)>> /\ active = Main
      BY <1>1, <1>2, WaitersSleep
    <3>2. Then("Yield.main", Main).k \notin ChannelRests
      BY DEF Then, ChannelRests
    <3>3. stack[active] = <<Wait(active, d)>>
      BY <1>1, <3>1, <3>2 DEF Failed, Top
    <3>4. Top.c = d
      BY <3>3 DEF Top, Wait, Rest
    <3>. QED
      BY <3>4
  <2>4. tk[a].dir # "NEITHER" => B!Waits(a, ch[c])
    BY <2>3, ListedNotes DEF Listed
  <2>5. /\ B!Waits(a, ch[c]) <=> tk[a].dir # "NEITHER"
        /\ RemoveTaskletFromBlocked(ch[c], a, tk[a].dir) =
              IF B!Waits(a, ch[c]) THEN B!Left(ch[c], a) ELSE ch[c]
        /\ Without(c, a, tk[a].dir) =
              B!Settled(IF B!Waits(a, ch[c]) THEN B!Left(ch[c], a) ELSE ch[c])
    <3>1. Noting(a) /\ tk[a].dir \in Direction
      BY <1>1 DEF Books, TaskletType
    <3>. QED
      BY <1>1, <2>4, <3>1, TakenOut DEF Books
  <2>6. /\ [B!Next]_ch /\ SameLists(Tasklets \ {a})
        /\ \A d \in Channels : ~B!Waits(a, ch'[d])
    <3>1. CASE B!Waits(a, ch[c])
      <4>1. ch' = [ch EXCEPT ![c] = B!Settled(B!Left(ch[c], a))]
        BY <1>3, <1>6, <2>5, <3>1
      <4>. QED
        BY <1>1, <3>1, <4>1, LeavesTheBook DEF Books
    <3>2. CASE ~B!Waits(a, ch[c])
      <4>1. ch' = [ch EXCEPT ![c] = UpdateCloseState(ch[c])]
        BY <1>3, <1>6, <2>5, <3>2 DEF Without
      <4>2. [B!Next]_ch /\ SameLists(Tasklets)
        BY <1>1, <4>1, StaysInTheBook DEF Books
      <4>3. \A d \in Channels : ~B!Waits(a, ch[d])
        BY <2>3, <3>2
      <4>4. \A d \in Channels : ~B!Waits(a, ch'[d])
        BY <4>2, <4>3 DEF SameLists, B!Waits
      <4>. QED
        BY <4>2, <4>4 DEF SameLists
    <3>. QED
      BY <3>1, <3>2
  <2>7. Noting(a)' /\ Placed(a)'
    BY <2>2, <2>6, GoneIsPlaced DEF Gone
  <2>8. \A u \in Tasklets \ {active} : Unmoved(u)
    <3>1. \A u \in Tasklets \ {active} : SameLists({u})
      BY <1>2, <2>6 DEF SameLists
    <3>2. \A u \in Tasklets \ {active} : Steady(u)
      BY <1>2, <2>1, <2>2 DEF Freed, Steady
    <3>. QED
      BY <3>1, <3>2 DEF Unmoved
  <2>9. MainSound'
    <3>1. CASE a = Main
      BY <2>1, <3>1 DEF Freed, MainSound, Books
    <3>2. CASE a # Main
      <4>1. Unmoved(Main)
        BY <1>2, <2>8, <3>2, MainAssumption
      <4>2. Listed(Main)' <=> Listed(Main)
        BY <4>1 DEF Unmoved, SameLists, Listed, B!Waits
      <4>. QED
        BY <4>1, <4>2 DEF MainSound, Books, Unmoved, Steady
    <3>. QED
      BY <3>1, <3>2
  <2>10. active # Main => /\ gl'[active].state = gl[active].state
                          /\ tk'[active].firstRun = tk[active].firstRun
                          /\ q'.reschedule[active] # "NONE" => AtHead(Channels)
    BY <1>1, <2>1, <2>2, WaitersSleep DEF Freed
  <2>. QED
    BY <1>1, <1>2, <1>4, <2>6, <2>7, <2>8, <2>9, <2>10, CallKeepsBooks
<1>. QED
  BY <1>5, <1>6

LEMMA RestsKeepBooks ==
    ASSUME Control(Channels), OwnFrames, Books,
           SendReturns \/ SendDeliveredReturns \/ ReceiveReturns \/ ReceiveTakenReturns
    PROVE  KeepsBooks
<1>. DEFINE c == Top.c
            o == Outcome(Top.t, tk)
<1>1. o \in Outcomes /\ ret \in Outcomes
  BY RetIsAnOutcome DEF Outcome, Outcomes, Errors
<1>2. \A r : Settled(c, r) = ch \/ Settled(c, r) = [ch EXCEPT ![c] = UpdateCloseState(@)]
  BY DEF Settled
<1>3. ASSUME NEW k \in ChannelRests, AtThen(k), k \in {"Send", "Receive"} => ret = "ok"
      PROVE  ~Listed(active)
  <2>1. stack[active] # <<>> /\ stack[active] \in Rests(Channels, active) /\ Top.k = k
    BY <1>3, RestOnTop DEF ChannelRests
  <2>. SUFFICES ASSUME NEW d \in Channels, B!Waits(active, ch[d]) PROVE FALSE
    BY DEF Listed
  <2>2. active \in Tasklets
    BY DEF Control, Types
  <2>3. \/ Failed(active, Wait(active, d))
        \/ active = Main /\ stack[Main] = <<Then("Yield.main", Main), Wait(Main, d)>>
    BY <2>1, <2>2, WaitersSleep
  <2>4. Then("Yield.main", Main).k \notin ChannelRests
    BY DEF Then, ChannelRests
  <2>5. stack[active] = <<Wait(active, d)>> /\ ret \in Errors
    BY <1>3, <2>1, <2>3, <2>4 DEF Failed, Top
  <2>6. Top.k \in {"Send", "Receive"}
    BY <2>5 DEF Top, Wait, Rest
  <2>. QED
    BY <1>3, <2>1, <2>5, <2>6 DEF Errors
<1>4. ASSUME SendReturns PROVE KeepsBooks
  <2>1. /\ AtThen("Send") /\ "Send" \in ChannelRests /\ Return(ret) /\ gl' = gl
        /\ \/ /\ ret = "ok" /\ q' = q /\ tk' = [tk EXCEPT ![Top.t].transfer = FALSE]
              /\ ch' = [ch EXCEPT ![c] = UpdateCloseState(@)]
           \/ /\ q' = Unblock(q, Top.t) /\ tk' = Withdrawn(Top.t)
              /\ ch' = [ch EXCEPT ![c] = Without(c, Top.t, tk[Top.t].dir)]
    BY <1>4 DEF SendReturns, ChannelRests
  <2>2. ret = "ok" => ~Listed(active)
    BY <1>3, <2>1
  <2>. HIDE DEF c
  <2>3. c = Top.c
    BY DEF c
  <2>. QED
    BY <1>1, <2>1, <2>2, <2>3, OperationOver
<1>5. ASSUME SendDeliveredReturns PROVE KeepsBooks
  <2>1. /\ AtThen("Send.delivered") /\ "Send.delivered" \in ChannelRests /\ Return(ret) /\ gl' = gl
        /\ q' = q /\ ch' = [ch EXCEPT ![c] = UpdateCloseState(@)]
        /\ tk' = tk \/ tk' = [tk EXCEPT ![Top.t].transfer = FALSE]
    BY <1>5 DEF SendDeliveredReturns, ChannelRests
  <2>2. ~Listed(active)
    BY <1>3, <2>1
  <2>. HIDE DEF c
  <2>3. c = Top.c
    BY DEF c
  <2>. QED
    BY <1>1, <2>1, <2>2, <2>3, OperationOver
<1>6. ASSUME ReceiveReturns PROVE KeepsBooks
  <2>1. /\ AtThen("Receive") /\ "Receive" \in ChannelRests /\ gl' = gl
        /\ \/ /\ ret = "ok" /\ q' = q /\ tk' = Taken(Top.t, tk) /\ Return(o)
              /\ ch' = Settled(c, o)
           \/ /\ q' = Unblock(q, Top.t) /\ tk' = Withdrawn(Top.t) /\ Return(ret)
              /\ ch' = [ch EXCEPT ![c] = Without(c, Top.t, tk[Top.t].dir)]
    BY <1>6 DEF ReceiveReturns, ChannelRests
  <2>2. ret = "ok" => ~Listed(active)
    BY <1>3, <2>1
  <2>. HIDE DEF c, o
  <2>3. c = Top.c
    BY DEF c
  <2>4. CASE Return(o) /\ ret = "ok" /\ q' = q /\ tk' = Taken(Top.t, tk) /\ ch' = Settled(c, o)
    BY <1>1, <1>2, <2>1, <2>2, <2>3, <2>4, OperationOver
  <2>5. CASE /\ q' = Unblock(q, Top.t) /\ tk' = Withdrawn(Top.t) /\ Return(ret)
             /\ ch' = [ch EXCEPT ![c] = Without(c, Top.t, tk[Top.t].dir)]
    BY <1>1, <2>1, <2>3, <2>5, OperationOver
  <2>. QED
    BY <2>1, <2>4, <2>5
<1>7. ASSUME ReceiveTakenReturns PROVE KeepsBooks
  <2>1. /\ AtThen("Receive.taken") /\ "Receive.taken" \in ChannelRests /\ gl' = gl /\ q' = q
        /\ \/ tk' = Taken(Top.t, tk) /\ Return(o) /\ ch' = Settled(c, o)
           \/ tk' = tk /\ Return(ret) /\ ch' = [ch EXCEPT ![c] = UpdateCloseState(@)]
    BY <1>7 DEF ReceiveTakenReturns, ChannelRests
  <2>2. ~Listed(active)
    BY <1>3, <2>1
  <2>. HIDE DEF c, o
  <2>3. c = Top.c
    BY DEF c
  <2>4. CASE Return(o) /\ tk' = Taken(Top.t, tk) /\ ch' = Settled(c, o)
    BY <1>1, <1>2, <2>1, <2>2, <2>3, <2>4, OperationOver
  <2>5. CASE tk' = tk /\ Return(ret) /\ ch' = [ch EXCEPT ![c] = UpdateCloseState(@)]
    BY <1>1, <2>1, <2>2, <2>3, <2>5, OperationOver
  <2>. QED
    BY <2>1, <2>4, <2>5
<1>. QED
  BY <1>4, <1>5, <1>6, <1>7

--------------------------------------------------------------------------------
(* The steps of the loop and of Yield: about main and one x. *)

LEMMA LoopMoves ==
    ASSUME Control(Channels), Books, NEW x, active \in {Main, x}, active' \in {Main, x},
           active = Main /\ RunsOne => Target = x,
           \A u \in Tasklets \ {Main, x} :
              /\ ~Chosen(u) /\ stack'[u] = stack[u]
              /\ q'.reschedule[u] = q.reschedule[u] /\ (q'.scheduled[u] => q.scheduled[u])
              /\ q'.blockedOn[u] = q.blockedOn[u] \/ q.scheduled[u]
              /\ tk'[u].firstRun = tk[u].firstRun /\ gl'[u].state = gl[u].state,
           ch' = ch, \A u \in Tasklets : tk'[u].dir = tk[u].dir,
           x \in Tasklets \ {Main} => Placed(x)' /\ Sound(x)',
           Placed(Main)', q'.blockedOn[Main] = q.blockedOn[Main], gl'[Main].parent = NULL, Ended'
    PROVE  KeepsBooks
<1>0. [B!Next]_ch
  BY SameBookAgain
<1>1. B!Kept'
  BY <1>0, B!NextKeeps DEF Books
<1>2. \A u \in Tasklets : Noting(u)'
  BY DEF Books, Noting
<1>3. MainSound'
  BY DEF Books, MainSound, Listed
<1>4. ASSUME NEW u \in Tasklets \ {Main, x} PROVE Placed(u)' /\ Sound(u)'
  <2>1. active # u /\ active' # u /\ ~Leaves(u) /\ ~Killed(u)
    BY <1>4 DEF Leaves, Killed
  <2>2. Placed(u) /\ Sound(u) /\ Noting(u)
    BY <1>4 DEF Books
  <2>3. q.reschedule[u] = "NONE"
    BY <2>1, <2>2 DEF Sound
  <2>4. Idle(u)
    BY <2>1, <2>2 DEF Placed, Idle, Failed, Unqueued
  <2>5. ~Listed(u) => Noting(u)' /\ Placed(u)'
    BY <1>2 DEF Placed, Listed
  <2>6. Listed(u) => Unmoved(u)
    <3>1. Listed(u) => ~q.scheduled[u]
      BY <1>4, <2>4 DEF Idle, Listed
    <3>2. SameLists({u})
      BY DEF SameLists
    <3>. QED
      BY <1>4, <3>1, <3>2 DEF Unmoved, Steady
  <2>7. Placed(u)'
    BY <1>4, <2>2, <2>4, <2>5, <2>6, UnmovedIsIdle, IdleIsPlaced
  <2>8. Sound(u)'
    BY <1>4, <2>1, <2>2, <2>3 DEF Sound
  <2>. QED
    BY <2>7, <2>8
<1>5. \A u \in Tasklets : Placed(u)'
  BY <1>4
<1>6. \A u \in Tasklets \ {Main} : Sound(u)'
  BY <1>4
<1>. QED
  BY <1>0, <1>1, <1>2, <1>3, <1>5, <1>6 DEF Books, KeepsBooks

(* Main's loop goes on or ends: what main waits for stays below it. *)
LEMMA MainSleeps ==
    ASSUME Control(Channels), Books, stack[Main] # <<>>, Head(stack[Main]).k = "Run",
           ch' = ch, tk'[Main].dir = tk[Main].dir, q'.blockedOn[Main] = q.blockedOn[Main],
           \/ stack'[Main] = Tail(stack[Main])
           \/ /\ stack'[Main] # <<>> /\ Head(stack'[Main]).k = "Run"
              /\ Tail(stack'[Main]) = Tail(stack[Main])
    PROVE  Placed(Main)'
<1>. SUFFICES ASSUME NEW c \in Channels, B!Waits(Main, ch[c])
              PROVE  Asleep(Main, Wait(Main, c))' /\ q'.blockedOn[Main] = c
  BY DEF Placed
<1>1. Placed(Main)
  BY MainAssumption DEF Books
<1>2. ~Failed(Main, Wait(Main, c))
  BY DEF Failed, Wait, Rest
<1>3. Asleep(Main, Wait(Main, c)) /\ q.blockedOn[Main] = c
  BY <1>1, <1>2 DEF Placed
<1>. DEFINE w == Wait(Main, c)
            m == Then("Yield.main", Main)
<1>4. w' = w
  BY DEF Wait
<1>5. Tail(stack[Main]) = <<m, w>>
  BY <1>3 DEF Asleep, Then
<1>. HIDE DEF w
<1>6. Asleep(Main, w)'
  BY <1>4, <1>5 DEF Asleep
<1>. QED
  BY <1>3, <1>6 DEF w

(* Where a step of the loop starts. *)
LEMMA BooksInTheLoop ==
    ASSUME Control(Channels), Books, stack[active] # <<>>, Top.k = "Run"
    PROVE  /\ active = Main /\ gl[Main].parent = NULL
           /\ Top.pc # "head" =>
                 /\ \A t : ~Chosen(t) /\ ~Killed(t)
                 /\ \A c \in Channels : B!Waits(Top.sw, ch[c]) =>
                       /\ Asleep(Top.sw, Wait(Top.sw, c)) /\ q.blockedOn[Top.sw] = c
                       /\ q.reschedule[Top.sw] = "NONE"
<1>1. /\ active = Main /\ stack[Main] # <<>> /\ Head(stack[Main]) = Top /\ Top.pc \in {"head", "in", "out"}
      /\ Top.pc # "head" => RunsOne /\ Target = Top.sw /\ Top.sw \in Tasklets \ {Main}
  BY InTheLoop
<1>2. ASSUME Top.pc # "head", NEW t PROVE ~Chosen(t) /\ ~Killed(t)
  <2>1. ~AtRun("head")
    BY <1>1, <1>2 DEF AtRun, TopIs
  <2>2. \A pc : ~AtYield(Main, pc)
    BY <1>1 DEF AtYield, TopIs, Top
  <2>. QED
    BY <1>1, <2>1, <2>2 DEF Chosen, Killed
<1>3. ASSUME Top.pc # "head", NEW c \in Channels, B!Waits(Top.sw, ch[c])
      PROVE  /\ Asleep(Top.sw, Wait(Top.sw, c)) /\ q.blockedOn[Top.sw] = c
             /\ q.reschedule[Top.sw] = "NONE"
  <2>1. Placed(Top.sw) /\ ~Killed(Top.sw) /\ active # Top.sw /\ Top.sw # Main
    BY <1>1, <1>2, <1>3 DEF Books
  <2>. QED
    BY <1>3, <2>1 DEF Placed, Failed, Unqueued
<1>. QED
  BY <1>1, <1>2, <1>3 DEF Books, MainSound

LEMMA RunEndsKeepsBooks ==
    ASSUME Control(Channels), Books, RunEnds \/ RunCannotAdopt
    PROVE  KeepsBooks
<1>1. /\ stack[active] # <<>> /\ Top.k = "Run" /\ Top.pc = "head"
      /\ q' = q /\ tk' = tk /\ gl' = gl /\ ch' = ch
      /\ \E r \in {"ok", "Error"} : Return(r)
  BY DEF RunEnds, RunCannotAdopt, AtFrame
<1>2. /\ active = Main /\ q.current = Main /\ Top.base = Main /\ ~RunsOne
      /\ stack[Main] # <<>> /\ Head(stack[Main]) = Top
  BY <1>1, InTheLoop
<1>3. gl[Main].parent = NULL
  BY DEF Books, MainSound
<1>4. RunIsOver(Top)
  <2>. SUFFICES ASSUME RunCannotAdopt, ~RunIsOver(Top) PROVE FALSE
    BY DEF RunEnds
  <2>1. q.next[Main] \in Tasklets \ {Main}
    <3>1. q.next[Main] # NULL
      BY <1>2 DEF RunIsOver
    <3>. QED
      BY <3>1, GoodQueue DEF Control, Types, QueueFits
  <2>2. q.next[Main] \in Lineage(gl, Main)
    BY <1>2 DEF RunCannotAdopt, RefusesParent
  <2>. QED
    BY <1>3, <2>1, <2>2, NoneAboveMain
<1>5. \A t : ~Chosen(t)
  BY <1>2, <1>4 DEF Chosen
<1>6. /\ active' = active /\ \A t \in Tasklets \ {active} : stack'[t] = stack[t]
      /\ \A pc : ~TopIs(active, "Run", pc)'
      /\ stack'[Main] = Tail(stack[Main])
  <2>1. PICK r : Return(r)
    BY <1>1
  <2>2. /\ active' = active /\ \A t \in Tasklets \ {active} : stack'[t] = stack[t]
        /\ \A pc : ~TopIs(active, "Run", pc)'
    BY <1>1, <2>1, SwitchIsOver
  <2>3. stack'[Main] = Tail(stack[Main])
    BY <1>2, <2>1, MainAssumption DEF Return, Continue, Control, Stacks
  <2>. QED
    BY <2>2, <2>3
<1>7. Placed(Main)'
  BY <1>1, <1>2, <1>6, MainSleeps
<1>8. ~RunsOne'
  BY <1>2, <1>6 DEF RunsOne, AtRun, TopIs
<1>9. Ended'
  BY <1>8 DEF Ended
<1>. DEFINE x == Main
<1>10. x = Main
  OBVIOUS
<1>. HIDE DEF x
<1>. QED
  BY <1>1, <1>2, <1>3, <1>5, <1>6, <1>7, <1>9, <1>10, LoopMoves

(* What the loop does with the fields of the one it has run. *)
LEMMA AfterTheRun ==
    ASSUME Control(Channels), gl[Main].parent = NULL, NEW x \in Tasklets \ {Main},
           gl' = gl \/ gl' = Parented(gl, x, NULL)
    PROVE  gl'[Main].parent = NULL /\ \A u \in Tasklets : gl'[u].state = gl[u].state
BY MainAssumption DEF Parented, GreenletType, Control, Types, GreenletsFit

LEMMA RunFailsKeepsBooks ==
    ASSUME Control(Channels), Books, RunFails
    PROVE  KeepsBooks
<1>1. /\ stack[active] # <<>> /\ Top.k = "Run" /\ Top.pc = "out" /\ ret = "Error"
      /\ Return(ret) /\ ch' = ch
  BY DEF RunFails, AtFrame
<1>2. /\ active = Main /\ RunsOne /\ Target = Top.sw /\ Top.sw \in Tasklets \ {Main}
      /\ tk[Top.sw].parent = Main /\ Main \in Tasklets /\ Main # NULL
      /\ stack[Main] # <<>> /\ Head(stack[Main]) = Top
  BY <1>1, InTheLoop, MainAssumption, NullAssumption
<1>3. PICK x \in Tasklets \ {Main} : x = Top.sw
  BY <1>2
<1>4. gl[Main].parent = NULL /\ \A t : ~Chosen(t) /\ ~Killed(t)
  BY <1>1, BooksInTheLoop
<1>5. stack[x] = <<>> /\ q.reschedule[x] = "NONE"
  BY <1>1, <1>2, <1>3 DEF Books, Ended
<1>6. /\ q'.blockedOn = q.blockedOn /\ q'.reschedule = q.reschedule
      /\ \A u \in Tasklets : q'.scheduled[u] => q.scheduled[u]
  <2>1. CASE tk[x].remove
    <3>. DEFINE c == SetCurrentTasklet(q, Main)
    <3>1. q' = RemoveTasklet(c, x)
      BY <1>2, <1>3, <2>1 DEF RunFails
    <3>2. /\ Q!Good(c) /\ c.scheduled = q.scheduled
          /\ c.reschedule = q.reschedule /\ c.blockedOn = q.blockedOn
      BY <1>2, SetsCurrent DEF Control, Types, QueueFits
    <3>. HIDE DEF c
    <3>3. Removed(c, q', x)
      BY <3>1, <3>2, RemoveRemoves
    <3>. QED
      BY <3>2, <3>3 DEF Removed
  <2>2. CASE ~tk[x].remove
    <3>1. q' = q
      BY <1>3, <2>2 DEF RunFails
    <3>. QED
      BY <3>1
  <2>. QED
    BY <2>1, <2>2
<1>7. /\ gl' = gl \/ gl' = Parented(gl, x, NULL)
      /\ tk' = tk \/ tk' = [tk EXCEPT ![x].parent = NULL]
  <2>1. CASE tk[x].remove
    BY <1>3, <2>1 DEF RunFails
  <2>2. CASE ~tk[x].remove
    BY <1>3, <2>2 DEF RunFails
  <2>. QED
    BY <2>1, <2>2
<1>8. /\ gl'[Main].parent = NULL /\ \A u \in Tasklets : gl'[u].state = gl[u].state
      /\ \A u \in Tasklets : tk'[u].dir = tk[u].dir /\ tk'[u].firstRun = tk[u].firstRun
  <2>1. gl'[Main].parent = NULL /\ \A u \in Tasklets : gl'[u].state = gl[u].state
    BY <1>4, <1>7, AfterTheRun
  <2>2. \A u \in Tasklets : tk'[u].dir = tk[u].dir /\ tk'[u].firstRun = tk[u].firstRun
    <3>1. tk \in [Tasklets -> TaskletType] /\ tk[x] \in TaskletType
      BY DEF Control, Types, TaskletsFit
    <3>. DEFINE v == [tk[x] EXCEPT !.parent = NULL]
    <3>2. v.dir = tk[x].dir /\ v.firstRun = tk[x].firstRun
      BY <3>1 DEF TaskletType
    <3>3. tk' = tk \/ tk' = [tk EXCEPT ![x] = v]
      BY <1>7
    <3>. HIDE DEF v
    <3>. QED
      BY <3>1, <3>2, <3>3
  <2>. QED
    BY <2>1, <2>2
<1>9. /\ active' = active /\ \A t \in Tasklets \ {active} : stack'[t] = stack[t]
      /\ \A pc : ~TopIs(active, "Run", pc)'
      /\ stack'[Main] = Tail(stack[Main])
  <2>1. /\ active' = active /\ \A t \in Tasklets \ {active} : stack'[t] = stack[t]
        /\ \A pc : ~TopIs(active, "Run", pc)'
    BY <1>1, SwitchIsOver
  <2>2. stack'[Main] = Tail(stack[Main])
    BY <1>1, <1>2, MainAssumption DEF Return, Continue, Control, Stacks
  <2>. QED
    BY <2>1, <2>2
<1>10. Placed(Main)'
  BY <1>1, <1>2, <1>6, <1>8, <1>9, MainSleeps
<1>11. ~RunsOne'
  BY <1>2, <1>9 DEF RunsOne, AtRun, TopIs
<1>12. Ended'
  BY <1>11 DEF Ended
<1>13. Placed(x)'
  <2>1. \A c \in Channels : ~B!Waits(x, ch[c])
    <3>1. \A c \in Channels : B!Waits(x, ch[c]) => Asleep(x, Wait(x, c))
      BY <1>1, <1>3, BooksInTheLoop
    <3>. QED
      BY <1>3, <1>5, <3>1 DEF Asleep
  <2>. QED
    BY <1>1, <2>1 DEF Placed
<1>14. Sound(x)'
  <2>1. Sound(x) /\ active # x /\ active' # x /\ stack'[x] = stack[x] /\ q'.reschedule[x] = "NONE"
    BY <1>2, <1>3, <1>5, <1>6, <1>9 DEF Books
  <2>. QED
    BY <1>5, <1>6, <1>8, <2>1 DEF Sound
<1>. QED
  BY <1>1, <1>2, <1>3, <1>4, <1>6, <1>8, <1>9, <1>10, <1>12, <1>13, <1>14, LoopMoves

LEMMA RunContinuesKeepsBooks ==
    ASSUME Control(Channels), Books, RunContinues
    PROVE  KeepsBooks
<1>. DEFINE f == [Top EXCEPT !.pc = "head", !.sw = NULL,
                             !.done = (Top.until /\ ~IsBlocked(q, Main)) \/ Top.sw = Top.end]
<1>1. /\ stack[active] # <<>> /\ Top.k = "Run" /\ Top.pc = "out"
      /\ tk' = [tk EXCEPT ![Top.sw].exc = IF ret = "TaskletExit" THEN "none" ELSE @,
                          ![Top.sw].parent = IF tk[Top.sw].alive THEN @ ELSE NULL]
      /\ gl' = gl \/ gl' = Parented(gl, Top.sw, NULL)
      /\ Continue(<<f>> \o Tail(stack[active]), "none") /\ ch' = ch
  BY DEF RunContinues, AtFrame
<1>2. /\ active = Main /\ RunsOne /\ Target = Top.sw /\ Top.sw \in Tasklets \ {Main}
      /\ q.scheduled[Top.sw] /\ Main \in Tasklets
      /\ stack[Main] # <<>> /\ Head(stack[Main]) = Top
  BY <1>1, InTheLoop, MainAssumption
<1>3. PICK x \in Tasklets \ {Main} : x = Top.sw
  BY <1>2
<1>4. gl[Main].parent = NULL /\ \A t : ~Chosen(t) /\ ~Killed(t)
  BY <1>1, BooksInTheLoop
<1>5. CameBack(q, q', x)
  BY <1>3, RunContinuesKeepsControl
<1>6. f \in RunFrames /\ f.pc = "head" /\ f.k = "Run"
  <2>1. Top \in RunFrames
    BY <1>1, <1>2, InTheMiddle
  <2>2. ((Top.until /\ ~IsBlocked(q, Main)) \/ Top.sw = Top.end) \in BOOLEAN
    OBVIOUS
  <2>. QED
    BY <2>1, <2>2 DEF RunFrames
<1>. HIDE DEF f
<1>7. /\ gl'[Main].parent = NULL /\ \A u \in Tasklets : gl'[u].state = gl[u].state
      /\ \A u \in Tasklets : tk'[u].dir = tk[u].dir /\ tk'[u].firstRun = tk[u].firstRun
  <2>1. gl'[Main].parent = NULL /\ \A u \in Tasklets : gl'[u].state = gl[u].state
    BY <1>1, <1>3, <1>4, AfterTheRun
  <2>2. \A u \in Tasklets : tk'[u].dir = tk[u].dir /\ tk'[u].firstRun = tk[u].firstRun
    <3>1. tk \in [Tasklets -> TaskletType] /\ tk[x] \in TaskletType
      BY DEF Control, Types, TaskletsFit
    <3>. DEFINE e == IF ret = "TaskletExit" THEN "none" ELSE tk[x].exc
                p == IF tk[x].alive THEN tk[x].parent ELSE NULL
    <3>2. tk' = [tk EXCEPT ![x].exc = e, ![x].parent = p]
      BY <1>1, <1>3
    <3>. HIDE DEF e, p
    <3>. DEFINE v == [tk[x] EXCEPT !.exc = e, !.parent = p]
    <3>3. v.dir = tk[x].dir /\ v.firstRun = tk[x].firstRun
      BY <3>1 DEF TaskletType
    <3>4. tk' = [tk EXCEPT ![x] = v]
      BY <3>1, <3>2
    <3>. HIDE DEF v
    <3>. QED
      BY <3>1, <3>3, <3>4
  <2>. QED
    BY <2>1, <2>2
<1>8. /\ active' = Main /\ \A t \in Tasklets \ {Main} : stack'[t] = stack[t]
      /\ stack'[Main] # <<>> /\ Head(stack'[Main]) = f /\ Tail(stack'[Main]) = Tail(stack[Main])
  <2>. DEFINE s == <<f>> \o Tail(stack[active])
  <2>1. s # <<>> /\ Head(s) = f /\ Tail(s) = Tail(stack[active])
    <3>1. Tail(stack[active]) \in Rests(Channels, active) /\ f \in Switching(active)
      BY <1>1, <1>2, <1>6, InTheMiddle DEF Switching
    <3>. QED
      BY <3>1, SwitchOnTop
  <2>. HIDE DEF s
  <2>2. Continue(s, "none")
    BY <1>1 DEF s
  <2>3. stack'[Main] = s /\ active' = Main /\ \A t \in Tasklets \ {Main} : stack'[t] = stack[t]
    BY <1>2, <2>2 DEF Continue, Control, Stacks
  <2>. QED
    BY <1>2, <2>1, <2>3
<1>9. q'.blockedOn[Main] = q.blockedOn[Main]
  BY <1>2, <1>5 DEF CameBack
<1>10. Placed(Main)'
  BY <1>1, <1>2, <1>6, <1>7, <1>8, <1>9, MainSleeps
<1>11. ~RunsOne'
  BY <1>6, <1>8 DEF RunsOne, AtRun, TopIs
<1>12. Ended'
  BY <1>11 DEF Ended
<1>13. ASSUME Listed(x) PROVE Unmoved(x) /\ Idle(x)' /\ Noting(x)'
  <2>1. Noting(x) /\ stack'[x] = stack[x]
    BY <1>3, <1>8 DEF Books
  <2>2. q.reschedule[x] = "NONE"
    BY <1>1, <1>3, <1>13, BooksInTheLoop DEF Listed
  <2>3. ~q'.scheduled[x] /\ q'.reschedule[x] = "NONE" /\ q'.blockedOn[x] = q.blockedOn[x]
    BY <1>3, <1>5, <2>2 DEF CameBack
  <2>4. Unmoved(x)
    <3>1. SameLists({x})
      BY <1>1 DEF SameLists
    <3>. QED
      BY <1>7, <2>2, <2>3, <3>1 DEF Unmoved, Steady
  <2>5. ASSUME NEW c \in Channels, B!Waits(x, ch'[c])
        PROVE  Asleep(x, Wait(x, c))' /\ q'.blockedOn[x] = c
    <3>1. Asleep(x, Wait(x, c)) /\ q.blockedOn[x] = c
      BY <1>1, <1>3, <2>5, BooksInTheLoop
    <3>2. Wait(x, c)' = Wait(x, c)
      BY <1>7 DEF Wait
    <3>3. Asleep(x, Wait(x, c))'
      BY <2>1, <3>1, <3>2 DEF Asleep
    <3>. QED
      BY <2>3, <3>1, <3>3
  <2>6. Idle(x)'
    BY <2>3, <2>5 DEF Idle
  <2>7. Noting(x)'
    BY <1>1, <1>7, <2>1 DEF Noting
  <2>. QED
    BY <2>4, <2>6, <2>7
<1>14. Placed(x)'
  <2>1. Listed(x) => Placed(x)'
    BY <1>13, IdleIsPlaced
  <2>2. ~Listed(x) => Placed(x)'
    BY <1>1 DEF Listed, Placed
  <2>. QED
    BY <2>1, <2>2
<1>15. Sound(x)'
  <2>1. Sound(x) /\ active # x /\ active' # x /\ stack'[x] = stack[x] /\ q'.reschedule[x] = "NONE"
    BY <1>2, <1>3, <1>5, <1>8 DEF Books, CameBack
  <2>2. gl[x].state # "unborn"
    BY <1>2, <1>3, <2>1 DEF Sound
  <2>. QED
    BY <1>7, <2>1, <2>2 DEF Sound
<1>16. \A u \in Tasklets \ {Main, x} :
          /\ ~Chosen(u) /\ stack'[u] = stack[u]
          /\ q'.reschedule[u] = q.reschedule[u] /\ (q'.scheduled[u] => q.scheduled[u])
          /\ q'.blockedOn[u] = q.blockedOn[u] \/ q.scheduled[u]
          /\ tk'[u].firstRun = tk[u].firstRun /\ gl'[u].state = gl[u].state
  <2>1. \A u \in Tasklets \ {Main, x} :
          /\ q'.reschedule[u] = q.reschedule[u] /\ (q'.scheduled[u] => q.scheduled[u])
          /\ q'.blockedOn[u] = q.blockedOn[u] \/ q.scheduled[u]
    BY <1>5 DEF CameBack
  <2>. QED
    BY <1>4, <1>7, <1>8, <2>1
<1>17. /\ active \in {Main, x} /\ active' \in {Main, x} /\ (active = Main /\ RunsOne => Target = x)
       /\ \A u \in Tasklets : tk'[u].dir = tk[u].dir
       /\ gl'[Main].parent = NULL /\ ch' = ch
       /\ x \in Tasklets \ {Main} => Placed(x)' /\ Sound(x)'
  BY <1>1, <1>2, <1>3, <1>7, <1>8, <1>14, <1>15
<1>. QED
  BY <1>9, <1>10, <1>12, <1>16, <1>17, LoopMoves

(* Control falls back to main: what main waits for stays below its loop. *)
LEMMA MainWaitsOn ==
    ASSUME Control(Channels), Books, active # Main, ch' = ch, stack'[Main] = stack[Main],
           tk'[Main].dir = tk[Main].dir, q'.blockedOn[Main] = q.blockedOn[Main]
    PROVE  Placed(Main)'
<1>1. stack[Main] # <<>> /\ Head(stack[Main]).k = "Run"
  BY RunByMain DEF AtRun, TopIs
<1>. QED
  BY <1>1, MainSleeps

LEMMA DiesKeepsBooks ==
    ASSUME Control(Channels), Books, stack[active] = <<>>, NEW r \in Outcomes, Dies(r)
    PROVE  KeepsBooks
<1>1. /\ active # Main /\ active \in Tasklets /\ q' = q /\ tk' = tk /\ stack' = stack /\ ch' = ch
      /\ gl' = [gl EXCEPT ![active].state = "dead"] /\ gl'[active].state = "dead"
      /\ gl \in [Tasklets -> GreenletType] /\ stack[active] \in Rests(Channels, active)
  BY DiesKeepsControl, EmptyStack DEF Dies, Control, Types, GreenletsFit
<1>2. active' = Main
  <2>1. Control(Channels)' /\ q.current = active
    BY <1>1, DiesKeepsControl, RunByMain
  <2>2. active' # Main => q'.current = active' /\ gl'[active'].state = "started"
    BY <2>1 DEF Control, Runs
  <2>. QED
    BY <1>1, <2>1, <2>2
<1>3. PICK x \in Tasklets \ {Main} : x = active
  BY <1>1
<1>4. ~Listed(x) /\ q.reschedule[x] = "NONE" /\ Sound(x)
  <2>1. ~Listed(active) /\ \A t : ~Leaves(t)
    BY <1>1, CallerIsFree, NotSwitching
  <2>. QED
    BY <1>3, <2>1 DEF Books, Sound
<1>5. Placed(x)'
  BY <1>1, <1>4 DEF Placed, Listed
<1>6. Sound(x)'
  BY <1>1, <1>2, <1>3, <1>4 DEF Sound
<1>7. /\ \A u \in Tasklets \ {x} : gl'[u].state = gl[u].state
      /\ gl'[Main].parent = NULL
  <2>1. \A u \in Tasklets : gl'[u].parent = gl[u].parent /\ (u # active => gl'[u] = gl[u])
    BY <1>1 DEF GreenletType
  <2>. QED
    BY <1>3, <2>1, MainAssumption DEF Books, MainSound
<1>8. Placed(Main)'
  BY <1>1, MainWaitsOn
<1>9. Ended'
  <2>1. Target' = x
    BY <1>1, <1>3, RunByMain DEF Target
  <2>2. stack'[x] = <<>> /\ q'.reschedule[x] = "NONE"
    BY <1>1, <1>3, <1>4
  <2>. QED
    BY <2>1, <2>2 DEF Ended
<1>10. /\ active \in {Main, x} /\ active' \in {Main, x} /\ (active = Main /\ RunsOne => Target = x)
       /\ \A u \in Tasklets : tk'[u].dir = tk[u].dir
       /\ gl'[Main].parent = NULL /\ ch' = ch /\ q'.blockedOn[Main] = q.blockedOn[Main]
       /\ x \in Tasklets \ {Main} => Placed(x)' /\ Sound(x)'
  BY <1>1, <1>2, <1>3, <1>5, <1>6, <1>7
<1>11. \A u \in Tasklets \ {Main, x} :
          /\ ~Chosen(u) /\ stack'[u] = stack[u]
          /\ q'.reschedule[u] = q.reschedule[u] /\ (q'.scheduled[u] => q.scheduled[u])
          /\ q'.blockedOn[u] = q.blockedOn[u] \/ q.scheduled[u]
          /\ tk'[u].firstRun = tk[u].firstRun /\ gl'[u].state = gl[u].state
  <2>1. \A u : ~Chosen(u)
    BY <1>1 DEF Chosen
  <2>. QED
    BY <1>1, <1>7, <2>1
<1>. QED
  BY <1>8, <1>9, <1>10, <1>11, LoopMoves

(* Yield is over: the call that it was part of goes on, or fails. *)
LEMMA YieldReturnsKeepsBooks ==
    ASSUME Control(Channels), Books, YieldReturns
    PROVE  KeepsBooks
<1>1. /\ stack[active] # <<>> /\ Top.k = "Yield" /\ Top.pc = "out" /\ Return(ret)
      /\ ret # "ok" \/ ~IsBlocked(q, Top.t)
      /\ q' = q /\ tk' = tk /\ gl' = gl /\ ch' = ch
  BY DEF YieldReturns, AtFrame
<1>2. /\ active # Main /\ active \in Tasklets /\ Top.t = active
      /\ \A t : ~Chosen(t)
  BY <1>1, InTheMiddle DEF Chosen
<1>3. PICK x \in Tasklets \ {Main} : x = active
  BY <1>2
<1>4. AtYield(x, "out") /\ stack[x] # <<>>
  BY <1>1, <1>3 DEF AtYield, TopIs, Top
<1>5. /\ active' = x /\ \A u \in Tasklets \ {x} : stack'[u] = stack[u]
      /\ stack'[x] = Tail(stack[x])
  <2>1. /\ active' = active /\ \A u \in Tasklets \ {active} : stack'[u] = stack[u]
    BY <1>1, SwitchIsOver
  <2>2. stack'[active] = Tail(stack[active])
    BY <1>1, <1>2 DEF Return, Continue, Control, Stacks
  <2>. QED
    BY <1>3, <2>1, <2>2
<1>6. ~Leaves(x) /\ Sound(x) /\ q.reschedule[x] = "NONE" /\ ret # "none"
  <2>1. ~AtYield(x, "head")
    BY <1>4 DEF AtYield, TopIs
  <2>2. ~Leaves(x)
    BY <1>2, <2>1 DEF Leaves
  <2>. QED
    BY <1>3, <1>4, <2>2 DEF Books, Sound
<1>7. Sound(x)'
  <2>1. ~TopIs(active, "Yield", "in")' /\ ~TopIs(active, "Yield", "out")'
    BY <1>1, SwitchIsOver
  <2>2. ~AtYield(x, "in")' /\ ~AtYield(x, "out")'
    BY <1>3, <1>5, <2>1 DEF AtYield, TopIs
  <2>3. stack'[x] # <<>> => gl[x].state = "started"
    BY <1>2, <1>3, RunByMain
  <2>. QED
    BY <1>1, <1>3, <1>5, <1>6, <2>2, <2>3 DEF Sound
<1>8. Placed(x)'
  <2>. SUFFICES ASSUME NEW c \in Channels, B!Waits(x, ch[c])
                PROVE  Failed(x, Wait(x, c))' /\ Unqueued(x)'
    BY <1>1, <1>3 DEF Placed
  <2>. DEFINE w == Wait(x, c)
  <2>1. w' = w
    BY <1>1 DEF Wait
  <2>2. stack[x] # <<w>>
    BY <1>4 DEF AtYield, TopIs, Wait, Rest
  <2>. HIDE DEF w
  <2>3. Asleep(x, w) /\ (q.blockedOn[x] = c \/ Killed(x)) /\ Unqueued(x)
    BY <1>3, <2>2 DEF Books, Placed, Failed, w
  <2>4. Tail(stack[x]) = <<w>>
    BY <1>3, <2>3 DEF Asleep
  <2>5. ret \in Errors
    <3>1. Killed(x) => ret \in Errors
      <4>1. ~AtYield(x, "in") /\ ~Chosen(x)
        BY <1>2, <1>4 DEF AtYield, TopIs
      <4>. QED
        BY <4>1 DEF Killed
    <3>2. ret \in {"ok", "none"} \cup Errors
      BY RetIsAnOutcome DEF Outcomes
    <3>3. q.blockedOn[x] = c => ret # "ok"
      BY <1>1, <1>2, <1>3, NullAssumption DEF IsBlocked
    <3>. QED
      BY <1>6, <2>3, <3>1, <3>2, <3>3
  <2>6. stack'[x] = <<w>> /\ ret' = ret
    <3>1. ret # "ok"
      BY <2>5 DEF Errors
    <3>2. ret' = ret
      BY <1>1, <3>1 DEF Return, Continue
    <3>3. stack'[x] = Tail(stack[x])
      BY <1>5
    <3>. QED
      BY <2>4, <3>2, <3>3
  <2>7. Failed(x, w)'
    BY <1>5, <2>1, <2>5, <2>6 DEF Failed
  <2>8. Unqueued(x)'
    BY <1>1, <1>5, <1>6 DEF Unqueued
  <2>. QED
    BY <2>7, <2>8 DEF w
<1>9. Placed(Main)'
  BY <1>1, <1>2, <1>3, <1>5, MainWaitsOn, MainAssumption
<1>10. Ended'
  BY <1>3, <1>5 DEF Ended
<1>11. /\ active \in {Main, x} /\ active' \in {Main, x} /\ (active = Main /\ RunsOne => Target = x)
       /\ \A u \in Tasklets : tk'[u].dir = tk[u].dir
       /\ gl'[Main].parent = NULL /\ ch' = ch /\ q'.blockedOn[Main] = q.blockedOn[Main]
       /\ x \in Tasklets \ {Main} => Placed(x)' /\ Sound(x)'
  BY <1>1, <1>2, <1>3, <1>5, <1>7, <1>8 DEF Books, MainSound
<1>12. \A u \in Tasklets \ {Main, x} :
          /\ ~Chosen(u) /\ stack'[u] = stack[u]
          /\ q'.reschedule[u] = q.reschedule[u] /\ (q'.scheduled[u] => q.scheduled[u])
          /\ q'.blockedOn[u] = q.blockedOn[u] \/ q.scheduled[u]
          /\ tk'[u].firstRun = tk[u].firstRun /\ gl'[u].state = gl[u].state
  BY <1>1, <1>2, <1>5
<1>. QED
  BY <1>9, <1>10, <1>11, <1>12, LoopMoves

(* What SwitchTo does to the fields of the tasklets once it has returned. *)
LEMMA FieldsAfterSwitch ==
    ASSUME Control(Channels), NEW x \in Tasklets, NEW r,
           tk' = [tk EXCEPT ![q.current].exc = "none"] \/ tk' = AfterSwitch(x, r)
    PROVE  \A u \in Tasklets : tk'[u].dir = tk[u].dir /\ tk'[u].firstRun = tk[u].firstRun
<1>1. tk \in [Tasklets -> TaskletType] /\ q.current \in Tasklets
  BY DEF Control, Types, TaskletsFit, QueueFits, Q!Good
<1>2. CASE tk' = [tk EXCEPT ![q.current].exc = "none"]
  <2>. DEFINE c == q.current
              v == [tk[c] EXCEPT !.exc = "none"]
  <2>1. tk[c] \in TaskletType
    BY <1>1
  <2>2. v.dir = tk[c].dir /\ v.firstRun = tk[c].firstRun
    BY <2>1 DEF TaskletType
  <2>3. tk' = [tk EXCEPT ![c] = v]
    BY <1>2
  <2>. HIDE DEF c, v
  <2>. QED
    BY <1>1, <2>2, <2>3
<1>3. CASE tk' = AfterSwitch(x, r)
  <2>1. /\ tk'[x].dir = tk[x].dir /\ tk'[x].firstRun = tk[x].firstRun
        /\ \A u \in Tasklets \ {x} : tk'[u] = tk[u]
    BY <1>3, AfterSwitchFlags
  <2>. QED
    BY <2>1
<1>. QED
  BY <1>2, <1>3

LEMMA LoopSwitchKeepsBooks ==
    ASSUME Control(Channels), Books, SwitchReturns, active = Main
    PROVE  KeepsBooks
<1>. DEFINE pending == tk[q.current].exc
            r == IF pending # "none" THEN pending ELSE ret
<1>1. /\ stack[active] # <<>> /\ Top.k = "Run" /\ Top.pc = "in"
      /\ q' = q /\ gl' = gl /\ ch' = ch
      /\ tk' = [tk EXCEPT ![q.current].exc = "none"] \/ tk' = AfterSwitch(Top.sw, ret)
      /\ Continue(<<[Top EXCEPT !.pc = "out"]>> \o Tail(stack[active]), r)
  <2>1. stack[active] # <<>> /\ Top.k \in {"Run", "Yield"} /\ Top.pc = "in"
    BY DEF SwitchReturns
  <2>2. Top.k = "Run"
    BY <2>1, InTheMiddle
  <2>. QED
    BY <2>1, <2>2 DEF SwitchReturns, Resumed
<1>. HIDE DEF r
<1>2. /\ RunsOne /\ Target = Top.sw /\ Top.sw \in Tasklets \ {Main} /\ q.current \in {Main, Top.sw}
      /\ stack[Main] # <<>> /\ Head(stack[Main]) = Top
  BY <1>1, InTheLoop
<1>3. PICK x \in Tasklets \ {Main} : x = Top.sw
  BY <1>2
<1>4. \A t : ~Chosen(t) /\ ~Killed(t)
  BY <1>1, BooksInTheLoop
<1>5. /\ active' = Main /\ ret' = r /\ stack'[Main] # <<>> /\ Head(stack'[Main]).k = "Run"
      /\ Head(stack'[Main]).pc = "out" /\ Head(stack'[Main]).sw = x
      /\ Tail(stack'[Main]) = Tail(stack[Main])
      /\ \A t \in Tasklets \ {Main} : stack'[t] = stack[t]
  BY <1>1, <1>3, PastTheSwitch
<1>6. RunsOne' /\ Target' = x
  BY <1>5 DEF RunsOne, AtRun, TopIs, Target
<1>7. \A u \in Tasklets : tk'[u].dir = tk[u].dir /\ tk'[u].firstRun = tk[u].firstRun
  BY <1>1, <1>2, FieldsAfterSwitch
<1>8. Placed(Main)'
  BY <1>1, <1>2, <1>5, <1>7, MainSleeps, MainAssumption
<1>9. Ended'
  <2>1. r # "ok" => ret # "ok" \/ q.current = x
    <3>1. tk[Main].exc = "none"
      BY DEF Control, Types, TaskletsFit
    <3>. QED
      BY <1>2, <1>3, <3>1 DEF r
  <2>2. r # "ok" \/ q.current = x => stack[x] = <<>> /\ q.reschedule[x] = "NONE"
    BY <1>2, <1>3, <2>1 DEF Books, Ended
  <2>. QED
    BY <1>1, <1>5, <1>6, <2>2 DEF Ended
<1>10. Leaves(x)'
  BY <1>5, <1>6 DEF Leaves
<1>11. Placed(x)'
  <2>. SUFFICES ASSUME NEW c \in Channels, B!Waits(x, ch[c])
                PROVE  Asleep(x, Wait(x, c))' /\ q'.blockedOn[x] = c /\ Unqueued(x)'
    BY <1>1 DEF Placed
  <2>1. Asleep(x, Wait(x, c)) /\ q.blockedOn[x] = c /\ q.reschedule[x] = "NONE"
    BY <1>1, <1>3, BooksInTheLoop
  <2>2. Wait(x, c)' = Wait(x, c) /\ stack'[x] = stack[x]
    BY <1>5, <1>7 DEF Wait
  <2>3. Asleep(x, Wait(x, c))'
    BY <2>1, <2>2 DEF Asleep
  <2>. QED
    BY <1>1, <1>10, <2>1, <2>3 DEF Unqueued
<1>12. Sound(x)'
  <2>1. Sound(x) /\ active # x /\ active' # x /\ stack'[x] = stack[x]
    BY <1>3, <1>5 DEF Books
  <2>. QED
    BY <1>1, <1>7, <1>10, <2>1 DEF Sound
<1>13. /\ active \in {Main, x} /\ active' \in {Main, x} /\ (active = Main /\ RunsOne => Target = x)
       /\ \A u \in Tasklets : tk'[u].dir = tk[u].dir
       /\ gl'[Main].parent = NULL /\ ch' = ch /\ q'.blockedOn[Main] = q.blockedOn[Main]
       /\ x \in Tasklets \ {Main} => Placed(x)' /\ Sound(x)'
  BY <1>1, <1>2, <1>3, <1>5, <1>7, <1>11, <1>12 DEF Books, MainSound
<1>14. \A u \in Tasklets \ {Main, x} :
          /\ ~Chosen(u) /\ stack'[u] = stack[u]
          /\ q'.reschedule[u] = q.reschedule[u] /\ (q'.scheduled[u] => q.scheduled[u])
          /\ q'.blockedOn[u] = q.blockedOn[u] \/ q.scheduled[u]
          /\ tk'[u].firstRun = tk[u].firstRun /\ gl'[u].state = gl[u].state
  BY <1>1, <1>4, <1>5, <1>7
<1>. QED
  BY <1>8, <1>9, <1>13, <1>14, LoopMoves

LEMMA YieldSwitchKeepsBooks ==
    ASSUME Control(Channels), Books, SwitchReturns, active # Main
    PROVE  KeepsBooks
<1>. DEFINE pending == tk[q.current].exc
            r == IF pending # "none" THEN pending ELSE ret
<1>1. /\ stack[active] # <<>> /\ Top.k = "Yield" /\ Top.pc = "in"
      /\ q' = q /\ gl' = gl /\ ch' = ch
      /\ tk' = [tk EXCEPT ![q.current].exc = "none"] \/ tk' = AfterSwitch(Top.sw, ret)
      /\ Continue(<<[Top EXCEPT !.pc = "out"]>> \o Tail(stack[active]), r)
  <2>1. stack[active] # <<>> /\ Top.k \in {"Run", "Yield"} /\ Top.pc = "in"
    BY DEF SwitchReturns
  <2>2. Top.k = "Yield"
    BY <2>1, InTheMiddle
  <2>. QED
    BY <2>1, <2>2 DEF SwitchReturns, Resumed
<1>. HIDE DEF r
<1>2. /\ active \in Tasklets /\ Top.sw \in Tasklets /\ q.current = active
  <2>1. active \in Tasklets /\ Top \in YieldFrames(active)
    BY <1>1, InTheMiddle
  <2>. QED
    BY <1>1, <2>1, RunByMain, MainAssumption DEF YieldFrames
<1>3. PICK x \in Tasklets \ {Main} : x = active
  BY <1>2
<1>4. AtYield(x, "in") /\ stack[x] # <<>> /\ ~AtYield(x, "head") /\ ~AtYield(x, "out")
  BY <1>1, <1>3 DEF AtYield, TopIs, Top
<1>5. /\ active' = x /\ ret' = r /\ stack'[x] # <<>> /\ Head(stack'[x]).k = "Yield"
      /\ Head(stack'[x]).pc = "out" /\ Tail(stack'[x]) = Tail(stack[x])
      /\ \A t \in Tasklets \ {x} : stack'[t] = stack[t]
  BY <1>1, <1>3, PastTheSwitch
<1>6. AtYield(x, "out")' /\ ~AtYield(x, "in")'
  BY <1>5 DEF AtYield, TopIs
<1>7. \A u \in Tasklets : tk'[u].dir = tk[u].dir /\ tk'[u].firstRun = tk[u].firstRun
  BY <1>1, <1>2, FieldsAfterSwitch
<1>8. Sound(x) /\ ~Leaves(x) /\ q.reschedule[x] = "NONE" /\ ret # "none"
  <2>1. ~Leaves(x)
    BY <1>3, <1>4 DEF Leaves
  <2>. QED
    BY <1>3, <1>4, <2>1 DEF Books, Sound
<1>9. tk[x].exc # "none" => r = tk[x].exc /\ r \in Errors
  <2>1. tk[x] \in TaskletType
    BY DEF Control, Types, TaskletsFit
  <2>. QED
    BY <1>2, <1>3, <2>1 DEF r, TaskletType
<1>10. r # "none"
  <2>1. tk[x].exc = "none" => r = ret
    BY <1>2, <1>3 DEF r
  <2>. QED
    BY <1>8, <1>9, <2>1
<1>11. Placed(x)'
  <2>. SUFFICES ASSUME NEW c \in Channels, B!Waits(x, ch[c])
                PROVE  /\ Asleep(x, Wait(x, c))' /\ Unqueued(x)'
                       /\ q'.blockedOn[x] = c \/ Killed(x)'
    BY <1>1, <1>3 DEF Placed
  <2>1. ~Failed(x, Wait(x, c))
    BY <1>4 DEF Failed, AtYield, TopIs, Wait, Rest
  <2>2. Asleep(x, Wait(x, c)) /\ (q.blockedOn[x] = c \/ Killed(x)) /\ Unqueued(x)
    BY <1>3, <2>1 DEF Books, Placed
  <2>3. Wait(x, c)' = Wait(x, c)
    BY <1>7 DEF Wait
  <2>4. Asleep(x, Wait(x, c))'
    BY <1>3, <1>5, <2>2, <2>3 DEF Asleep
  <2>5. Killed(x) => tk[x].exc # "none"
    BY <1>3, <1>4 DEF Killed
  <2>6. Killed(x) => Killed(x)'
    BY <1>5, <1>6, <1>9, <2>5 DEF Killed
  <2>7. Unqueued(x)'
    BY <1>1, <1>5, <1>8 DEF Unqueued
  <2>. QED
    BY <1>1, <2>2, <2>4, <2>6, <2>7
<1>12. Sound(x)'
  BY <1>1, <1>3, <1>4, <1>5, <1>7, <1>8, <1>10 DEF Sound
<1>13. Placed(Main)'
  BY <1>1, <1>3, <1>5, <1>7, MainWaitsOn, MainAssumption
<1>14. Ended'
  BY <1>3, <1>5 DEF Ended
<1>15. /\ active \in {Main, x} /\ active' \in {Main, x} /\ (active = Main /\ RunsOne => Target = x)
       /\ \A u \in Tasklets : tk'[u].dir = tk[u].dir
       /\ gl'[Main].parent = NULL /\ ch' = ch /\ q'.blockedOn[Main] = q.blockedOn[Main]
       /\ x \in Tasklets \ {Main} => Placed(x)' /\ Sound(x)'
  BY <1>1, <1>3, <1>5, <1>7, <1>11, <1>12 DEF Books, MainSound
<1>16. \A u \in Tasklets \ {Main, x} :
          /\ ~Chosen(u) /\ stack'[u] = stack[u]
          /\ q'.reschedule[u] = q.reschedule[u] /\ (q'.scheduled[u] => q.scheduled[u])
          /\ q'.blockedOn[u] = q.blockedOn[u] \/ q.scheduled[u]
          /\ tk'[u].firstRun = tk[u].firstRun /\ gl'[u].state = gl[u].state
  <2>1. \A u : ~Chosen(u)
    BY <1>3 DEF Chosen
  <2>. QED
    BY <1>1, <1>5, <1>7, <2>1
<1>. QED
  BY <1>13, <1>14, <1>15, <1>16, LoopMoves

(* A tasklet gives control back to the loop. *)
LEMMA YieldSwitchesKeepsBooks ==
    ASSUME Control(Channels), Books, NoTrap, YieldSwitches \/ YieldStaysBlocked
    PROVE  KeepsBooks
<1>1. /\ stack[active] # <<>> /\ Top.k = "Yield" /\ Top.pc \in {"head", "out"}
      /\ Top.pc = "out" => ret = "ok"
      /\ mgr' = mgr /\ ch' = ch
  BY DEF YieldSwitches, YieldStaysBlocked, AtFrame
<1>2. /\ Top.t = active /\ tk[active].parent = Main /\ Main # NULL /\ active # Main
      /\ Top \in YieldFrames(active) /\ active \in Tasklets
      /\ AtRun("in") /\ Target = active /\ gl[active].state = "started"
  BY <1>1, InTheMiddle, RunByMain, NullAssumption, MainAssumption
<1>3. SwitchTo(Top, Main, q, tk, gl)
  <2>1. UnblockedAncestor(active) = Main
    BY <1>2, MainIsTheAncestor
  <2>. QED
    BY <1>2, <2>1 DEF YieldSwitches, YieldStaysBlocked
<1>4. ~IsSwitchTrapped
  BY DEF IsSwitchTrapped, Control, Types, ManagerFits
<1>5. /\ QueueFits(Channels, q) /\ TaskletsFit(tk) /\ GreenletsFit(gl) /\ Main \in Tasklets
      /\ gl[Main].state = "started"
  BY MainAssumption DEF Control, Types, GreenletsFit
<1>6. Landing(gl, Main) = Main
  BY <1>5, LandsOnMain
<1>7. ~DiesUnstarted(tk, Main) /\ ~(tk[Main].firstRun /\ tk[Main].exc = "Error")
  BY <1>5 DEF DiesUnstarted, TaskletsFit
<1>. DEFINE in == [Top EXCEPT !.pc = "in", !.sw = Main]
<1>8. /\ stack' = [stack EXCEPT ![active] = <<in>> \o Tail(@)] /\ active' = Main
      /\ ret' = IF gl[Main].state = "new" THEN "none" ELSE "ok"
      /\ q' = SetCurrentTasklet(q, Main)
      /\ tk' = [tk EXCEPT ![Main].paused = FALSE, ![Main].firstRun = FALSE]
      /\ gl' = [gl EXCEPT ![Main].state = "started"]
  BY <1>3, <1>4, <1>6, <1>7 DEF SwitchTo
<1>9. in \in Switching(active) /\ in.k = "Yield"
  BY <1>2 DEF Switching, YieldFrames
<1>. HIDE DEF in
<1>10. stack' = [stack EXCEPT ![active] = <<in>> \o Tail(stack[active])] /\ ret' = "ok"
  BY <1>5, <1>8
<1>11. gl' = gl
  BY <1>5, <1>8 DEF GreenletsFit, GreenletType
<1>12. /\ q'.current = Main /\ q'.scheduled = q.scheduled
       /\ q'.reschedule = q.reschedule /\ q'.blockedOn = q.blockedOn
  BY <1>5, <1>8, SetsCurrent DEF QueueFits
<1>13. PICK x \in Tasklets \ {Main} : x = active
  BY <1>2
<1>14. /\ stack'[x] # <<>> /\ Head(stack'[x]) = in /\ Tail(stack'[x]) = Tail(stack[x])
       /\ \A t \in Tasklets \ {x} : stack'[t] = stack[t]
  <2>1. mgr'.runType = mgr.runType /\ (mgr'.stop => mgr.stop \/ mgr.runType # "STANDARD")
    BY <1>1
  <2>2. Top.k \in {"Run", "Yield"}
    BY <1>1
  <2>. QED
    BY <1>1, <1>9, <1>10, <1>13, <2>1, <2>2, TopMoves
<1>15. /\ \A u \in Tasklets : tk'[u].dir = tk[u].dir
       /\ \A u \in Tasklets \ {Main} : tk'[u] = tk[u]
  <2>. DEFINE v == [tk[Main] EXCEPT !.paused = FALSE, !.firstRun = FALSE]
  <2>1. tk \in [Tasklets -> TaskletType] /\ tk[Main] \in TaskletType
    BY <1>5 DEF TaskletsFit
  <2>2. v.dir = tk[Main].dir
    BY <2>1 DEF TaskletType
  <2>3. tk' = [tk EXCEPT ![Main] = v]
    BY <1>5, <1>8, <2>1
  <2>. HIDE DEF v
  <2>. QED
    BY <1>5, <2>1, <2>2, <2>3
<1>16. RunsOne' /\ Target' = x
  <2>1. stack'[Main] = stack[Main]
    BY <1>5, <1>13, <1>14
  <2>. QED
    BY <1>2, <1>13, <2>1 DEF RunsOne, AtRun, TopIs, Target
<1>17. Leaves(x)'
  BY <1>8, <1>16 DEF Leaves
<1>18. Placed(x)'
  <2>. SUFFICES ASSUME NEW c \in Channels, B!Waits(x, ch[c])
                PROVE  Asleep(x, Wait(x, c))' /\ Unqueued(x)' /\ q'.blockedOn[x] = c
    BY <1>1, <1>13 DEF Placed
  <2>. DEFINE w == Wait(x, c)
  <2>1. stack[x] # <<w>>
    BY <1>1, <1>13 DEF Wait, Rest, Top
  <2>2. w' = w
    BY <1>15 DEF Wait
  <2>. HIDE DEF w
  <2>3. ~Killed(x)
    <3>1. ~Chosen(x)
      BY <1>2 DEF Chosen
    <3>2. ~AtYield(x, "in")
      BY <1>1, <1>13 DEF AtYield, TopIs, Top
    <3>3. AtYield(x, "out") => ret \notin Errors
      BY <1>1, <1>13 DEF AtYield, TopIs, Top, Errors
    <3>. QED
      BY <3>1, <3>2, <3>3 DEF Killed
  <2>4. Asleep(x, w) /\ q.blockedOn[x] = c /\ q.reschedule[x] = "NONE"
    BY <1>13, <2>1, <2>3 DEF Books, Placed, Failed, Unqueued, w
  <2>5. Asleep(x, w)'
    BY <1>9, <1>13, <1>14, <2>2, <2>4 DEF Asleep
  <2>. QED
    BY <1>12, <1>17, <2>4, <2>5 DEF Unqueued, w
<1>19. Sound(x)'
  BY <1>2, <1>8, <1>11, <1>13, <1>14, <1>15, <1>17 DEF Sound, Books
<1>20. Placed(Main)'
  BY <1>1, <1>2, <1>5, <1>12, <1>13, <1>14, <1>15, MainWaitsOn
<1>21. Ended'
  BY <1>10, <1>12, <1>13, <1>16 DEF Ended
<1>22. /\ active \in {Main, x} /\ active' \in {Main, x} /\ (active = Main /\ RunsOne => Target = x)
       /\ \A u \in Tasklets : tk'[u].dir = tk[u].dir
       /\ gl'[Main].parent = NULL /\ ch' = ch /\ q'.blockedOn[Main] = q.blockedOn[Main]
       /\ x \in Tasklets \ {Main} => Placed(x)' /\ Sound(x)'
  BY <1>1, <1>8, <1>11, <1>12, <1>13, <1>15, <1>18, <1>19 DEF Books, MainSound
<1>23. \A u \in Tasklets \ {Main, x} :
          /\ ~Chosen(u) /\ stack'[u] = stack[u]
          /\ q'.reschedule[u] = q.reschedule[u] /\ (q'.scheduled[u] => q.scheduled[u])
          /\ q'.blockedOn[u] = q.blockedOn[u] \/ q.scheduled[u]
          /\ tk'[u].firstRun = tk[u].firstRun /\ gl'[u].state = gl[u].state
  <2>1. \A u : ~Chosen(u)
    BY <1>2 DEF Chosen
  <2>. QED
    BY <1>11, <1>12, <1>14, <1>15, <2>1
<1>. QED
  BY <1>20, <1>21, <1>22, <1>23, LoopMoves

(* The loop switches to the tasklet that is next. *)
LEMMA RunSwitchesKeepsBooks ==
    ASSUME Control(Channels), Books, NoTrap, NoThrow, RunSwitches
    PROVE  KeepsBooks
<1>. DEFINE next == q.next[Main]
<1>1. stack[active] # <<>> /\ Top.k = "Run" /\ Top.pc = "head" /\ ~RunIsOver(Top) /\ ch' = ch
  BY DEF RunSwitches, AtFrame
<1>2. /\ active = Main /\ Top.base = Main /\ ~RunsOne /\ q.current = Main
      /\ stack[Main] # <<>> /\ Head(stack[Main]) = Top /\ AtRun("head")
  BY <1>1, InTheLoop DEF AtRun, TopIs
<1>3. /\ QueueFits(Channels, q) /\ TaskletsFit(tk) /\ GreenletsFit(gl) /\ ManagerFits(mgr)
      /\ Main \in Tasklets /\ gl[Main].state = "started" /\ gl[Main].parent = NULL
  BY MainAssumption DEF Control, Types, GreenletsFit, Books, MainSound
<1>4. next \in Tasklets \ {Main} /\ q.scheduled[next]
  <2>1. q.next[Main] # NULL
    BY <1>1, <1>2 DEF RunIsOver
  <2>. QED
    BY <1>3, <2>1, GoodQueue DEF QueueFits
<1>5. /\ mgr'.runType = mgr.runType /\ (mgr'.stop => mgr.stop \/ mgr.runType # "STANDARD")
  <2>1. PICK expired \in BOOLEAN : mgr' = LimitTested(mgr, expired)
    BY DEF RunSwitches
  <2>. QED
    BY <1>3, <2>1, LimitsAreTested
<1>6. PICK x \in Tasklets \ {Main} : x = q.next[Main]
  BY <1>4
<1>. HIDE DEF next
<1>. DEFINE tk0 == Adopted(tk, x, Main)
            g0 == Parented(gl, x, Main)
            out == [Top EXCEPT !.pc = "out", !.sw = x]
            in == [Top EXCEPT !.pc = "in", !.sw = x]
<1>7. SwitchTo(Top, x, q, tk0, g0)
  BY <1>2, <1>6 DEF RunSwitches
<1>8. /\ out \in Switching(active) /\ out.pc = "out" /\ out.sw = x /\ out.k = "Run"
      /\ in \in Switching(active) /\ in.pc = "in" /\ in.sw = x /\ in.k = "Run"
  <2>1. Top \in RunFrames
    BY <1>1, <1>2, InTheMiddle
  <2>. QED
    BY <1>2, <2>1 DEF RunFrames, Switching
<1>9. /\ tk0 \in [Tasklets -> TaskletType] /\ tk0[x] \in TaskletType
      /\ tk0[x].exc = tk[x].exc /\ tk0[x].firstRun = tk[x].firstRun
      /\ \A u \in Tasklets : tk0[u].dir = tk[u].dir
      /\ \A u \in Tasklets \ {x} : tk0[u] = tk[u]
  <2>. DEFINE v == [tk[x] EXCEPT !.parent = Main]
  <2>1. tk \in [Tasklets -> TaskletType] /\ tk[x] \in TaskletType
    BY <1>3 DEF TaskletsFit
  <2>2. v \in TaskletType /\ v.exc = tk[x].exc /\ v.firstRun = tk[x].firstRun /\ v.dir = tk[x].dir
    BY <1>3, <2>1 DEF TaskletType
  <2>3. tk0 = [tk EXCEPT ![x] = v]
    BY DEF Adopted
  <2>. HIDE DEF v, tk0
  <2>. QED
    BY <2>1, <2>2, <2>3
<1>10. /\ GreenletsFit(g0) /\ g0[Main].parent = NULL /\ \A u \in Tasklets : g0[u].state = gl[u].state
  <2>1. Main # NULL
    BY <1>3, NullAssumption
  <2>2. /\ g0 \in [Tasklets -> GreenletType] /\ g0[x].parent = Main /\ g0[x].state = gl[x].state
        /\ \A u \in Tasklets : u # x => g0[u] = gl[u]
    BY <1>3, <2>1 DEF Parented, GreenletsFit, GreenletType
  <2>. HIDE DEF g0
  <2>. QED
    BY <1>3, <2>2 DEF GreenletsFit
<1>. HIDE DEF tk0, g0, out, in
<1>11. ~IsSwitchTrapped /\ tk[x].exc # "Error"
  BY <1>3 DEF IsSwitchTrapped, ManagerFits, TaskletsFit
<1>12. /\ Sound(x) /\ Placed(x) /\ q.reschedule[x] = "NONE" /\ q.scheduled[x]
       /\ active # x /\ ~Leaves(x) /\ gl[x].state # "unborn"
  <2>1. ~Leaves(x)
    BY <1>2 DEF Leaves
  <2>. QED
    BY <1>2, <1>4, <1>6, <2>1 DEF Books, Sound, next
<1>13. \A c \in Channels : B!Waits(x, ch[c]) =>
          /\ Asleep(x, Wait(x, c)) /\ stack[x] # <<>> /\ tk[x].exc # "none"
  <2>1. \A c \in Channels : B!Waits(x, ch[c]) => Asleep(x, Wait(x, c)) /\ Killed(x)
    BY <1>12 DEF Placed, Failed, Unqueued
  <2>2. Killed(x) => tk[x].exc # "none"
    BY <1>12 DEF Killed
  <2>. QED
    BY <2>1, <2>2 DEF Asleep
<1>14. stack[x] # <<>> => AtYield(x, "in") /\ gl[x].state = "started" /\ ~tk[x].firstRun
  <2>1. Suspended
    BY DEF Control
  <2>. QED
    BY <1>2, <1>12, <2>1 DEF Suspended, Sound
<1>15. ASSUME NEW f \in Switching(active), f.k = "Run", f.pc \in {"in", "out"}, f.sw = x,
              stack' = [stack EXCEPT ![active] = <<f>> \o Tail(stack[active])]
       PROVE  /\ stack'[Main] # <<>> /\ Head(stack'[Main]) = f
              /\ \A u \in Tasklets \ {Main} : stack'[u] = stack[u]
              /\ RunsOne' /\ Target' = x
              /\ tk'[Main].dir = tk[Main].dir /\ q'.blockedOn[Main] = q.blockedOn[Main] => Placed(Main)'
  <2>1. Top.k \in {"Run", "Yield"}
    BY <1>1
  <2>2. /\ stack'[active] # <<>> /\ Head(stack'[active]) = f
        /\ Tail(stack'[active]) = Tail(stack[active])
        /\ \A u \in Tasklets \ {active} : stack'[u] = stack[u]
    BY <1>1, <1>5, <1>15, <2>1, TopMoves
  <2>3. RunsOne' /\ Target' = x
    BY <1>2, <1>15, <2>2 DEF RunsOne, AtRun, TopIs, Target
  <2>4. tk'[Main].dir = tk[Main].dir /\ q'.blockedOn[Main] = q.blockedOn[Main] => Placed(Main)'
    BY <1>1, <1>2, <1>15, <2>2, MainSleeps
  <2>. QED
    BY <1>2, <2>2, <2>3, <2>4
<1>16. ASSUME \A u \in Tasklets \ {Main} : stack'[u] = stack[u],
              Placed(Main)', Placed(x)', Sound(x)', Ended', active' \in {Main, x},
              q'.reschedule = q.reschedule, q'.scheduled = q.scheduled, q'.blockedOn = q.blockedOn,
              \A u \in Tasklets : tk'[u].dir = tk[u].dir,
              \A u \in Tasklets \ {Main, x} :
                 tk'[u].firstRun = tk[u].firstRun /\ gl'[u].state = gl[u].state,
              gl'[Main].parent = NULL
       PROVE  KeepsBooks
  <2>1. /\ active \in {Main, x} /\ active' \in {Main, x} /\ (active = Main /\ RunsOne => Target = x)
        /\ ch' = ch /\ q'.blockedOn[Main] = q.blockedOn[Main]
        /\ x \in Tasklets \ {Main} => Placed(x)' /\ Sound(x)'
    BY <1>1, <1>2, <1>16
  <2>2. \A u \in Tasklets \ {Main, x} :
          /\ ~Chosen(u) /\ stack'[u] = stack[u]
          /\ q'.reschedule[u] = q.reschedule[u] /\ (q'.scheduled[u] => q.scheduled[u])
          /\ q'.blockedOn[u] = q.blockedOn[u] \/ q.scheduled[u]
          /\ tk'[u].firstRun = tk[u].firstRun /\ gl'[u].state = gl[u].state
    <3>1. \A u \in Tasklets \ {Main, x} : ~Chosen(u)
      BY <1>6 DEF Chosen
    <3>. QED
      BY <1>16, <3>1
  <2>. QED
    BY <1>16, <2>1, <2>2, LoopMoves
<1>17. ASSUME DiesUnstarted(tk0, x) PROVE KeepsBooks
  <2>. DEFINE s == <<out>> \o Tail(stack[active])
              v == [tk0[x] EXCEPT !.alive = FALSE]
  <2>1. Continue(s, "ok") /\ q' = q /\ tk' = DeadUnstarted(tk0, x) /\ gl' = g0
    BY <1>7, <1>11, <1>17 DEF SwitchTo, out
  <2>2. tk' = [tk0 EXCEPT ![x] = v]
    BY <2>1 DEF DeadUnstarted
  <2>3. v.dir = tk0[x].dir /\ v.firstRun = tk0[x].firstRun
    BY <1>9 DEF TaskletType
  <2>4. s # <<>>
    <3>1. Tail(stack[active]) \in Rests(Channels, active)
      BY <1>1, InTheMiddle
    <3>. QED
      BY <1>8, <3>1, SwitchOnTop
  <2>. HIDE DEF s, v
  <2>5. active' = Main /\ ret' = "ok" /\ stack' = [stack EXCEPT ![active] = s]
    BY <1>2, <2>1, <2>4 DEF Continue
  <2>6. /\ \A u \in Tasklets : tk'[u].dir = tk[u].dir
        /\ \A u \in Tasklets : tk'[u].firstRun = tk[u].firstRun
    BY <1>9, <2>2, <2>3
  <2>7. stack[x] = <<>>
    BY <1>9, <1>14, <1>17 DEF DiesUnstarted
  <2>8. /\ \A u \in Tasklets \ {Main} : stack'[u] = stack[u]
        /\ Placed(Main)' /\ RunsOne' /\ Target' = x
    BY <1>3, <1>8, <1>15, <2>1, <2>5, <2>6 DEF s
  <2>9. Placed(x)'
    BY <1>1, <1>13, <2>7 DEF Placed
  <2>10. Sound(x)'
    BY <1>6, <1>10, <1>12, <2>1, <2>5, <2>6, <2>7, <2>8 DEF Sound
  <2>11. Ended'
    BY <1>2, <1>6, <2>1, <2>5, <2>8 DEF Ended
  <2>. QED
    BY <1>10, <1>16, <2>1, <2>5, <2>6, <2>8, <2>9, <2>10, <2>11
<1>18. ASSUME ~DiesUnstarted(tk0, x) PROVE KeepsBooks
  <2>. DEFINE to == Landing(g0, x)
              s == <<in>> \o Tail(stack[active])
              v == [tk0[x] EXCEPT !.paused = FALSE, !.firstRun = FALSE]
  <2>1. ~(tk0[x].firstRun /\ tk0[x].exc = "Error")
    BY <1>9, <1>11
  <2>2. /\ stack' = [stack EXCEPT ![active] = s]
        /\ active' = to
        /\ ret' = IF g0[to].state = "new" THEN "none" ELSE "ok"
        /\ q' = SetCurrentTasklet(q, x)
        /\ tk' = [tk0 EXCEPT ![x].paused = FALSE, ![x].firstRun = FALSE]
        /\ gl' = [g0 EXCEPT ![to].state = "started"]
    BY <1>7, <1>11, <1>18, <2>1 DEF SwitchTo, in
  <2>3. to = IF gl[x].state = "dead" THEN Main ELSE x
    BY <1>10, LandsOnMain DEF GreenletsFit
  <2>. HIDE DEF to
  <2>4. tk' = [tk0 EXCEPT ![x] = v]
    BY <1>9, <2>2
  <2>5. v.dir = tk0[x].dir /\ ~v.firstRun /\ v.exc = tk0[x].exc
    BY <1>9 DEF TaskletType
  <2>. HIDE DEF s, v
  <2>6. /\ \A u \in Tasklets : tk'[u].dir = tk[u].dir
        /\ \A u \in Tasklets \ {x} : tk'[u].firstRun = tk[u].firstRun
        /\ ~tk'[x].firstRun /\ tk'[x].exc = tk[x].exc
    BY <1>9, <2>4, <2>5
  <2>7. /\ q'.current = x /\ q'.scheduled = q.scheduled
        /\ q'.reschedule = q.reschedule /\ q'.blockedOn = q.blockedOn
    BY <1>3, <2>2, SetsCurrent DEF QueueFits
  <2>8. /\ \A u \in Tasklets \ {Main} : stack'[u] = stack[u]
        /\ Placed(Main)' /\ RunsOne' /\ Target' = x
    BY <1>3, <1>8, <1>15, <2>2, <2>6, <2>7 DEF s
  <2>9. /\ to \in {Main, x} /\ gl'[Main].parent = NULL
        /\ gl'[to].state = "started" /\ \A u \in Tasklets \ {to} : gl'[u].state = gl[u].state
        /\ \A u \in Tasklets \ {Main, x} : gl'[u].state = gl[u].state
    <3>1. to \in {Main, x} /\ to \in Tasklets
      BY <1>3, <2>3
    <3>2. /\ gl'[to].state = "started"
          /\ \A u \in Tasklets : gl'[u].parent = g0[u].parent /\ (u # to => gl'[u] = g0[u])
      BY <1>10, <2>2, <3>1 DEF GreenletsFit, GreenletType
    <3>. QED
      BY <1>3, <1>10, <3>1, <3>2
  <2>10. ASSUME gl[x].state = "dead" PROVE KeepsBooks
    <3>1. active' = Main /\ stack[x] = <<>> /\ gl'[x].state = "dead"
      BY <1>14, <2>2, <2>3, <2>9, <2>10
    <3>2. Placed(x)'
      BY <1>1, <1>13, <3>1 DEF Placed
    <3>3. Sound(x)'
      BY <1>12, <2>7, <2>8, <3>1 DEF Sound
    <3>4. Ended'
      BY <1>12, <2>7, <2>8, <3>1 DEF Ended
    <3>. QED
      BY <1>16, <2>6, <2>7, <2>8, <2>9, <3>1, <3>2, <3>3, <3>4
  <2>11. ASSUME gl[x].state # "dead" PROVE KeepsBooks
    <3>1. active' = x /\ gl'[x].state = "started" /\ to = x
      BY <2>2, <2>3, <2>9, <2>11
    <3>2. stack'[x] = stack[x]
      BY <2>8
    <3>3. stack[x] # <<>> => ret' = "ok"
      <4>1. stack[x] # <<>> => g0[x].state = "started"
        BY <1>10, <1>14
      <4>. QED
        BY <2>2, <3>1, <4>1
    <3>4. \A c \in Channels : B!Waits(x, ch[c]) => Killed(x)'
      <4>1. AtYield(x, "in") => AtYield(x, "in")'
        BY <3>2 DEF AtYield, TopIs
      <4>. QED
        BY <1>13, <1>14, <2>6, <3>1, <4>1 DEF Killed
    <3>5. Placed(x)'
      <4>. SUFFICES ASSUME NEW c \in Channels, B!Waits(x, ch[c])
                    PROVE  Asleep(x, Wait(x, c))' /\ Killed(x)' /\ Unqueued(x)'
        BY <1>1 DEF Placed
      <4>1. Wait(x, c)' = Wait(x, c)
        BY <2>6 DEF Wait
      <4>2. Asleep(x, Wait(x, c))'
        BY <1>13, <3>2, <4>1 DEF Asleep
      <4>3. Unqueued(x)'
        BY <1>12, <2>7, <3>1 DEF Unqueued
      <4>. QED
        BY <3>4, <4>2, <4>3
    <3>6. Sound(x)'
      <4>1. AtYield(x, "in")' \/ AtYield(x, "out")' => ret' # "none"
        BY <3>2, <3>3 DEF AtYield, TopIs
      <4>. QED
        BY <1>12, <2>6, <2>7, <3>1, <4>1 DEF Sound
    <3>7. Ended'
      BY <3>1 DEF Ended
    <3>. QED
      BY <1>16, <2>6, <2>7, <2>8, <2>9, <3>1, <3>5, <3>6, <3>7
  <2>. QED
    BY <2>10, <2>11
<1>. QED
  BY <1>17, <1>18
================================================================================
