-------------------------- MODULE TaskletBooksProofs --------------------------
(***************************************************************************)
(* More proofs about TaskletChannels.  The books of TaskletChannelsProofs  *)
(* are kept; from that follows what the channels promise, who is woken on  *)
(* them, who is marked blocked on them, and what becomes of messages.      *)
(***************************************************************************)
EXTENDS TaskletChannelsProofs

--------------------------------------------------------------------------------
(* Every step. *)

LEMMA StutterKeepsBooks ==
    ASSUME Books, UNCHANGED vars
    PROVE  KeepsBooks
<1>1. [B!Next]_ch
  BY DEF vars
<1>2. B!Kept'
  BY <1>1, B!NextKeeps DEF Books
<1>3. \A t \in Tasklets : Noting(t)' /\ Placed(t)'
  <2>1. \A t, f : /\ Asleep(t, f) => Asleep(t, f)'
                  /\ Failed(t, f) => Failed(t, f)'
    BY DEF vars, Asleep, Failed
  <2>2. \A t, c : Wait(t, c)' = Wait(t, c)
    BY DEF vars, Wait
  <2>3. \A t : Killed(t)' <=> Killed(t)
    BY DEF vars, Killed, Chosen, AtRun, AtYield, TopIs, RunIsOver
  <2>4. \A t : Leaves(t)' <=> Leaves(t)
    BY DEF vars, Leaves, RunsOne, AtRun, AtYield, TopIs, Target
  <2>5. \A t : Unqueued(t) => Unqueued(t)'
    BY <2>3, <2>4 DEF vars, Unqueued
  <2>6. \A t \in Tasklets : Noting(t)'
    BY DEF vars, Books, Noting
  <2>7. \A t \in Tasklets : Placed(t)'
    <3>. SUFFICES ASSUME NEW t \in Tasklets, NEW c \in Channels, B!Waits(t, ch[c])
                  PROVE  /\ \/ Failed(t, Wait(t, c))'
                            \/ /\ Asleep(t, Wait(t, c))'
                               /\ q'.blockedOn[t] = c \/ (t # Main /\ Killed(t)')
                         /\ t # Main => Unqueued(t)'
      BY DEF vars, Placed
    <3>. DEFINE w == Wait(t, c)
    <3>1. w' = w
      BY <2>2
    <3>2. /\ \/ Failed(t, w)
             \/ Asleep(t, w) /\ (q.blockedOn[t] = c \/ (t # Main /\ Killed(t)))
          /\ t # Main => Unqueued(t)
      BY DEF Books, Placed
    <3>. HIDE DEF w
    <3>3. Failed(t, w) => Failed(t, w)'
      BY <3>1 DEF vars, Failed
    <3>4. Asleep(t, w) => Asleep(t, w)'
      BY <3>1 DEF vars, Asleep
    <3>5. q'.blockedOn = q.blockedOn
      BY DEF vars
    <3>6. /\ \/ Failed(t, w)'
             \/ /\ Asleep(t, w)'
                /\ q'.blockedOn[t] = c \/ (t # Main /\ Killed(t)')
          /\ t # Main => Unqueued(t)'
      BY <2>3, <2>5, <3>2, <3>3, <3>4, <3>5
    <3>. QED
      BY <3>6 DEF w
  <2>. QED
    BY <2>6, <2>7
<1>4. \A t \in Tasklets \ {Main} : Sound(t)'
  <2>1. \A t : Leaves(t)' <=> Leaves(t)
    BY DEF vars, Leaves, RunsOne, AtRun, AtYield, TopIs, Target
  <2>. QED
    BY <2>1 DEF vars, Books, Sound, AtYield, TopIs
<1>5. MainSound' /\ Ended'
  BY DEF vars, Books, MainSound, Listed, Ended, RunsOne, AtRun, TopIs, Target
<1>. QED
  BY <1>1, <1>2, <1>3, <1>4, <1>5 DEF Books, KeepsBooks

LEMMA PythonKeepsBooks ==
    ASSUME Control(Channels), OwnFrames, Gentle, Books, Python
    PROVE  KeepsBooks
<1>0. Flat /\ NoThrow /\ NoTrap
  BY DEF Gentle
<1>1. ASSUME NEW t \in Tasklets,
             \/ Run(t) \/ Setup(t) \/ Bind(t) \/ Unbind(t) \/ Insert(t) \/ Remove(t) \/ Switch(t)
             \/ \E pending \in BOOLEAN : Kill(t, pending) \/ Throw(t, pending)
      PROVE  KeepsBooks
  <2>1. ~Switch(t)
    BY <1>0, CallIsMade, FlatCalls DEF Switch
  <2>2. \A pending \in BOOLEAN : ~Throw(t, pending)
    BY <1>0, CallIsMade, FlatCalls DEF Throw
  <2>. QED
    BY <1>0, <1>1, <2>1, <2>2, RunKeepsBooks, BindsKeepBooks, InsertKeepsBooks, RemoveKeepsBooks,
       KillsKeepBooks
<1>2. ASSUME Finish \/ Raise \/ Propagate \/ Swallow PROVE KeepsBooks
  <2>1. stack[active] = <<>> /\ \E r \in Outcomes : Dies(r)
    BY <1>2, RetIsAnOutcome, SimpleOutcomes
       DEF Finish, Raise, Propagate, Swallow, Calls, Running, Raising, InPython
  <2>. QED
    BY <2>1, DiesKeepsBooks
<1>3. ASSUME \/ RunScheduler \/ (\E n \in 1..MaxLimit : RunNTasklets(n)) \/ RunTaskletsForTime
             \/ \E delta \in {-1, 1} : SwitchTrap(delta)
             \/ Catch
      PROVE  KeepsBooks
  BY <1>0, <1>3, AnswersKeepBooks
<1>. QED
  BY <1>1, <1>2, <1>3, ScheduleKeepsBooks DEF Python

LEMMA SchedulerKeepsBooks ==
    ASSUME Control(Channels), OwnFrames, Gentle, Books, Scheduler
    PROVE  KeepsBooks
<1>1. Flat /\ NoThrow /\ NoTrap
  BY DEF Gentle
<1>. QED
  BY <1>1, LoopSwitchKeepsBooks, YieldSwitchKeepsBooks, RunEndsKeepsBooks, RunSwitchesKeepsBooks,
     RunContinuesKeepsBooks, RunFailsKeepsBooks, YieldSwitchesKeepsBooks, YieldReturnsKeepsBooks,
     YieldMainReturnsKeepsBooks, SwitchIsNotCalled, KillReturnsKeepsBooks, ClearsKeepBooks
     DEF Scheduler

LEMMA ChannelNextKeepsBooks ==
    ASSUME Control(Channels), OwnFrames, Gentle, Books, [ChannelNext]_vars
    PROVE  Books' /\ [B!Next]_ch
<1>1. Flat
  BY DEF Gentle
<1>2. ASSUME [Next]_vars PROVE KeepsBooks
  BY <1>2, PythonKeepsBooks, SchedulerKeepsBooks, StutterKeepsBooks DEF Next, MainIdle
<1>3. ASSUME ChannelCalls PROVE KeepsBooks
  BY <1>1, <1>3, SendKeepsBooks, ReceiveKeepsBooks, ClearCallsKeepBooks, SettersKeepBooks
     DEF ChannelCalls
<1>4. ASSUME ChannelSteps PROVE KeepsBooks
  BY <1>1, <1>4, RestsKeepBooks, KillsKeepBooks, ClearsKeepBooks DEF ChannelSteps
<1>. QED
  BY <1>2, <1>3, <1>4 DEF ChannelNext, KeepsBooks

LEMMA InitBooks ==
    ASSUME Init
    PROVE  B!Init /\ Books
<1>1. B!Init
  BY DEF Init, B!Init, B!InitChannel, InitChannel
<1>2. B!Kept
  BY <1>1, B!InitKeeps
<1>3. \A c \in Channels : \A t : ~B!In(t, ch[c].send) /\ ~B!In(t, ch[c].recv)
  BY DEF Init, InitChannel, B!In
<1>4. \A t \in Tasklets : Noting(t) /\ Placed(t)
  BY <1>3 DEF Init, Noting, Placed, B!Waits
<1>5. /\ active = Main /\ Main \in Tasklets /\ \A t \in Tasklets : stack[t] = <<>>
      /\ q.reschedule = [t \in Tasklets |-> "NONE"] /\ q.scheduled = [t \in Tasklets |-> t = Main]
      /\ q.blockedOn = [t \in Tasklets |-> NULL]
  BY MainAssumption DEF Init, InitQueue
<1>6. \A t \in Tasklets \ {Main} : Sound(t)
  BY <1>5 DEF Init, Sound
<1>7. MainSound
  BY <1>5 DEF Init, MainSound
<1>8. Ended
  BY <1>5 DEF Ended, RunsOne, AtRun, TopIs
<1>. QED
  BY <1>1, <1>2, <1>4, <1>6, <1>7, <1>8 DEF Books

LEMMA BooksKept ==
    ASSUME Gentle
    PROVE  ChannelSpec => [](Control(Channels) /\ OwnFrames /\ Books)
<1>. DEFINE I == Control(Channels) /\ OwnFrames
<1>1. Flat /\ NoThrow
  BY DEF Gentle
<1>2. ChannelSpec => []I
  BY <1>1, AlwaysOwned
<1>3. Init => Books
  BY InitBooks
<1>4. I /\ Books /\ [ChannelNext]_vars => Books'
  BY ChannelNextKeepsBooks
<1>. QED
  BY <1>2, <1>3, <1>4, PTL DEF ChannelSpec

(* Whatever runs are suspended half way through Send and Receive, and       *)
(* whoever is killed or fails meanwhile, the channels change only by steps  *)
(* of ChannelBook.                                                          *)
THEOREM ChannelBookKept ==
    ASSUME Gentle
    PROVE  ChannelSpec => BookSpec
<1>. DEFINE I == Control(Channels) /\ OwnFrames /\ Books
<1>1. Init => Book!Init
  BY InitBooks, SameBook
<1>2. I /\ [ChannelNext]_vars => [Book!Next]_ch
  BY ChannelNextKeepsBooks, SameBook
<1>. QED
  BY <1>1, <1>2, BooksKept, PTL DEF ChannelSpec, BookSpec, Book!Spec

(* The balance, which the code counts by the direction that tasklets note   *)
(* on themselves, is the number of waiting senders or minus that of waiting *)
(* receivers, though the two are written at different times and by others.  *)
THEOREM ChannelBalance ==
    ASSUME Gentle
    PROVE  ChannelSpec => []BalanceOK
<1>1. Books => BalanceOK
  BY SameBook DEF Books, BalanceOK, B!Kept
<1>. QED
  BY <1>1, BooksKept, PTL

--------------------------------------------------------------------------------
(* Where the sends and receives that are under way are on the stacks.       *)

(* A send or receive under way is the first call of its tasklet. *)
Lone(s) == \A i \in DOMAIN s : s[i].k \in ChannelRests => i = Len(s)

Waitless(s) == \A i \in DOMAIN s : s[i].k \notin ChannelRests

(* z comes of s by calls and returns that are no send or receive. *)
NoNewWait(s, z) ==
    /\ Lone(s) => Lone(z)
    /\ \A k \in ChannelRests : Has(z, k) => Has(s, k)

LEMMA WaitlessParts ==
    ASSUME NEW S, NEW T, NEW s \in Seq(S), NEW z \in Seq(T)
    PROVE  /\ Waitless(<<>>) /\ \A f : f.k \notin ChannelRests => Waitless(<<f>>)
           /\ Waitless(s) /\ Waitless(z) => Waitless(s \o z)
           /\ NoNewWait(s, s)
           /\ Waitless(s) => NoNewWait(z, s \o z)
           /\ s # <<>> => NoNewWait(s, Tail(s))
<1>1. Waitless(<<>>) /\ \A f : f.k \notin ChannelRests => Waitless(<<f>>)
  BY DEF Waitless
<1>2. /\ Len(s) \in Nat /\ Len(z) \in Nat /\ DOMAIN s = 1..Len(s) /\ DOMAIN z = 1..Len(z)
      /\ Len(s \o z) = Len(s) + Len(z) /\ DOMAIN (s \o z) = 1..(Len(s) + Len(z))
      /\ \A i \in 1..(Len(s) + Len(z)) :
            (s \o z)[i] = IF i <= Len(s) THEN s[i] ELSE z[i - Len(s)]
  OBVIOUS
<1>3. Waitless(s) /\ Waitless(z) => Waitless(s \o z)
  BY <1>2 DEF Waitless
<1>4. ASSUME Waitless(s) PROVE NoNewWait(z, s \o z)
  <2>1. ASSUME Lone(z) PROVE Lone(s \o z)
    <3>1. ASSUME NEW i \in DOMAIN (s \o z), (s \o z)[i].k \in ChannelRests
          PROVE  i = Len(s \o z)
      <4>1. i \in 1..(Len(s) + Len(z)) /\ ~(i <= Len(s))
        BY <1>2, <1>4, <3>1 DEF Waitless
      <4>. DEFINE j == i - Len(s)
      <4>2. j \in DOMAIN z /\ z[j].k \in ChannelRests
        BY <1>2, <3>1, <4>1
      <4>3. j = Len(z)
        BY <2>1, <4>2 DEF Lone
      <4>. QED
        BY <1>2, <4>1, <4>3
    <3>. QED
      BY <3>1 DEF Lone
  <2>2. ASSUME NEW k \in ChannelRests, Has(s \o z, k) PROVE Has(z, k)
    BY <1>2, <1>4, <2>2 DEF Waitless, Has
  <2>. QED
    BY <2>1, <2>2 DEF NoNewWait
<1>5. ASSUME s # <<>> PROVE NoNewWait(s, Tail(s))
  <2>1. /\ Len(s) \in Nat \ {0} /\ Len(Tail(s)) = Len(s) - 1 /\ DOMAIN Tail(s) = 1..(Len(s) - 1)
        /\ \A i \in 1..(Len(s) - 1) : Tail(s)[i] = s[i + 1]
    BY <1>5
  <2>2. ASSUME Lone(s) PROVE Lone(Tail(s))
    BY <1>2, <2>1, <2>2 DEF Lone
  <2>3. ASSUME NEW k, Has(Tail(s), k) PROVE Has(s, k)
    BY <1>2, <2>1, <2>3 DEF Has
  <2>. QED
    BY <2>2, <2>3 DEF NoNewWait
<1>6. NoNewWait(s, s)
  BY DEF NoNewWait
<1>. QED
  BY <1>1, <1>3, <1>4, <1>5, <1>6

(* Another frame on top, that does not wait. *)
LEMMA NewTopWaitless ==
    ASSUME NEW S, NEW s \in Seq(S), s # <<>>, NEW f, f.k \notin ChannelRests
    PROVE  NoNewWait(s, <<f>> \o Tail(s))
<1>1. Tail(s) \in Seq(S) /\ <<f>> \in Seq({f}) /\ Waitless(<<f>>)
  BY WaitlessParts
<1>2. NoNewWait(s, Tail(s)) /\ NoNewWait(Tail(s), <<f>> \o Tail(s))
  BY <1>1, WaitlessParts
<1>. QED
  BY <1>2 DEF NoNewWait

(* What is under a frame that waits: nothing. *)
LEMMA WaitIsLast ==
    ASSUME NEW S, NEW s \in Seq(S), s # <<>>, Lone(s), Head(s).k \in ChannelRests
    PROVE  Tail(s) = <<>>
<1>1. Len(s) \in Nat \ {0} /\ Head(s) = s[1] /\ 1 \in DOMAIN s
  OBVIOUS
<1>2. Len(s) = 1
  BY <1>1 DEF Lone
<1>3. Tail(s) \in Seq(S) /\ Len(Tail(s)) = 0
  BY <1>2
<1>4. \A z \in Seq(S) : Len(z) = 0 => z = <<>>
  OBVIOUS
<1>. QED
  BY <1>3, <1>4

(* f and what is put on top of it. *)
LEMMA OneWait ==
    ASSUME NEW S, NEW s \in Seq(S), Waitless(s), NEW f
    PROVE  Lone(s \o <<f>>) /\ \A k \in ChannelRests : Has(s \o <<f>>, k) => f.k = k
<1>1. /\ <<f>> \in Seq({f}) /\ Lone(<<f>>)
      /\ \A k : Has(<<f>>, k) => f.k = k
  BY DEF Lone, Has
<1>2. NoNewWait(<<f>>, s \o <<f>>)
  BY <1>1, WaitlessParts
<1>. QED
  BY <1>1, <1>2 DEF NoNewWait

(* Whoever sleeps over f, or is back at it, has no other wait. *)
LEMMA OneWaitSleeps ==
    ASSUME NEW S, NEW s \in Seq(S), NEW f, NEW g, g.k \notin ChannelRests,
           \/ s = <<f>> \/ s = <<g, f>>
           \/ /\ s # <<>> /\ Head(s).k \notin ChannelRests
              /\ Tail(s) = <<f>> \/ Tail(s) = <<g, f>>
    PROVE  \A k \in ChannelRests : Has(s, k) => f.k = k
<1>1. \A k : Has(<<f>>, k) => f.k = k
  BY DEF Has
<1>2. \A k \in ChannelRests : Has(<<g, f>>, k) => f.k = k
  BY DEF Has
<1>3. s # <<>> => \A k : Has(s, k) <=> Head(s).k = k \/ Has(Tail(s), k)
  BY TopAndTail
<1>. QED
  BY <1>1, <1>2, <1>3

(* No step puts a send or receive on a stack but that call itself.          *)
NoNewWaits == \A t \in Tasklets : NoNewWait(stack[t], stack'[t])

LEMMA OneStackWaitless ==
    ASSUME Control(Channels), NEW s, stack' = [stack EXCEPT ![active] = s],
           NoNewWait(stack[active], s)
    PROVE  NoNewWaits
<1>1. /\ active \in Tasklets
      /\ stack'[active] = s /\ \A t \in Tasklets \ {active} : stack'[t] = stack[t]
  BY DEF Control, Types, Stacks
<1>2. \A t : NoNewWait(stack[t], stack[t])
  BY DEF NoNewWait
<1>. QED
  BY <1>1, <1>2 DEF NoNewWaits

LEMMA SameStacksWaitless ==
    ASSUME stack' = stack
    PROVE  NoNewWaits
BY DEF NoNewWaits, NoNewWait

LEMMA CallsWaitless ==
    ASSUME Control(Channels), NEW S, NEW fs \in Seq(S), Waitless(fs), NEW r,
           Continue(fs \o stack[active], r)
    PROVE  NoNewWaits
<1>. DEFINE T == Switching(active) \cup PlainFrames(Channels) \cup LimitedFrames
<1>1. stack[active] \in Seq(T)
  BY StackIsASequence DEF Control, Types
<1>. HIDE DEF T
<1>2. NoNewWait(stack[active], fs \o stack[active])
  BY <1>1, WaitlessParts
<1>. QED
  BY <1>2, OneStackWaitless DEF Continue

LEMMA AnswersWaitless ==
    ASSUME Control(Channels), NEW r, Answer(<<>>, r)
    PROVE  NoNewWaits
<1>1. <<>> \in Seq({}) /\ Waitless(<<>>)
  BY DEF Waitless
<1>. QED
  BY <1>1, CallsWaitless DEF Answer

LEMMA ReturnsWaitless ==
    ASSUME Control(Channels), stack[active] # <<>>,
           \/ \E r : Return(r)
           \/ \E f : f.k \notin ChannelRests /\ TopBecomes(f)
    PROVE  NoNewWaits
<1>. DEFINE T == Switching(active) \cup PlainFrames(Channels) \cup LimitedFrames
<1>1. stack[active] \in Seq(T)
  BY StackIsASequence DEF Control, Types
<1>. HIDE DEF T
<1>2. NoNewWait(stack[active], Tail(stack[active]))
  BY <1>1, WaitlessParts
<1>3. ASSUME NEW f, f.k \notin ChannelRests, TopBecomes(f) PROVE NoNewWaits
  <2>1. NoNewWait(stack[active], <<f>> \o Tail(stack[active]))
    BY <1>1, <1>3, NewTopWaitless
  <2>. QED
    BY <1>3, <2>1, OneStackWaitless DEF TopBecomes
<1>4. ASSUME NEW r, Return(r) PROVE NoNewWaits
  BY <1>2, <1>4, OneStackWaitless DEF Return, Continue
<1>. QED
  BY <1>3, <1>4

LEMMA FramesWaitless ==
    /\ \A b, e, u : RunFrame(b, e, u).k \notin ChannelRests
    /\ \A t : YieldFrame(t).k \notin ChannelRests
    /\ \A t, c : RestoreBlocked(t, c).k \notin ChannelRests
    /\ \A k \in {"Yield.main", "RunNTasklets", "RunTaskletsForTime"} : \A t : Then(k, t).k \notin ChannelRests
    /\ \A todo : ClearFrame(todo).k \notin ChannelRests
BY DEF RunFrame, YieldFrame, RestoreBlocked, Then, ClearFrame, ChannelRests

(* A frame, or two, that do not wait. *)
LEMMA FewWaitless ==
    ASSUME NEW f, f.k \notin ChannelRests, NEW g, g.k \notin ChannelRests
    PROVE  /\ <<f>> \in Seq({f}) /\ Waitless(<<f>>)
           /\ <<f, g>> \in Seq({f, g}) /\ Waitless(<<f, g>>)
BY DEF Waitless

(* What Yield puts on top of what its caller has left to do. *)
LEMMA YieldPushes ==
    ASSUME Control(Channels), NEW S, NEW conts \in Seq(S), NEW q0, NEW tk0, Yield(q0, tk0, conts)
    PROVE  \E T : \E s \in Seq(T) : \E r : Waitless(s) /\ Continue((s \o conts) \o stack[active], r)
<1>. DEFINE f == YieldFrame(q0.current)
            g == RunFrame(Main, NULL, IsBlocked(q0, Main))
            h == Then("Yield.main", Main)
            wait == IF IsBlocked(q0, Main) THEN <<h>> ELSE <<>>
<1>1. \/ Push(<<f>> \o conts) \/ Answer(conts, "Error") \/ Push((<<g>> \o wait) \o conts)
  BY DEF Yield
<1>2. f.k \notin ChannelRests /\ g.k \notin ChannelRests /\ h.k \notin ChannelRests
  BY FramesWaitless
<1>. HIDE DEF f, g, h
<1>3. /\ <<f>> \in Seq({f}) /\ Waitless(<<f>>) /\ <<g>> \in Seq({g}) /\ Waitless(<<g>>)
      /\ <<h>> \in Seq({h}) /\ Waitless(<<h>>) /\ <<>> \in Seq({h}) /\ Waitless(<<>>)
  BY <1>2, FewWaitless DEF Waitless
<1>4. wait \in Seq({h}) /\ Waitless(wait)
  BY <1>3
<1>. HIDE DEF wait
<1>5. <<g>> \o wait \in Seq({g} \cup {h}) /\ Waitless(<<g>> \o wait)
  <2>1. \A A, C : \A a \in Seq(A), c \in Seq(C) : a \o c \in Seq(A \cup C)
    OBVIOUS
  <2>. QED
    BY <1>3, <1>4, <2>1, WaitlessParts
<1>6. <<>> \o conts = conts
  BY ConcatEmptySeq
<1>7. \/ Continue((<<f>> \o conts) \o stack[active], "none")
      \/ Continue((<<>> \o conts) \o stack[active], "Error")
      \/ Continue(((<<g>> \o wait) \o conts) \o stack[active], "none")
  BY <1>1, <1>6 DEF Push, Answer
<1>. QED
  BY <1>3, <1>5, <1>7

LEMMA YieldWaitless ==
    ASSUME Control(Channels), NEW S, NEW conts \in Seq(S), Waitless(conts),
           NEW q0, NEW tk0, Yield(q0, tk0, conts)
    PROVE  NoNewWaits
<1>1. PICK T : \E s \in Seq(T) : \E r : Waitless(s) /\ Continue((s \o conts) \o stack[active], r)
  BY YieldPushes
<1>2. PICK s \in Seq(T) : \E r : Waitless(s) /\ Continue((s \o conts) \o stack[active], r)
  BY <1>1
<1>3. s \o conts \in Seq(T \cup S) /\ Waitless(s \o conts)
  <2>1. \A A, C : \A a \in Seq(A), c \in Seq(C) : a \o c \in Seq(A \cup C)
    OBVIOUS
  <2>. QED
    BY <1>2, <2>1, WaitlessParts
<1>. QED
  BY <1>2, <1>3, CallsWaitless

(* A send or receive that gives control away is all its tasklet has to do. *)
LEMMA TransferIsAlone ==
    ASSUME Control(Channels), stack[active] = <<>>, NEW f, NEW q0, NEW tk0, Yield(q0, tk0, <<f>>)
    PROVE  /\ Lone(stack'[active]) /\ \A k \in ChannelRests : Has(stack'[active], k) => f.k = k
           /\ \A t \in Tasklets \ {active} : stack'[t] = stack[t]
<1>1. <<f>> \in Seq({f})
  OBVIOUS
<1>2. PICK T : \E s \in Seq(T) : \E r : Waitless(s) /\ Continue((s \o <<f>>) \o stack[active], r)
  BY <1>1, YieldPushes
<1>3. PICK s \in Seq(T) : \E r : Waitless(s) /\ Continue((s \o <<f>>) \o stack[active], r)
  BY <1>2
<1>4. (s \o <<f>>) \o <<>> = s \o <<f>>
  <2>1. s \o <<f>> \in Seq(T \cup {f})
    OBVIOUS
  <2>. QED
    BY <2>1, ConcatEmptySeq
<1>5. stack' = [stack EXCEPT ![active] = s \o <<f>>]
  BY <1>3, <1>4 DEF Continue
<1>6. /\ active \in Tasklets
      /\ stack'[active] = s \o <<f>> /\ \A t \in Tasklets \ {active} : stack'[t] = stack[t]
  BY <1>5 DEF Control, Types, Stacks
<1>. QED
  BY <1>3, <1>6, OneWait

LEMMA RunTaskletWaitless ==
    ASSUME Control(Channels), ~Nested, NEW S, NEW conts \in Seq(S), Waitless(conts),
           NEW q0, NEW tk0, NEW t, RunTasklet(t, q0, tk0, conts)
    PROVE  NoNewWaits
BY YieldWaitless, CallsWaitless DEF RunTasklet, Answer

LEMMA KillTaskletWaitless ==
    ASSUME Control(Channels), ~Nested, NEW t, NEW pending, KillTasklet(t, pending, <<>>)
    PROVE  NoNewWaits
<1>. DEFINE c == q.blockedOn[t]
            f == RestoreBlocked(t, c)
<1>1. \/ \E r : Answer(<<>>, r)
      \/ \E q0, tk0 : RunTasklet(t, q0, tk0, <<f>> \o <<>>)
  BY DEF KillTasklet
<1>2. f.k \notin ChannelRests
  BY FramesWaitless
<1>. HIDE DEF f
<1>3. <<f>> \in Seq({f}) /\ Waitless(<<f>>)
  BY <1>2, FewWaitless
<1>4. <<f>> \o <<>> = <<f>>
  BY <1>3, ConcatEmptySeq
<1>. QED
  BY <1>1, <1>3, <1>4, AnswersWaitless, RunTaskletWaitless

LEMMA PythonWaitless ==
    ASSUME Control(Channels), Flat, NoThrow, Python
    PROVE  NoNewWaits
<1>1. ~Nested
  BY DEF Flat
<1>2. <<>> \in Seq({}) /\ Waitless(<<>>)
  BY DEF Waitless
<1>3. ASSUME Schedule \/ ScheduleRemove PROVE NoNewWaits
  <2>1. \E q0, tk0 : Yield(q0, tk0, <<>>)
    BY <1>3 DEF Schedule, ScheduleRemove
  <2>. QED
    BY <1>2, <2>1, YieldWaitless
<1>4. ASSUME NEW t \in Tasklets, Run(t) PROVE NoNewWaits
  <2>1. RunTasklet(t, q, tk, <<>>)
    BY <1>4 DEF Run
  <2>. QED
    BY <1>1, <1>2, <2>1, RunTaskletWaitless
<1>5. ASSUME NEW t \in Tasklets, Setup(t) \/ Bind(t) \/ Unbind(t) \/ Insert(t) \/ Remove(t)
      PROVE  NoNewWaits
  <2>1. \E r : Answer(<<>>, r)
    BY <1>5 DEF Setup, Bind, Unbind, Insert, Remove
  <2>. QED
    BY <2>1, AnswersWaitless
<1>6. ASSUME NEW t \in Tasklets, Switch(t) PROVE FALSE
  BY <1>6, CallIsMade, FlatCalls DEF Switch
<1>7. ASSUME NEW t \in Tasklets, NEW pending \in BOOLEAN, Kill(t, pending) PROVE NoNewWaits
  BY <1>1, <1>7, KillTaskletWaitless DEF Kill
<1>8. ASSUME NEW t \in Tasklets, NEW pending \in BOOLEAN, Throw(t, pending) PROVE FALSE
  <2>1. \E op \in {"throw", "throw_queued", "throw_pending"} : Calls(op)
    BY <1>8 DEF Throw
  <2>. QED
    BY <2>1, CallIsMade, FlatCalls
<1>9. ASSUME RunScheduler \/ (\E n \in 1..MaxLimit : RunNTasklets(n)) \/ RunTaskletsForTime
      PROVE  NoNewWaits
  <2>. DEFINE f == RunFrame(q.current, NULL, FALSE)
  <2>1. Push(<<f>>) \/ \E k \in {"RunNTasklets", "RunTaskletsForTime"} : Push(<<f, Then(k, NULL)>>)
    BY <1>9 DEF RunScheduler, RunNTasklets, RunTaskletsForTime
  <2>2. f.k \notin ChannelRests
    BY FramesWaitless
  <2>. HIDE DEF f
  <2>3. <<f>> \in Seq({f}) /\ Waitless(<<f>>)
    BY <2>2, FewWaitless
  <2>4. ASSUME NEW k \in {"RunNTasklets", "RunTaskletsForTime"}
        PROVE  <<f, Then(k, NULL)>> \in Seq({f, Then(k, NULL)}) /\ Waitless(<<f, Then(k, NULL)>>)
    <3>. DEFINE g == Then(k, NULL)
    <3>1. g.k \notin ChannelRests
      BY FramesWaitless
    <3>. HIDE DEF g
    <3>2. <<f, g>> \in Seq({f, g}) /\ Waitless(<<f, g>>)
      BY <2>2, <3>1, FewWaitless
    <3>. QED
      BY <3>2 DEF g
  <2>. QED
    BY <2>1, <2>3, <2>4, CallsWaitless DEF Push
<1>10. ASSUME (\E delta \in {-1, 1} : SwitchTrap(delta)) \/ Catch PROVE NoNewWaits
  BY <1>10, AnswersWaitless DEF SwitchTrap, Catch
<1>11. ASSUME Finish \/ Raise \/ Propagate \/ Swallow PROVE NoNewWaits
  BY <1>11, SameStacksWaitless DEF Finish, Raise, Propagate, Swallow, Dies
<1>. QED
  BY <1>3, <1>4, <1>5, <1>6, <1>7, <1>8, <1>9, <1>10, <1>11 DEF Python

LEMMA SchedulerWaitless ==
    ASSUME Control(Channels), Scheduler
    PROVE  NoNewWaits
<1>1. ASSUME RunSwitches \/ YieldSwitches \/ YieldStaysBlocked \/ SwitchReturns \/ RunContinues
      PROVE  NoNewWaits
  <2>1. /\ stack[active] # <<>>
        /\ stack' = stack \/ \E f : f.k \in {"Run", "Yield"} /\ TopBecomes(f)
    BY <1>1, SwitchesMoveTheTop
  <2>2. \A f : f.k \in {"Run", "Yield"} => f.k \notin ChannelRests
    BY DEF ChannelRests
  <2>. QED
    BY <2>1, <2>2, SameStacksWaitless, ReturnsWaitless
<1>2. ASSUME \/ RunEnds \/ RunCannotAdopt \/ RunFails \/ YieldReturns \/ YieldMainReturns
             \/ KillReturns \/ LimitedRunReturns
      PROVE  NoNewWaits
  <2>1. stack[active] # <<>> /\ \E r : Return(r)
    BY <1>2 DEF RunEnds, RunCannotAdopt, RunFails, YieldReturns, YieldMainReturns, KillReturns,
                LimitedRunReturns, AtFrame, AtThen
  <2>. QED
    BY <2>1, ReturnsWaitless
<1>. QED
  BY <1>1, <1>2, SwitchIsNotCalled DEF Scheduler

LEMMA ChannelCallsWaitless ==
    ASSUME Control(Channels),
           \/ (\E c \in Channels : Clear(c)) \/ UnblockAllActiveChannels
           \/ \E c \in Channels : Close(c) \/ Open(c) \/ \E p \in Direction : SetPreference(c, p)
           \/ \E value \in BOOLEAN : SetBlocktrap(value)
    PROVE  NoNewWaits
<1>1. ASSUME (\E c \in Channels : Clear(c)) \/ UnblockAllActiveChannels
      PROVE  NoNewWaits
  <2>1. (\E r : Answer(<<>>, r)) \/ \E todo : Push(<<ClearFrame(todo)>>)
    BY <1>1 DEF Clear, UnblockAllActiveChannels
  <2>2. ASSUME NEW todo, Push(<<ClearFrame(todo)>>) PROVE NoNewWaits
    <3>. DEFINE f == ClearFrame(todo)
    <3>1. f.k \notin ChannelRests
      BY FramesWaitless
    <3>2. Push(<<f>>)
      BY <2>2
    <3>. HIDE DEF f
    <3>3. <<f>> \in Seq({f}) /\ Waitless(<<f>>)
      BY <3>1, FewWaitless
    <3>. QED
      BY <3>2, <3>3, CallsWaitless DEF Push
  <2>. QED
    BY <2>1, <2>2, AnswersWaitless
<1>2. ASSUME \/ \E c \in Channels : Close(c) \/ Open(c) \/ \E p \in Direction : SetPreference(c, p)
             \/ \E value \in BOOLEAN : SetBlocktrap(value)
      PROVE  NoNewWaits
  BY <1>2, AnswersWaitless DEF Close, Open, SetPreference, SetBlocktrap
<1>. QED
  BY <1>1, <1>2

LEMMA ChannelStepsWaitless ==
    ASSUME Control(Channels), OwnFrames, Flat, ChannelSteps
    PROVE  NoNewWaits
<1>1. ASSUME SendReturns \/ SendDeliveredReturns \/ ReceiveReturns \/ ReceiveTakenReturns \/ ClearEnds
      PROVE  NoNewWaits
  <2>1. stack[active] # <<>> /\ \E r : Return(r)
    BY <1>1 DEF SendReturns, SendDeliveredReturns, ReceiveReturns, ReceiveTakenReturns, ClearEnds,
                AtThen, AtClear
  <2>. QED
    BY <2>1, ReturnsWaitless
<1>2. ASSUME ClearKills PROVE NoNewWaits
  BY <1>2, KillTaskletWaitless DEF ClearKills, Flat
<1>3. ASSUME ClearGoesOn \/ ClearTurns PROVE NoNewWaits
  <2>1. stack[active] # <<>> /\ Top \in ClearFrames
    BY <1>3, ClearedByMain DEF OwnFrames, ClearGoesOn, ClearTurns, AtClear, ClearFrames
  <2>. DEFINE went == [Top EXCEPT !.failed = @ \/ ret # "ok"]
              turned == [Top EXCEPT !.todo = IF Top.senders THEN Tail(@) ELSE @, !.senders = ~@]
  <2>2. TopBecomes(went) \/ TopBecomes(turned)
    BY <1>3 DEF ClearGoesOn, ClearTurns, Continue, TopBecomes
  <2>3. went.k \notin ChannelRests /\ turned.k \notin ChannelRests
    BY <2>1 DEF ClearFrames, ChannelRests
  <2>. HIDE DEF went, turned
  <2>. QED
    BY <2>1, <2>2, <2>3, ReturnsWaitless
<1>. QED
  BY <1>1, <1>2, <1>3 DEF ChannelSteps

--------------------------------------------------------------------------------
(* Who has met a partner. *)

(* An exception is being raised in t. *)
Failing(t) == t # Main /\ active = t /\ ret \in Errors /\ ~AtYield(t, "head")

(* What t waits for ends with an exception. *)
Exits(t) == (t # Main /\ tk[t].exc # "none") \/ Failing(t)

(* Whoever has been taken off a channel without an exception has given its  *)
(* message away, or been given one.                                         *)
Met(t) ==
    /\ Has(stack[t], "Send") => tk[t].dir # "NEITHER" \/ Exits(t) \/ tk[t].args = NULL
    /\ Has(stack[t], "Receive") => tk[t].dir # "NEITHER" \/ Exits(t) \/ tk[t].args # NULL

(* An exception that waits for the running tasklet is about to be raised. *)
Taking == tk[active].exc # "none" => AtYield(active, "in")

Meets ==
    /\ \A t \in Tasklets : Lone(stack[t]) /\ Met(t)
    /\ Taking

(* Nothing is told t. *)
Untold(t) ==
    /\ tk'[t].dir = tk[t].dir /\ tk'[t].args = tk[t].args
    /\ tk[t].exc # "none" => tk'[t].exc # "none"

LEMMA UntoldMeets ==
    ASSUME NEW t, Met(t), NoNewWait(stack[t], stack'[t]),
           Waitless(stack[t]) \/ (Untold(t) /\ (Failing(t) => Failing(t)'))
    PROVE  Met(t)'
<1>1. /\ Has(stack'[t], "Send") => Has(stack[t], "Send")
      /\ Has(stack'[t], "Receive") => Has(stack[t], "Receive")
  BY DEF NoNewWait, ChannelRests
<1>2. CASE Waitless(stack[t])
  <2>1. ~Has(stack[t], "Send") /\ ~Has(stack[t], "Receive")
    BY <1>2 DEF Waitless, Has, ChannelRests
  <2>. QED
    BY <1>1, <2>1 DEF Met
<1>3. CASE Untold(t) /\ (Failing(t) => Failing(t)')
  <2>1. Exits(t) => Exits(t)'
    BY <1>3 DEF Exits, Untold
  <2>. QED
    BY <1>1, <1>3, <2>1 DEF Met, Untold
<1>. QED
  BY <1>2, <1>3

LEMMA MeetsKept ==
    ASSUME Meets, NoNewWaits, Taking',
           \A t \in Tasklets : Met(t)' \/ Waitless(stack[t]) \/ (Untold(t) /\ (Failing(t) => Failing(t)'))
    PROVE  Meets'
<1>1. ASSUME NEW t \in Tasklets PROVE Lone(stack'[t]) /\ Met(t)'
  BY <1>1, UntoldMeets DEF Meets, NoNewWaits, NoNewWait
<1>. QED
  BY <1>1 DEF Meets

(* A call is made, or goes on, and stays on its greenlet. *)
LEMMA CallsMeet ==
    ASSUME Control(Channels), Meets, NoNewWaits, stack[active] \in Rests(Channels, active),
           active' = active, tk'[active].exc \in {tk[active].exc, "none"},
           \A t \in Tasklets : \/ Met(t)'
                               \/ Waitless(stack[t])
                               \/ Untold(t) /\ (t = active => t = Main)
    PROVE  Meets'
<1>1. active \in Tasklets /\ ~AtYield(active, "in")
  BY NotSwitching DEF Control, Types, AtYield
<1>2. tk[active].exc = "none"
  BY <1>1 DEF Meets, Taking
<1>3. Taking'
  BY <1>2 DEF Taking
<1>4. \A t \in Tasklets : t = Main \/ t # active => ~Failing(t)
  BY DEF Failing
<1>. QED
  BY <1>3, <1>4, MeetsKept

LEMMA EmptyIsWaitless == Waitless(<<>>)
BY DEF Waitless

(* Nobody is told anything. *)
LEMMA NobodyIsTold ==
    ASSUME tk \in [Tasklets -> TaskletType],
           \/ tk' = tk
           \/ \E x \in Tasklets, v \in TaskletType :
                 /\ tk' = [tk EXCEPT ![x] = v]
                 /\ v.dir = tk[x].dir /\ v.args = tk[x].args /\ v.exc = tk[x].exc
    PROVE  \A t \in Tasklets : Untold(t) /\ tk'[t].exc = tk[t].exc
<1>1. CASE tk' = tk
  BY <1>1 DEF Untold
<1>2. ASSUME NEW x \in Tasklets, NEW v \in TaskletType, tk' = [tk EXCEPT ![x] = v],
             v.dir = tk[x].dir, v.args = tk[x].args, v.exc = tk[x].exc
      PROVE  \A t \in Tasklets : Untold(t) /\ tk'[t].exc = tk[t].exc
  <2>1. \A t \in Tasklets : tk'[t] = IF t = x THEN v ELSE tk[t]
    BY <1>2
  <2>. QED
    BY <1>2, <2>1 DEF Untold
<1>. QED
  BY <1>1, <1>2

(* The flags of a tasklet, and who has run it. *)
LEMMA FlagsTellNobody ==
    ASSUME tk \in [Tasklets -> TaskletType], NEW x \in Tasklets,
           NEW a \in BOOLEAN, NEW p \in BOOLEAN, NEW f \in BOOLEAN,
           \/ tk' = [tk EXCEPT ![x].alive = a, ![x].paused = p, ![x].firstRun = f]
           \/ tk' = [tk EXCEPT ![x].paused = p, ![x].firstRun = f]
           \/ tk' = [tk EXCEPT ![x].alive = a]
           \/ tk' = [tk EXCEPT ![x].paused = p]
           \/ tk' = [tk EXCEPT ![x].tagged = a]
           \/ tk' = [tk EXCEPT ![x].transfer = a]
           \/ tk' = [tk EXCEPT ![x].blockTrap = a]
           \/ tk' = [tk EXCEPT ![x].parent = NULL]
    PROVE  \A t \in Tasklets : Untold(t) /\ tk'[t].exc = tk[t].exc
<1>1. tk[x] \in TaskletType
  OBVIOUS
<1>. DEFINE Fine(v) == /\ v \in TaskletType
                       /\ v.dir = tk[x].dir /\ v.args = tk[x].args /\ v.exc = tk[x].exc
<1>2. ASSUME NEW v, Fine(v), tk' = [tk EXCEPT ![x] = v]
      PROVE  \A t \in Tasklets : Untold(t) /\ tk'[t].exc = tk[t].exc
  BY <1>2, NobodyIsTold
<1>3. /\ Fine([tk[x] EXCEPT !.alive = a, !.paused = p, !.firstRun = f])
      /\ Fine([tk[x] EXCEPT !.paused = p, !.firstRun = f])
      /\ Fine([tk[x] EXCEPT !.alive = a])
      /\ Fine([tk[x] EXCEPT !.paused = p])
      /\ Fine([tk[x] EXCEPT !.tagged = a])
      /\ Fine([tk[x] EXCEPT !.transfer = a])
      /\ Fine([tk[x] EXCEPT !.blockTrap = a])
      /\ Fine([tk[x] EXCEPT !.parent = NULL])
  BY <1>1 DEF TaskletType
<1>. HIDE DEF Fine
<1>4. \/ tk' = [tk EXCEPT ![x] = [tk[x] EXCEPT !.alive = a, !.paused = p, !.firstRun = f]]
      \/ tk' = [tk EXCEPT ![x] = [tk[x] EXCEPT !.paused = p, !.firstRun = f]]
      \/ tk' = [tk EXCEPT ![x] = [tk[x] EXCEPT !.alive = a]]
      \/ tk' = [tk EXCEPT ![x] = [tk[x] EXCEPT !.paused = p]]
      \/ tk' = [tk EXCEPT ![x] = [tk[x] EXCEPT !.tagged = a]]
      \/ tk' = [tk EXCEPT ![x] = [tk[x] EXCEPT !.transfer = a]]
      \/ tk' = [tk EXCEPT ![x] = [tk[x] EXCEPT !.blockTrap = a]]
      \/ tk' = [tk EXCEPT ![x] = [tk[x] EXCEPT !.parent = NULL]]
  OBVIOUS
<1>. QED
  BY <1>2, <1>3, <1>4

(* No exception is set or raised either. *)
Nothing == \A t \in Tasklets : Untold(t) /\ tk'[t].exc = tk[t].exc

LEMMA FlagsAreNothing ==
    ASSUME tk \in [Tasklets -> TaskletType], NEW x \in Tasklets,
           \/ tk' = tk
           \/ tk' = [tk EXCEPT ![x].alive = TRUE, ![x].paused = FALSE, ![x].firstRun = TRUE]
           \/ tk' = [tk EXCEPT ![x].alive = TRUE, ![x].paused = TRUE, ![x].firstRun = TRUE]
           \/ tk' = [tk EXCEPT ![x].paused = TRUE, ![x].firstRun = TRUE]
           \/ tk' = [tk EXCEPT ![x].alive = FALSE]
           \/ tk' = [tk EXCEPT ![x].paused = FALSE]
           \/ tk' = [tk EXCEPT ![x].paused = TRUE]
           \/ tk' = [tk EXCEPT ![x].tagged = TRUE]
    PROVE  Nothing
<1>. DEFINE Told == \A t \in Tasklets : Untold(t) /\ tk'[t].exc = tk[t].exc
<1>1. tk' = tk => Told
  BY NobodyIsTold
<1>2. ASSUME NEW a \in BOOLEAN, NEW p \in BOOLEAN, NEW f \in BOOLEAN
      PROVE  /\ tk' = [tk EXCEPT ![x].alive = a, ![x].paused = p, ![x].firstRun = f] => Told
             /\ tk' = [tk EXCEPT ![x].paused = p, ![x].firstRun = f] => Told
             /\ tk' = [tk EXCEPT ![x].alive = a] => Told
             /\ tk' = [tk EXCEPT ![x].paused = p] => Told
             /\ tk' = [tk EXCEPT ![x].tagged = a] => Told
  BY FlagsTellNobody
<1>. HIDE DEF Told
<1>3. Told
  BY <1>1, <1>2
<1>. QED
  BY <1>3 DEF Told, Nothing

(* A call that tells nobody anything. *)
Silence ==
    /\ stack[active] = <<>> /\ active' = active /\ Nothing

LEMMA QuietCallsTellNobody ==
    ASSUME Control(Channels), Gentle, Python,
           ~\E t \in Tasklets, pending \in BOOLEAN : Kill(t, pending),
           ~(Finish \/ Raise \/ Propagate \/ Swallow)
    PROVE  Silence
<1>1. ~Nested /\ Flat /\ NoThrow
  BY DEF Gentle, Flat
<1>3. /\ active \in Tasklets /\ tk \in [Tasklets -> TaskletType]
  BY DEF Control, Types, TaskletsFit
<1>4. ASSUME stack[active] = <<>>, active' = active,
             Nothing
      PROVE  Silence
  BY <1>4 DEF Silence
<1>5. ASSUME NEW op, Calls(op)
      PROVE  stack[active] = <<>> /\ q.current = active
  BY <1>5, CallIsMade
<1>6. ASSUME Schedule PROVE Silence
  <2>1. Calls("schedule") /\ Yield(SetReschedule(q, q.current, "BACK"), tk, <<>>)
    BY <1>6 DEF Schedule
  <2>2. tk' = tk /\ active' = active
    BY <2>1 DEF Yield, Push, Answer, Continue
  <2>. QED
    BY <1>3, <1>4, <1>5, <2>1, <2>2, FlagsAreNothing
<1>7. ASSUME ScheduleRemove PROVE Silence
  <2>1. Calls("schedule_remove") /\ Yield(q, [tk EXCEPT ![q.current].tagged = TRUE], <<>>)
    BY <1>7 DEF ScheduleRemove
  <2>2. tk' = [tk EXCEPT ![active].tagged = TRUE] /\ active' = active
    BY <1>5, <2>1 DEF Yield, Push, Answer, Continue
  <2>. QED
    BY <1>3, <1>4, <1>5, <2>1, <2>2, FlagsAreNothing
<1>8. ASSUME NEW t \in Tasklets, Run(t) PROVE Silence
  <2>1. Calls("run") /\ RunTasklet(t, q, tk, <<>>)
    BY <1>8 DEF Run
  <2>2. tk' = tk /\ active' = active
    BY <1>1, <2>1 DEF RunTasklet, Yield, Push, Answer, Continue
  <2>. QED
    BY <1>3, <1>4, <1>5, <2>1, <2>2, FlagsAreNothing
<1>9. ASSUME NEW t \in Tasklets, Setup(t) PROVE Silence
  <2>1. Calls("setup") /\ active' = active
        /\ \/ tk' = [tk EXCEPT ![t].paused = TRUE, ![t].firstRun = TRUE]
           \/ tk' = [tk EXCEPT ![t].alive = TRUE, ![t].paused = FALSE, ![t].firstRun = TRUE]
    BY <1>9 DEF Setup, Answer, Continue
  <2>2. Nothing
    BY <1>3, <2>1, FlagsAreNothing
  <2>. QED
    BY <1>4, <1>5, <2>1, <2>2
<1>10. ASSUME NEW t \in Tasklets, Bind(t) PROVE Silence
  <2>1. Calls("bind") /\ active' = active
        /\ tk' = [tk EXCEPT ![t].alive = TRUE, ![t].paused = TRUE, ![t].firstRun = TRUE]
    BY <1>10 DEF Bind, Answer, Continue
  <2>2. Nothing
    BY <1>3, <2>1, FlagsAreNothing
  <2>. QED
    BY <1>4, <1>5, <2>1, <2>2
<1>11. ASSUME NEW t \in Tasklets, Unbind(t) PROVE Silence
  <2>1. /\ Calls("unbind") /\ active' = active
        /\ tk' = tk \/ tk' = [tk EXCEPT ![t].alive = FALSE]
    BY <1>11 DEF Unbind, Answer, Continue
  <2>2. Nothing
    BY <1>3, <2>1, FlagsAreNothing
  <2>. QED
    BY <1>4, <1>5, <2>1, <2>2
<1>12. ASSUME NEW t \in Tasklets, Insert(t) PROVE Silence
  <2>1. /\ (\E op : Calls(op)) /\ active' = active
        /\ tk' = tk \/ tk' = [tk EXCEPT ![t].paused = FALSE]
    BY <1>12 DEF Insert, Answer, Continue
  <2>2. Nothing
    BY <1>3, <2>1, FlagsAreNothing
  <2>. QED
    BY <1>4, <1>5, <2>1, <2>2
<1>13. ASSUME NEW t \in Tasklets, Remove(t) PROVE Silence
  <2>1. /\ (\E op : Calls(op)) /\ active' = active
        /\ tk' = tk \/ tk' = [tk EXCEPT ![t].paused = TRUE]
    BY <1>13 DEF Remove, Answer, Continue
  <2>2. Nothing
    BY <1>3, <2>1, FlagsAreNothing
  <2>. QED
    BY <1>4, <1>5, <2>1, <2>2
<1>14. ASSUME \/ RunScheduler \/ (\E n \in 1..MaxLimit : RunNTasklets(n)) \/ RunTaskletsForTime
              \/ \E delta \in {-1, 1} : SwitchTrap(delta)
       PROVE  Silence
  <2>1. \A fs, r : Push(fs) \/ Answer(fs, r) => active' = active
    BY Zenon DEF Push, Answer, Continue
  <2>2. \A n : RunNTasklets(n) => Calls("run_n_tasklets") /\ active' = active /\ tk' = tk
    BY <2>1, Zenon DEF RunNTasklets
  <2>3. \A delta : SwitchTrap(delta) => Calls("switch_trap") /\ active' = active /\ tk' = tk
    BY <2>1, Zenon DEF SwitchTrap
  <2>4. RunScheduler => Calls("run_scheduler") /\ active' = active /\ tk' = tk
    BY <2>1, Zenon DEF RunScheduler
  <2>5. RunTaskletsForTime => Calls("run_for_time") /\ active' = active /\ tk' = tk
    BY <2>1, Zenon DEF RunTaskletsForTime
  <2>6. (\E op : Calls(op)) /\ active' = active /\ tk' = tk
    BY <1>14, <2>2, <2>3, <2>4, <2>5
  <2>. QED
    BY <1>3, <1>4, <1>5, <2>6, FlagsAreNothing
<1>15. ASSUME Catch PROVE Silence
  <2>1. stack[active] = <<>> /\ active' = active /\ tk' = tk
    BY <1>15 DEF Catch, Raising, InPython, Answer, Continue
  <2>. QED
    BY <1>3, <1>4, <2>1, FlagsAreNothing
<1>16. ASSUME NEW t \in Tasklets, Switch(t) PROVE FALSE
  BY <1>1, <1>16, CallIsMade, FlatCalls DEF Switch
<1>17. ASSUME NEW t \in Tasklets, NEW pending \in BOOLEAN, Throw(t, pending) PROVE FALSE
  <2>1. \E op \in {"throw", "throw_queued", "throw_pending"} : Calls(op)
    BY <1>17 DEF Throw
  <2>. QED
    BY <1>1, <2>1, CallIsMade, FlatCalls
<1>. QED
  BY <1>6, <1>7, <1>8, <1>9, <1>10, <1>11, <1>12, <1>13, <1>14, <1>15, <1>16, <1>17 DEF Python

LEMMA QuietCallsMeet ==
    ASSUME Control(Channels), Meets, Gentle, Python,
           ~\E t \in Tasklets, pending \in BOOLEAN : Kill(t, pending),
           ~(Finish \/ Raise \/ Propagate \/ Swallow)
    PROVE  Meets'
<1>1. Flat /\ NoThrow
  BY DEF Gentle, Flat
<1>2. NoNewWaits
  BY <1>1, PythonWaitless
<1>3. Silence
  BY QuietCallsTellNobody
<1>4. active \in Tasklets /\ stack[active] \in Rests(Channels, active)
  BY <1>3, EmptyStack DEF Silence, Control, Types
<1>5. \A t \in Tasklets : Waitless(stack[t]) \/ (Untold(t) /\ (t = active => t = Main))
  BY <1>3, EmptyIsWaitless DEF Silence, Nothing
<1>. QED
  BY <1>2, <1>3, <1>4, <1>5, CallsMeet DEF Silence, Nothing

(* A tasklet whose code ends hands control to main. *)
LEMMA DeathsMeet ==
    ASSUME Control(Channels), Control(Channels)', Meets, Finish \/ Raise \/ Propagate \/ Swallow
    PROVE  Meets'
<1>1. /\ active # Main /\ stack[active] = <<>> /\ stack' = stack /\ tk' = tk /\ q' = q
      /\ gl' = [gl EXCEPT ![active].state = "dead"]
  BY DEF Finish, Raise, Propagate, Swallow, Dies, Running, Raising, InPython, Calls
<1>2. active \in Tasklets /\ tk \in [Tasklets -> TaskletType] /\ gl \in [Tasklets -> GreenletType]
  BY DEF Control, Types, TaskletsFit, GreenletsFit
<1>3. active' = Main
  <2>1. q.current = active
    BY <1>1, RunByMain
  <2>2. active' # Main => q'.current = active' /\ gl'[active'].state = "started"
    BY DEF Control, Runs
  <2>3. gl'[active].state = "dead"
    BY <1>1, <1>2 DEF GreenletType
  <2>. QED
    BY <1>1, <2>1, <2>2, <2>3
<1>4. Taking'
  BY <1>3 DEF Control, Types, TaskletsFit, Taking
<1>5. \A t \in Tasklets : Waitless(stack[t]) \/ (Untold(t) /\ ~Failing(t))
  <2>1. \A t \in Tasklets : Untold(t)
    BY <1>1, <1>2, NobodyIsTold
  <2>. QED
    BY <1>1, <2>1, EmptyIsWaitless DEF Failing
<1>6. NoNewWaits
  BY <1>1, SameStacksWaitless
<1>. QED
  BY <1>4, <1>5, <1>6, MeetsKept

(* An exception is set aside for t, or taken back. *)
LEMMA ExceptionsTellOne ==
    ASSUME tk \in [Tasklets -> TaskletType], NEW t \in Tasklets, NEW v \in TaskletType,
           tk' = [tk EXCEPT ![t] = v]
    PROVE  /\ tk'[t] = v /\ \A u \in Tasklets \ {t} : Untold(u) /\ tk'[u].exc = tk[u].exc
           /\ v.exc # "none" /\ t # Main => Met(t)'
           /\ v.exc # "none" /\ v.dir = tk[t].dir /\ v.args = tk[t].args => Untold(t)
<1>1. \A u \in Tasklets : tk'[u] = IF u = t THEN v ELSE tk[u]
  OBVIOUS
<1>2. \A u \in Tasklets \ {t} : Untold(u) /\ tk'[u].exc = tk[u].exc
  BY <1>1 DEF Untold
<1>3. v.exc # "none" /\ t # Main => Met(t)'
  BY <1>1 DEF Met, Exits
<1>4. v.exc # "none" /\ v.dir = tk[t].dir /\ v.args = tk[t].args => Untold(t)
  BY <1>1 DEF Untold
<1>. QED
  BY <1>1, <1>2, <1>3, <1>4

LEMMA KillTaskletMeets ==
    ASSUME Control(Channels), Meets, ~Nested, stack[active] \in Rests(Channels, active),
           stack[active] = <<>> \/ active = Main,
           NEW t \in Tasklets \ {Main}, NEW pending, KillTasklet(t, pending, <<>>)
    PROVE  Meets'
<1>1. NoNewWaits
  BY KillTaskletWaitless
<1>2. /\ q.current = active /\ active \in Tasklets
      /\ tk \in [Tasklets -> TaskletType] /\ tk[t] \in TaskletType
  BY InPlace DEF Control, Types, TaskletsFit
<1>3. ASSUME active' = active, tk'[active].exc \in {tk[active].exc, "none"},
             \A u \in Tasklets \ {t} : Untold(u),
             t = active \/ Untold(t) \/ Met(t)'
      PROVE  Meets'
  <2>1. \A u \in Tasklets : \/ Met(u)'
                            \/ Waitless(stack[u])
                            \/ Untold(u) /\ (u = active => u = Main)
    BY <1>3, EmptyIsWaitless
  <2>. QED
    BY <1>1, <1>3, <2>1, CallsMeet
<1>. DEFINE c == q.blockedOn[t]
            quiet == SetReschedule(Unblock(q, t), t, "NONE")
            v == [tk[t] EXCEPT !.exc = "none"]
            w == [tk[t] EXCEPT !.exc = "TaskletExit", !.killPending = TRUE,
                               !.dir = IF c = NULL THEN @ ELSE "NEITHER"]
            z == [tk[t] EXCEPT !.exc = "TaskletExit"]
<1>4. CASE ~tk[t].alive \/ tk[t].killPending
  <2>1. active' = active /\ tk' = tk
    BY <1>4 DEF KillTasklet, Answer, Continue
  <2>2. \A u \in Tasklets : Untold(u)
    BY <1>2, <2>1, NobodyIsTold
  <2>. QED
    BY <1>2, <1>3, <2>1, <2>2
<1>5. CASE ~(~tk[t].alive \/ tk[t].killPending) /\ q.current = t
  <2>1. active' = active /\ tk' = [tk EXCEPT ![t] = v]
    BY <1>5 DEF KillTasklet, Answer, Continue
  <2>2. v \in TaskletType /\ v.exc = "none"
    BY <1>2 DEF TaskletType
  <2>. HIDE DEF v
  <2>3. tk'[t] = v /\ \A u \in Tasklets \ {t} : Untold(u)
    BY <1>2, <2>1, <2>2, ExceptionsTellOne
  <2>. QED
    BY <1>2, <1>3, <1>5, <2>1, <2>2, <2>3
<1>6. CASE ~(~tk[t].alive \/ tk[t].killPending) /\ q.current # t /\ pending
  <2>1. active' = active /\ tk' = [tk EXCEPT ![t] = w]
    BY <1>6 DEF KillTasklet, Answer, Continue
  <2>2. w \in TaskletType /\ w.exc = "TaskletExit"
    BY <1>2 DEF TaskletType, Direction, Errors
  <2>. HIDE DEF w
  <2>3. Met(t)' /\ \A u \in Tasklets \ {t} : Untold(u) /\ tk'[u].exc = tk[u].exc
    BY <1>2, <2>1, <2>2, ExceptionsTellOne
  <2>. QED
    BY <1>2, <1>3, <1>6, <2>1, <2>3
<1>7. CASE ~(~tk[t].alive \/ tk[t].killPending) /\ q.current # t /\ ~pending
  <2>1. RunTasklet(t, quiet, [tk EXCEPT ![t].exc = "TaskletExit"], <<RestoreBlocked(t, c)>> \o <<>>)
    BY <1>7 DEF KillTasklet
  <2>. HIDE DEF quiet, c
  <2>2. active' = active /\ tk' = [tk EXCEPT ![t] = z]
    BY <2>1 DEF RunTasklet, Yield, Push, Answer, Continue
  <2>3. z \in TaskletType /\ z.exc = "TaskletExit" /\ z.dir = tk[t].dir /\ z.args = tk[t].args
    BY <1>2 DEF TaskletType, Errors
  <2>. HIDE DEF z
  <2>4. Untold(t) /\ \A u \in Tasklets \ {t} : Untold(u) /\ tk'[u].exc = tk[u].exc
    BY <1>2, <2>2, <2>3, ExceptionsTellOne
  <2>. QED
    BY <1>2, <1>3, <1>7, <2>2, <2>4
<1>. QED
  BY <1>4, <1>5, <1>6, <1>7

LEMMA KillsMeet ==
    ASSUME Control(Channels), OwnFrames, Gentle, Books, Meets,
           ClearKills \/ \E t \in Tasklets : \E pending \in BOOLEAN : Kill(t, pending)
    PROVE  Meets'
<1>1. ~Nested /\ Flat
  BY DEF Gentle, Flat
<1>2. ASSUME NEW t \in Tasklets, NEW pending \in BOOLEAN, Kill(t, pending) PROVE Meets'
  <2>1. (\E op : Calls(op)) /\ t # Main /\ KillTasklet(t, pending, <<>>)
    BY <1>2 DEF Kill
  <2>2. stack[active] = <<>> /\ stack[active] \in Rests(Channels, active)
    BY <2>1, CallIsMade
  <2>. QED
    BY <1>1, <2>1, <2>2, KillTaskletMeets
<1>3. ASSUME ClearKills PROVE Meets'
  <2>1. AtClear /\ ToBeCleared # <<>> /\ KillTasklet(Head(ToBeCleared), FALSE, <<>>)
    BY <1>3 DEF ClearKills
  <2>2. active = Main /\ stack[active] \in Rests(Channels, active) /\ Top \in ClearFrames
    BY <2>1, ClearedByMain DEF OwnFrames, ClearFrames
  <2>3. PICK c \in Channels : ToBeCleared = ch[c].send \/ ToBeCleared = ch[c].recv
    BY <2>2 DEF ToBeCleared, ClearFrames
  <2>4. Head(ToBeCleared) \in Tasklets /\ Listed(Head(ToBeCleared))
    BY <2>1, <2>3, FrontWaits DEF Books, Listed, B!Waits
  <2>5. ~Listed(active)
    <3>1. stack[active] # <<>> /\ Head(stack[active]).k = "Clear"
      BY <2>1 DEF AtClear, Top
    <3>. QED
      BY <2>2, <3>1, CallerIsFree
  <2>6. Head(ToBeCleared) # Main
    BY <2>2, <2>4, <2>5
  <2>. QED
    BY <1>1, <2>1, <2>2, <2>4, <2>6, KillTaskletMeets
<1>. QED
  BY <1>2, <1>3

(* A step of the main tasklet's loop. *)
LEMMA LoopMeets ==
    ASSUME Control(Channels), Meets, NoNewWaits, active = Main, Taking',
           \A t \in Tasklets : Waitless(stack[t]) \/ Untold(t)
    PROVE  Meets'
<1>1. \A t : ~Failing(t)
  BY DEF Failing
<1>. QED
  BY <1>1, MeetsKept

(* A call returns on the greenlet it was made on. *)
LEMMA ReturnMeets ==
    ASSUME Control(Channels), Meets, NoNewWaits, stack[active] # <<>>,
           Tail(stack[active]) \in Rests(Channels, active), ~AtYield(active, "in"),
           NEW r, Return(r), ret \in Errors => r \in Errors,
           tk'[active].exc \in {tk[active].exc, "none"},
           \A t \in Tasklets : Met(t)' \/ Waitless(stack[t]) \/ Untold(t)
    PROVE  Meets'
<1>1. active \in Tasklets /\ tk[active].exc = "none"
  BY DEF Control, Types, Meets, Taking
<1>2. /\ stack' = [stack EXCEPT ![active] = Tail(stack[active])] /\ active' = active
      /\ ret' = IF Tail(stack[active]) = <<>> /\ r = "ok" THEN "none" ELSE r
  BY DEF Return, Continue
<1>3. stack'[active] = Tail(stack[active])
  BY <1>1, <1>2 DEF Control, Stacks
<1>4. Taking'
  BY <1>1, <1>2 DEF Taking
<1>5. \A t \in Tasklets : Failing(t) => Failing(t)'
  <2>1. stack'[active] # <<>> => Head(stack'[active]).k # "Yield"
    BY <1>3, TopOfRest
  <2>2. ~AtYield(active, "head")'
    BY <1>2, <2>1 DEF AtYield, TopIs
  <2>. QED
    BY <1>2, <2>2 DEF Failing, Errors
<1>. QED
  BY <1>4, <1>5, MeetsKept

LEMMA RunEndsMeets ==
    ASSUME Control(Channels), Control(Channels)', Meets, RunEnds \/ RunCannotAdopt \/ RunFails
    PROVE  Meets'
<1>1. NoNewWaits
  BY SchedulerWaitless DEF Scheduler
<1>2. stack[active] # <<>> /\ Top.k = "Run" /\ (RunFails => Top.pc = "out") /\ active' = active
  BY DEF RunEnds, RunCannotAdopt, RunFails, AtFrame, Return, Continue
<1>3. active = Main /\ (RunFails => Top.sw \in Tasklets)
  BY <1>2, InTheLoop
<1>4. Taking'
  BY <1>2, <1>3 DEF Control, Types, TaskletsFit, Taking
<1>5. tk \in [Tasklets -> TaskletType]
  BY DEF Control, Types, TaskletsFit
<1>6. tk' = tk \/ (Top.sw \in Tasklets /\ tk' = [tk EXCEPT ![Top.sw].parent = NULL])
  BY <1>3 DEF RunEnds, RunCannotAdopt, RunFails
<1>7. \A t \in Tasklets : Untold(t)
  BY <1>5, <1>6, NobodyIsTold, FlagsTellNobody
<1>. QED
  BY <1>1, <1>3, <1>4, <1>7, LoopMeets

LEMMA RunContinuesMeets ==
    ASSUME Control(Channels), Control(Channels)', Books, Meets, RunContinues
    PROVE  Meets'
<1>1. NoNewWaits
  BY SchedulerWaitless DEF Scheduler
<1>2. /\ stack[active] # <<>> /\ Top.k = "Run" /\ Top.pc = "out" /\ active' = active
      /\ tk' = [tk EXCEPT ![Top.sw].exc = IF ret = "TaskletExit" THEN "none" ELSE @,
                          ![Top.sw].parent = IF tk[Top.sw].alive THEN @ ELSE NULL]
  BY DEF RunContinues, AtFrame, Continue
<1>3. active = Main /\ RunsOne /\ Target = Top.sw /\ Top.sw \in Tasklets \ {Main}
  BY <1>2, InTheLoop
<1>4. Taking'
  BY <1>2, <1>3 DEF Control, Types, TaskletsFit, Taking
<1>5. PICK x \in Tasklets \ {Main} : x = Top.sw
  BY <1>3
<1>6. tk \in [Tasklets -> TaskletType] /\ tk[x] \in TaskletType
  BY DEF Control, Types, TaskletsFit
<1>. DEFINE e == IF ret = "TaskletExit" THEN "none" ELSE tk[x].exc
            p == IF tk[x].alive THEN tk[x].parent ELSE NULL
<1>7. tk' = [tk EXCEPT ![x].exc = e, ![x].parent = p]
  BY <1>2, <1>5
<1>8. /\ e \in Errors \cup {"none"} /\ p \in Tasklets \cup {NULL}
      /\ e = tk[x].exc \/ ret = "TaskletExit"
  BY <1>6 DEF TaskletType
<1>. HIDE DEF e, p
<1>. DEFINE v == [tk[x] EXCEPT !.exc = e, !.parent = p]
<1>9. tk' = [tk EXCEPT ![x] = v]
  BY <1>6, <1>7
<1>10. v \in TaskletType /\ v.dir = tk[x].dir /\ v.args = tk[x].args /\ v.exc = e
  BY <1>6, <1>8 DEF TaskletType
<1>. HIDE DEF v
<1>11. \A u \in Tasklets \ {x} : Untold(u)
  BY <1>6, <1>9, <1>10, ExceptionsTellOne
<1>12. Untold(x) \/ Waitless(stack[x])
  <2>1. CASE ret = "TaskletExit"
    BY <1>3, <1>5, <2>1, EmptyIsWaitless DEF Books, Ended
  <2>2. CASE ret # "TaskletExit"
    <3>1. v.exc = tk[x].exc
      BY <1>8, <1>10, <2>2
    <3>. QED
      BY <1>6, <1>9, <1>10, <3>1, NobodyIsTold
  <2>. QED
    BY <2>1, <2>2
<1>13. \A t \in Tasklets : Waitless(stack[t]) \/ Untold(t)
  BY <1>11, <1>12
<1>. QED
  BY <1>1, <1>3, <1>4, <1>13, LoopMeets

(* What a switch that has come back tells: nothing, but that an exception is raised. *)
LEMMA SwitchTells ==
    ASSUME Control(Channels), NEW x \in Tasklets, NEW r, NEW t \in Tasklets,
           \/ tk[t].exc # "none" /\ tk' = [tk EXCEPT ![t].exc = "none"]
           \/ tk[t].exc = "none" /\ tk' = AfterSwitch(x, r)
    PROVE  tk'[t].exc = "none" /\ \A u \in Tasklets : u # t \/ tk[t].exc = "none" => Untold(u)
<1>1. tk \in [Tasklets -> TaskletType] /\ tk[t] \in TaskletType
  BY DEF Control, Types, TaskletsFit
<1>2. ASSUME tk[t].exc # "none", tk' = [tk EXCEPT ![t].exc = "none"]
      PROVE  tk'[t].exc = "none" /\ \A u \in Tasklets \ {t} : Untold(u)
  <2>. DEFINE v == [tk[t] EXCEPT !.exc = "none"]
  <2>1. tk' = [tk EXCEPT ![t] = v]
    BY <1>2
  <2>2. v \in TaskletType /\ v.exc = "none"
    BY <1>1 DEF TaskletType
  <2>. HIDE DEF v
  <2>3. tk'[t] = v /\ \A u \in Tasklets \ {t} : Untold(u)
    BY <1>1, <2>1, <2>2, ExceptionsTellOne
  <2>. QED
    BY <2>2, <2>3
<1>3. ASSUME tk[t].exc = "none", tk' = AfterSwitch(x, r)
      PROVE  tk'[t].exc = "none" /\ \A u \in Tasklets : Untold(u)
  <2>. DEFINE y == AfterSwitch(x, r)
  <2>1. /\ y[x].exc = tk[x].exc /\ y[x].dir = tk[x].dir /\ y[x].args = tk[x].args
        /\ \A u \in Tasklets \ {x} : y[u] = tk[u]
    BY AfterSwitchFlags
  <2>2. tk' = y
    BY <1>3
  <2>. HIDE DEF y
  <2>3. \A u \in Tasklets : Untold(u)
    BY <2>1, <2>2 DEF Untold
  <2>4. tk'[t].exc = tk[t].exc
    BY <2>1, <2>2
  <2>. QED
    BY <1>3, <2>3, <2>4
<1>. QED
  BY <1>2, <1>3

LEMMA SwitchReturnsMeets ==
    ASSUME Control(Channels), Control(Channels)', Books, Meets, SwitchReturns
    PROVE  Meets'
<1>1. NoNewWaits
  BY SchedulerWaitless DEF Scheduler
<1>. DEFINE pending == tk[q.current].exc
            r == IF pending # "none" THEN pending ELSE ret
<1>2. /\ stack[active] # <<>> /\ Top.k \in {"Run", "Yield"} /\ Top.pc = "in"
      /\ tk' = IF pending # "none" THEN [tk EXCEPT ![q.current].exc = "none"]
               ELSE AfterSwitch(Top.sw, ret)
      /\ Continue(<<[Top EXCEPT !.pc = "out"]>> \o Tail(stack[active]), r)
  BY DEF SwitchReturns, Resumed
<1>. HIDE DEF r
<1>3. /\ active' = active /\ ret' = r /\ stack'[active] # <<>> /\ Head(stack'[active]).k = Top.k
      /\ Head(stack'[active]).pc = "out"
  BY <1>2, PastTheSwitch
<1>4. active \in Tasklets /\ q.current \in Tasklets /\ Top.sw \in Tasklets
  <2>1. CASE Top.k = "Run"
    BY <1>2, <2>1, InTheLoop, MainAssumption
  <2>2. CASE Top.k = "Yield"
    <3>1. active # Main /\ active \in Tasklets /\ Top \in YieldFrames(active)
      BY <1>2, <2>2, InTheMiddle
    <3>. QED
      BY <1>2, <3>1, RunByMain, MainAssumption DEF YieldFrames
  <2>. QED
    BY <1>2, <2>1, <2>2
<1>5. PICK t \in Tasklets : t = q.current
  BY <1>4
<1>6. \/ tk[t].exc # "none" /\ tk' = [tk EXCEPT ![t].exc = "none"]
      \/ tk[t].exc = "none" /\ tk' = AfterSwitch(Top.sw, ret)
  BY <1>2, <1>5
<1>7. tk'[t].exc = "none" /\ \A u \in Tasklets : u # t \/ tk[t].exc = "none" => Untold(u)
  BY <1>4, <1>6, SwitchTells
<1>8. CASE active = Main
  <2>1. Taking'
    BY <1>3, <1>8 DEF Control, Types, TaskletsFit, Taking
  <2>2. tk[t].exc = "none" \/ Waitless(stack[t])
    <3>1. Top.k = "Run"
      BY <1>2, <1>8, InTheMiddle
    <3>2. RunsOne /\ Target = Top.sw /\ q.current \in {Main, Top.sw}
      BY <1>2, <3>1, InTheLoop
    <3>3. CASE t = Main
      BY <3>3 DEF Control, Types, TaskletsFit
    <3>4. CASE t # Main
      BY <1>5, <1>8, <3>2, <3>4, EmptyIsWaitless DEF Books, Ended
    <3>. QED
      BY <3>3, <3>4
  <2>3. \A u \in Tasklets : Waitless(stack[u]) \/ Untold(u)
    BY <1>7, <2>2
  <2>. QED
    BY <1>1, <1>8, <2>1, <2>3, LoopMeets
<1>9. CASE active # Main
  <2>1. t = active /\ Top.k = "Yield"
    BY <1>2, <1>5, <1>9, RunByMain, InTheMiddle
  <2>2. Taking'
    BY <1>3, <1>7, <2>1 DEF Taking
  <2>3. ~AtYield(t, "head")' /\ active' = t
    BY <1>3, <2>1 DEF AtYield, TopIs
  <2>4. ASSUME tk[t].exc # "none" PROVE Met(t)'
    <3>1. r \in Errors
      BY <1>5, <2>4 DEF r, Control, Types, TaskletsFit, TaskletType
    <3>2. Failing(t)'
      BY <1>3, <1>9, <2>1, <2>3, <3>1 DEF Failing
    <3>. QED
      BY <3>2 DEF Met, Exits
  <2>5. ASSUME tk[t].exc = "none", Failing(t) PROVE Failing(t)'
    <3>1. ret' = ret
      BY <1>3, <1>5, <2>5 DEF r
    <3>. QED
      BY <2>3, <2>5, <3>1 DEF Failing
  <2>6. \A u \in Tasklets : Met(u)' \/ Waitless(stack[u]) \/ (Untold(u) /\ (Failing(u) => Failing(u)'))
    <3>1. \A u \in Tasklets \ {t} : ~Failing(u) /\ Untold(u)
      BY <1>7, <2>1 DEF Failing
    <3>2. Met(t)' \/ (Untold(t) /\ (Failing(t) => Failing(t)'))
      BY <1>7, <2>4, <2>5
    <3>. QED
      BY <3>1, <3>2
  <2>. QED
    BY <1>1, <2>2, <2>6, MeetsKept
<1>. QED
  BY <1>8, <1>9

LEMMA YieldSwitchesMeet ==
    ASSUME Control(Channels), Control(Channels)', NoTrap, Meets, YieldSwitches \/ YieldStaysBlocked
    PROVE  Meets'
<1>1. NoNewWaits
  BY SchedulerWaitless DEF Scheduler
<1>2. /\ stack[active] # <<>> /\ Top.k = "Yield" /\ Top.pc \in {"head", "out"}
      /\ Top.pc = "out" => ret = "ok"
  BY DEF YieldSwitches, YieldStaysBlocked, AtFrame
<1>3. /\ Top.t = active /\ tk[active].parent = Main /\ Main # NULL /\ active # Main
      /\ active \in Tasklets
  BY <1>2, InTheMiddle, RunByMain, NullAssumption, MainAssumption
<1>4. SwitchTo(Top, Main, q, tk, gl)
  <2>1. UnblockedAncestor(active) = Main
    BY <1>3, MainIsTheAncestor
  <2>. QED
    BY <1>3, <2>1 DEF YieldSwitches, YieldStaysBlocked
<1>5. ~IsSwitchTrapped
  BY DEF IsSwitchTrapped, Control, Types, ManagerFits
<1>6. /\ TaskletsFit(tk) /\ GreenletsFit(gl) /\ Main \in Tasklets /\ gl[Main].state = "started"
      /\ tk \in [Tasklets -> TaskletType]
  BY MainAssumption DEF Control, Types, GreenletsFit, TaskletsFit
<1>7. Landing(gl, Main) = Main
  BY <1>6, LandsOnMain
<1>8. ~DiesUnstarted(tk, Main) /\ ~(tk[Main].firstRun /\ tk[Main].exc = "Error")
  BY <1>6 DEF DiesUnstarted, TaskletsFit
<1>9. active' = Main /\ tk' = [tk EXCEPT ![Main].paused = FALSE, ![Main].firstRun = FALSE]
  BY <1>4, <1>5, <1>7, <1>8 DEF SwitchTo
<1>10. Taking'
  BY <1>9 DEF Control, Types, TaskletsFit, Taking
<1>11. \A t \in Tasklets : Untold(t)
  BY <1>6, <1>9, FlagsTellNobody
<1>12. \A t : ~Failing(t)
  BY <1>2 DEF Failing, AtYield, TopIs, Top, Errors
<1>. QED
  BY <1>1, <1>10, <1>11, <1>12, MeetsKept

(* Calls whose return tells nobody anything. *)
LEMMA ReturnsMeet ==
    ASSUME Control(Channels), Meets,
           YieldReturns \/ YieldMainReturns \/ KillReturns \/ LimitedRunReturns
    PROVE  Meets'
<1>1. NoNewWaits
  BY SchedulerWaitless DEF Scheduler
<1>2. stack[active] # <<>> /\ tk' = tk /\ Top = Head(stack[active])
  BY DEF YieldReturns, YieldMainReturns, KillReturns, LimitedRunReturns, AtFrame, AtThen, Top
<1>3. PICK r : Return(r) /\ (ret \in Errors => r \in Errors)
  BY DEF YieldReturns, YieldMainReturns, KillReturns, LimitedRunReturns, Errors
<1>4. Tail(stack[active]) \in Rests(Channels, active) /\ ~AtYield(active, "in")
  <2>1. CASE YieldReturns
    <3>1. Top.k = "Yield" /\ Top.pc = "out"
      BY <2>1 DEF YieldReturns, AtFrame
    <3>. QED
      BY <1>2, <3>1, InTheMiddle DEF AtYield, TopIs
  <2>2. CASE YieldMainReturns \/ KillReturns \/ LimitedRunReturns
    <3>1. Top.k \notin {"Run", "Yield"}
      BY <2>2 DEF YieldMainReturns, KillReturns, LimitedRunReturns, AtThen
    <3>2. stack[active] \in Rests(Channels, active)
      BY <1>2, <3>1, RestOfACall
    <3>. QED
      BY <1>2, <3>1, <3>2, TopOfRest DEF AtYield, TopIs
  <2>. QED
    BY <2>1, <2>2
<1>5. \A t \in Tasklets : Untold(t)
  BY <1>2 DEF Untold
<1>. QED
  BY <1>1, <1>2, <1>3, <1>4, <1>5, ReturnMeets

(* The loop switches to the tasklet that is next. *)
LEMMA RunSwitchesMeets ==
    ASSUME Control(Channels), Control(Channels)', Books, NoTrap, NoThrow, Meets, RunSwitches
    PROVE  Meets'
<1>0. NoNewWaits
  BY SchedulerWaitless DEF Scheduler
<1>1. stack[active] # <<>> /\ Top.k = "Run" /\ Top.pc = "head" /\ ~RunIsOver(Top)
  BY DEF RunSwitches, AtFrame
<1>2. /\ active = Main /\ Top.base = Main /\ ~RunsOne /\ q.current = Main
      /\ stack[Main] # <<>> /\ Head(stack[Main]) = Top /\ AtRun("head")
  BY <1>1, InTheLoop DEF AtRun, TopIs
<1>3. /\ QueueFits(Channels, q) /\ TaskletsFit(tk) /\ GreenletsFit(gl) /\ ManagerFits(mgr)
      /\ Main \in Tasklets /\ tk \in [Tasklets -> TaskletType]
  BY MainAssumption DEF Control, Types, TaskletsFit
<1>4. q.next[Main] \in Tasklets \ {Main} /\ q.scheduled[q.next[Main]]
  <2>1. q.next[Main] # NULL
    BY <1>1, <1>2 DEF RunIsOver
  <2>. QED
    BY <1>3, <2>1, GoodQueue DEF QueueFits
<1>5. PICK x \in Tasklets \ {Main} : x = q.next[Main]
  BY <1>4
<1>. DEFINE tk0 == Adopted(tk, x, Main)
            g0 == Parented(gl, x, Main)
<1>6. SwitchTo(Top, x, q, tk0, g0)
  BY <1>2, <1>5 DEF RunSwitches
<1>7. /\ tk0 \in [Tasklets -> TaskletType] /\ tk0[x].firstRun = tk[x].firstRun
      /\ \A u \in Tasklets : /\ tk0[u].dir = tk[u].dir /\ tk0[u].args = tk[u].args
                             /\ tk0[u].exc = tk[u].exc
  <2>. DEFINE v == [tk[x] EXCEPT !.parent = Main]
  <2>1. tk[x] \in TaskletType
    BY <1>3
  <2>2. /\ v \in TaskletType /\ v.exc = tk[x].exc /\ v.firstRun = tk[x].firstRun
        /\ v.dir = tk[x].dir /\ v.args = tk[x].args
    BY <1>3, <2>1 DEF TaskletType
  <2>3. tk0 = [tk EXCEPT ![x] = v]
    BY DEF Adopted
  <2>. HIDE DEF v, tk0
  <2>. QED
    BY <1>3, <2>1, <2>2, <2>3
<1>8. /\ GreenletsFit(g0) /\ \A u \in Tasklets : g0[u].state = gl[u].state
  <2>1. Main # NULL
    BY <1>3, NullAssumption
  <2>2. /\ g0 \in [Tasklets -> GreenletType] /\ g0[x].parent = Main /\ g0[x].state = gl[x].state
        /\ \A u \in Tasklets : u # x => g0[u] = gl[u]
    BY <1>3, <2>1 DEF Parented, GreenletsFit, GreenletType
  <2>. HIDE DEF g0
  <2>. QED
    BY <1>3, <2>2 DEF GreenletsFit
<1>. HIDE DEF tk0, g0
<1>9. ~IsSwitchTrapped /\ tk[x].exc # "Error" /\ tk[x].exc \in Errors \cup {"none"}
  BY <1>3 DEF IsSwitchTrapped, ManagerFits, TaskletsFit, TaskletType
<1>10. Sound(x) /\ q.scheduled[x] /\ active # x
  BY <1>2, <1>4, <1>5 DEF Books
<1>11. ASSUME \/ active' = Main
              \/ active' = x /\ (tk'[x].exc # "none" => AtYield(x, "in")'),
              NEW v \in TaskletType, tk' = [tk0 EXCEPT ![x] = v],
              v.dir = tk0[x].dir, v.args = tk0[x].args, v.exc = tk0[x].exc
       PROVE  Meets'
  <2>1. Taking'
    BY <1>11 DEF Control, Types, TaskletsFit, Taking
  <2>2. \A u \in Tasklets : /\ tk'[u].dir = tk0[u].dir /\ tk'[u].args = tk0[u].args
                            /\ tk'[u].exc = tk0[u].exc
    BY <1>7, <1>11
  <2>3. \A u \in Tasklets : Untold(u)
    BY <1>7, <2>2 DEF Untold
  <2>. QED
    BY <1>0, <1>2, <2>1, <2>3, LoopMeets
<1>12. ASSUME DiesUnstarted(tk0, x) PROVE Meets'
  <2>. DEFINE v == [tk0[x] EXCEPT !.alive = FALSE]
  <2>1. active' = Main /\ tk' = DeadUnstarted(tk0, x)
    BY <1>2, <1>6, <1>9, <1>12 DEF SwitchTo, Continue
  <2>2. tk' = [tk0 EXCEPT ![x] = v]
    BY <2>1 DEF DeadUnstarted
  <2>3. v \in TaskletType /\ v.dir = tk0[x].dir /\ v.args = tk0[x].args /\ v.exc = tk0[x].exc
    BY <1>7 DEF TaskletType
  <2>. HIDE DEF v
  <2>. QED
    BY <1>11, <2>1, <2>2, <2>3
<1>13. ASSUME ~DiesUnstarted(tk0, x) PROVE Meets'
  <2>. DEFINE v == [tk0[x] EXCEPT !.paused = FALSE, !.firstRun = FALSE]
              in == [Top EXCEPT !.pc = "in", !.sw = x]
  <2>1. ~(tk0[x].firstRun /\ tk0[x].exc = "Error")
    BY <1>7, <1>9
  <2>2. /\ stack' = [stack EXCEPT ![active] = <<in>> \o Tail(@)]
        /\ active' = Landing(g0, x)
        /\ tk' = [tk0 EXCEPT ![x].paused = FALSE, ![x].firstRun = FALSE]
    BY <1>6, <1>9, <1>13, <2>1 DEF SwitchTo
  <2>. HIDE DEF in
  <2>3. active' = IF gl[x].state = "dead" THEN Main ELSE x
    BY <1>8, <2>2, LandsOnMain DEF GreenletsFit
  <2>4. tk' = [tk0 EXCEPT ![x] = v]
    BY <1>7, <2>2
  <2>5. v \in TaskletType /\ v.dir = tk0[x].dir /\ v.args = tk0[x].args /\ v.exc = tk0[x].exc
    BY <1>7 DEF TaskletType
  <2>. HIDE DEF v
  <2>6. ASSUME active' = x, tk'[x].exc # "none" PROVE AtYield(x, "in")'
    <3>1. tk0[x].exc = tk[x].exc /\ tk[x].exc = "TaskletExit"
      BY <1>7, <1>9, <2>4, <2>5, <2>6 DEF Errors
    <3>2. ~tk[x].firstRun
      BY <1>7, <1>13, <3>1 DEF DiesUnstarted
    <3>3. gl[x].state = "started"
      BY <1>3, <1>10, <2>3, <2>6, <3>2 DEF Sound, GreenletsFit, GreenletType
    <3>4. stack[x] # <<>> /\ AtYield(x, "in")
      BY <1>2, <1>10, <3>3 DEF Sound, Control, Suspended
    <3>5. stack'[x] = stack[x]
      BY <1>2, <2>2 DEF Control, Stacks
    <3>. QED
      BY <3>4, <3>5 DEF AtYield, TopIs
  <2>. QED
    BY <1>11, <2>3, <2>4, <2>5, <2>6
<1>. QED
  BY <1>12, <1>13

LEMMA SchedulerMeets ==
    ASSUME Control(Channels), Control(Channels)', Books, Gentle, Meets, Scheduler
    PROVE  Meets'
<1>1. NoThrow /\ NoTrap
  BY DEF Gentle
<1>. QED
  BY <1>1, SwitchReturnsMeets, RunEndsMeets, RunSwitchesMeets, RunContinuesMeets, YieldSwitchesMeet,
     ReturnsMeet, SwitchIsNotCalled DEF Scheduler

--------------------------------------------------------------------------------
(* What channels tell. *)

LEMMA QuietChannelCallsMeet ==
    ASSUME Control(Channels), Meets,
           \/ (\E c \in Channels : Clear(c)) \/ UnblockAllActiveChannels
           \/ \E c \in Channels : Close(c) \/ Open(c) \/ \E p \in Direction : SetPreference(c, p)
           \/ \E value \in BOOLEAN : SetBlocktrap(value)
    PROVE  Meets'
<1>1. NoNewWaits
  BY ChannelCallsWaitless
<1>2. \E op : Calls(op)
  BY DEF Clear, UnblockAllActiveChannels, Close, Open, SetPreference, SetBlocktrap
<1>3. stack[active] = <<>> /\ stack[active] \in Rests(Channels, active) /\ active \in Tasklets
  BY <1>2, CallIsMade
<1>4. active' = active
  BY DEF Clear, UnblockAllActiveChannels, Close, Open, SetPreference, SetBlocktrap, Push, Answer,
         Continue
<1>5. tk' = tk \/ \E value \in BOOLEAN : tk' = [tk EXCEPT ![active].blockTrap = value]
  BY DEF Clear, UnblockAllActiveChannels, Close, Open, SetPreference, SetBlocktrap
<1>6. tk \in [Tasklets -> TaskletType]
  BY DEF Control, Types, TaskletsFit
<1>7. \A t \in Tasklets : Untold(t) /\ tk'[t].exc = tk[t].exc
  BY <1>3, <1>5, <1>6, NobodyIsTold, FlagsTellNobody
<1>8. \A t \in Tasklets : Waitless(stack[t]) \/ (Untold(t) /\ (t = active => t = Main))
  BY <1>3, <1>7, EmptyIsWaitless
<1>9. tk'[active].exc = tk[active].exc
  BY <1>3, <1>7
<1>. QED
  BY <1>1, <1>3, <1>4, <1>8, <1>9, CallsMeet

LEMMA ClearStepsMeet ==
    ASSUME Control(Channels), OwnFrames, Flat, Meets, ClearGoesOn \/ ClearTurns \/ ClearEnds
    PROVE  Meets'
<1>1. NoNewWaits
  BY ChannelStepsWaitless DEF ChannelSteps
<1>2. AtClear /\ active' = active /\ tk' = tk
  BY DEF ClearGoesOn, ClearTurns, ClearEnds, Return, Continue
<1>3. active = Main /\ stack[active] \in Rests(Channels, active)
  BY <1>2, ClearedByMain DEF OwnFrames
<1>4. \A t \in Tasklets : Untold(t)
  BY <1>2 DEF Untold
<1>. QED
  BY <1>1, <1>2, <1>3, <1>4, CallsMeet

(* A send or receive of a, and whom it tells. *)
LEMMA TransferMeets ==
    ASSUME Control(Channels), Meets, NEW a \in Tasklets, a = active, stack[a] = <<>>, active' = a,
           tk'[a].exc = tk[a].exc, Lone(stack'[a]), Met(a)',
           \A u \in Tasklets \ {a} : stack'[u] = stack[u] /\ (Met(u)' \/ Untold(u))
    PROVE  Meets'
<1>1. tk[a].exc = "none"
  BY DEF Meets, Taking, AtYield, TopIs
<1>2. Taking'
  BY <1>1 DEF Taking
<1>3. ASSUME NEW u \in Tasklets \ {a} PROVE Lone(stack'[u]) /\ Met(u)'
  <2>1. NoNewWait(stack[u], stack'[u]) /\ ~Failing(u)
    BY <1>3 DEF NoNewWait, Failing
  <2>2. Met(u) /\ Lone(stack[u])
    BY <1>3 DEF Meets
  <2>. QED
    BY <1>3, <2>1, <2>2, UntoldMeets
<1>. QED
  BY <1>2, <1>3 DEF Meets

(* The first in line waits for what its list is for, and for nothing else. *)
LEMMA PartnerWaits ==
    ASSUME Control(Channels), Books, NEW op, Calls(op), NEW c \in Channels, NEW r \in Tasklets,
           B!Waits(r, ch[c])
    PROVE  /\ r # active
           /\ B!In(r, ch[c].recv) => ~Has(stack[r], "Send")
           /\ B!In(r, ch[c].send) => ~Has(stack[r], "Receive")
<1>1. stack[active] \in Rests(Channels, active) /\ ~Listed(active)
  BY CallIsQuiet
<1>2. r # active
  BY <1>1 DEF Listed
<1>3. Asleep(r, Wait(r, c))
  BY <1>1, <1>2, WaitersSleep DEF Idle
<1>. DEFINE f == Wait(r, c)
            g == Then("Yield.main", Main)
            S == Switching(r) \cup PlainFrames(Channels) \cup LimitedFrames
            s == stack[r]
<1>4. s \in Seq(S)
  BY StackIsASequence
<1>5. g.k \notin ChannelRests
  BY FramesWaitless
<1>6. /\ B!In(r, ch[c].recv) => f.k = "Receive"
      /\ B!In(r, ch[c].send) => f.k = "Send"
  BY DEF Books, Noting, Wait, Rest
<1>7. \/ s = <<f>> \/ s = <<g, f>>
      \/ /\ s # <<>> /\ Head(s).k \notin ChannelRests
         /\ Tail(s) = <<f>> \/ Tail(s) = <<g, f>>
  BY <1>3 DEF Asleep, ChannelRests
<1>. HIDE DEF f, g, S, s
<1>8. \A k \in ChannelRests : Has(s, k) => f.k = k
  BY <1>4, <1>5, <1>7, OneWaitSleeps
<1>. QED
  BY <1>2, <1>6, <1>8 DEF s, ChannelRests

(* Where a send or receive leaves its own tasklet. *)
LEMMA CallerAfterTransfer ==
    ASSUME Control(Channels), NEW a \in Tasklets, a = active, stack[a] = <<>>,
           \/ \E r : Answer(<<>>, r)
           \/ \E f, q0, tk0 : /\ Yield(q0, tk0, <<f>>)
                              /\ \/ f.k \in {"Send.delivered", "Receive.taken"}
                                 \/ f.k \in {"Send", "Receive"} /\ tk'[a].dir # "NEITHER"
    PROVE  /\ active' = a /\ Lone(stack'[a]) /\ Met(a)'
           /\ \A u \in Tasklets \ {a} : stack'[u] = stack[u]
<1>1. ASSUME NEW r, Answer(<<>>, r)
      PROVE  /\ active' = a /\ Lone(stack'[a]) /\ Met(a)'
             /\ \A u \in Tasklets \ {a} : stack'[u] = stack[u]
  <2>1. stack' = [stack EXCEPT ![a] = <<>>] /\ active' = a
    <3>1. Continue(<<>> \o <<>>, r)
      BY <1>1 DEF Answer
    <3>2. <<>> \o <<>> = <<>>
      OBVIOUS
    <3>. QED
      BY <3>1, <3>2 DEF Continue
  <2>2. stack'[a] = <<>> /\ \A u \in Tasklets \ {a} : stack'[u] = stack[u]
    BY <2>1 DEF Control, Stacks
  <2>3. Lone(stack'[a]) /\ \A k : ~Has(stack'[a], k)
    BY <2>2 DEF Lone, Has
  <2>. QED
    BY <2>1, <2>2, <2>3 DEF Met
<1>2. ASSUME NEW f, NEW q0, NEW tk0, Yield(q0, tk0, <<f>>),
             \/ f.k \in {"Send.delivered", "Receive.taken"}
             \/ f.k \in {"Send", "Receive"} /\ tk'[a].dir # "NEITHER"
      PROVE  /\ active' = a /\ Lone(stack'[a]) /\ Met(a)'
             /\ \A u \in Tasklets \ {a} : stack'[u] = stack[u]
  <2>1. active' = a
    BY <1>2 DEF Yield, Push, Answer, Continue
  <2>2. /\ Lone(stack'[a]) /\ \A k \in ChannelRests : Has(stack'[a], k) => f.k = k
        /\ \A t \in Tasklets \ {a} : stack'[t] = stack[t]
    BY <1>2, TransferIsAlone
  <2>3. Met(a)'
    BY <1>2, <2>2 DEF Met, ChannelRests
  <2>. QED
    BY <2>1, <2>2, <2>3
<1>. QED
  BY <1>1, <1>2

(* A step that changes what one or two tasklets note, and nobody's exception. *)
LEMMA TwoAreTold ==
    ASSUME tk \in [Tasklets -> TaskletType], NEW a \in Tasklets, NEW r \in Tasklets, a # r,
           NEW v, v.exc = tk[a].exc, NEW w, w.exc = tk[r].exc,
           \/ tk' = [tk EXCEPT ![a] = v]
           \/ tk' = [tk EXCEPT ![a] = v, ![r] = w]
    PROVE  /\ tk'[a] = v /\ tk'[a].exc = tk[a].exc
           /\ \A u \in Tasklets \ {a, r} : Untold(u)
           /\ tk' = [tk EXCEPT ![a] = v] => Untold(r)
           /\ tk' = [tk EXCEPT ![a] = v, ![r] = w] => tk'[r] = w
<1>1. \A u \in Tasklets \ {a, r} : tk'[u] = tk[u]
  OBVIOUS
<1>2. tk'[a] = v
  OBVIOUS
<1>3. tk' = [tk EXCEPT ![a] = v] => tk'[r] = tk[r]
  OBVIOUS
<1>4. tk' = [tk EXCEPT ![a] = v, ![r] = w] => tk'[r] = w
  OBVIOUS
<1>. QED
  BY <1>1, <1>2, <1>3, <1>4 DEF Untold

LEMMA OneIsTold ==
    ASSUME tk \in [Tasklets -> TaskletType], NEW a \in Tasklets, NEW v, v.exc = tk[a].exc,
           tk' = [tk EXCEPT ![a] = v]
    PROVE  /\ tk'[a] = v /\ tk'[a].exc = tk[a].exc
           /\ \A u \in Tasklets \ {a} : Untold(u)
<1>1. tk'[a] = v /\ \A u \in Tasklets \ {a} : tk'[u] = tk[u]
  OBVIOUS
<1>. QED
  BY <1>1 DEF Untold

LEMMA SendMeets ==
    ASSUME Control(Channels), Books, Meets, NEW c \in Channels, NEW exception \in BOOLEAN,
           Send(c, exception)
    PROVE  Meets'
<1>. DEFINE m == [from |-> q.current, exception |-> exception]
            op == IF exception THEN "send_exception" ELSE "send"
<1>1. Calls(op) /\ (SendRefused(c, m) \/ SendBlocks(c, m) \/ SendDelivers(c, m))
  BY DEF Send
<1>2. /\ stack[active] = <<>> /\ q.current = active /\ active \in Tasklets
      /\ tk \in [Tasklets -> TaskletType]
  BY <1>1, CallIsQuiet
<1>3. m # NULL
  BY <1>2, MessageAssumption DEF Message
<1>4. PICK a \in Tasklets : a = active
  BY <1>2
<1>5. tk[a] \in TaskletType
  BY <1>2
<1>. HIDE DEF m, op
<1>6. CASE SendRefused(c, m)
  <2>. DEFINE v == [tk[a] EXCEPT !.transfer = TRUE]
  <2>1. Answer(<<>>, "Error") /\ tk' = [tk EXCEPT ![a] = v]
    BY <1>2, <1>4, <1>6 DEF SendRefused
  <2>2. v.exc = tk[a].exc
    BY <1>5 DEF TaskletType
  <2>. HIDE DEF v
  <2>3. tk'[a].exc = tk[a].exc /\ \A u \in Tasklets \ {a} : Untold(u)
    BY <1>2, <2>1, <2>2, OneIsTold
  <2>4. /\ active' = a /\ Lone(stack'[a]) /\ Met(a)'
        /\ \A u \in Tasklets \ {a} : stack'[u] = stack[u]
    BY <1>2, <1>4, <2>1, CallerAfterTransfer
  <2>. QED
    BY <1>2, <1>4, <2>3, <2>4, TransferMeets
<1>7. CASE SendBlocks(c, m)
  <2>. DEFINE v == [tk[a] EXCEPT !.transfer = TRUE, !.dir = "SENDER", !.args = m]
              f == Rest("Send", a, c)
              q0 == Block(q, a, c)
              tk0 == [tk EXCEPT ![a].transfer = TRUE, ![a].dir = "SENDER", ![a].args = m]
  <2>1. Yield(q0, tk0, <<f>>) /\ tk' = tk0
    BY <1>2, <1>4, <1>7 DEF SendBlocks, Yield
  <2>2. tk' = [tk EXCEPT ![a] = v]
    BY <1>5, <2>1
  <2>3. v.exc = tk[a].exc /\ v.dir = "SENDER" /\ f.k = "Send"
    BY <1>5 DEF TaskletType, Rest
  <2>. HIDE DEF v, f, q0, tk0
  <2>4. tk'[a] = v /\ tk'[a].exc = tk[a].exc /\ \A u \in Tasklets \ {a} : Untold(u)
    BY <1>2, <2>2, <2>3, OneIsTold
  <2>5. f.k \in {"Send", "Receive"} /\ tk'[a].dir # "NEITHER"
    BY <2>3, <2>4
  <2>6. /\ active' = a /\ Lone(stack'[a]) /\ Met(a)'
        /\ \A u \in Tasklets \ {a} : stack'[u] = stack[u]
    BY <1>2, <1>4, <2>1, <2>5, CallerAfterTransfer
  <2>. QED
    BY <1>2, <1>4, <2>4, <2>6, TransferMeets
<1>8. CASE SendDelivers(c, m)
  <2>. DEFINE r0 == Head(ch[c].recv)
  <2>1. r0 \in Tasklets /\ B!In(r0, ch[c].recv)
    BY <1>8, FrontWaits DEF SendDelivers, Books
  <2>2. PICK r \in Tasklets : r = r0
    BY <2>1
  <2>3. B!Waits(r, ch[c]) /\ B!In(r, ch[c].recv)
    BY <2>1, <2>2 DEF B!Waits
  <2>4. r # a /\ ~Has(stack[r], "Send") /\ tk[r] \in TaskletType
    BY <1>1, <1>2, <1>4, <2>3, PartnerWaits
  <2>. DEFINE handed == [tk EXCEPT ![a].transfer = TRUE, ![r].dir = "NEITHER", ![r].args = m]
              w == [tk[r] EXCEPT !.dir = "NEITHER", !.args = m]
              v == [tk[a] EXCEPT !.transfer = TRUE]
              z == [tk[a] EXCEPT !.transfer = FALSE]
              f == Rest("Send.delivered", a, c)
              q0 == PartnerRunsNext(r, a)
  <2>5. \/ Yield(q0, handed, <<f>>) /\ tk' = handed
        \/ tk' = [handed EXCEPT ![a].transfer = FALSE] /\ Answer(<<>>, "ok")
    BY <1>2, <1>4, <1>8, <2>2 DEF SendDelivers, Yield
  <2>6. /\ v.exc = tk[a].exc /\ z.exc = tk[a].exc /\ w.exc = tk[r].exc /\ w.args = m
        /\ f.k = "Send.delivered"
    BY <1>5, <2>4 DEF TaskletType, Rest
  <2>7. handed = [tk EXCEPT ![a] = v, ![r] = w]
    BY <1>2, <2>4
  <2>8. z = [v EXCEPT !.transfer = FALSE]
    BY <1>5 DEF TaskletType
  <2>. HIDE DEF handed, w, v, z, f, q0
  <2>9. [handed EXCEPT ![a].transfer = FALSE] = [tk EXCEPT ![a] = z, ![r] = w]
    <3>1. handed[a] = v /\ handed = [u \in Tasklets |-> handed[u]]
      BY <1>2, <2>4, <2>7
    <3>2. [handed EXCEPT ![a].transfer = FALSE] = [handed EXCEPT ![a] = z]
      BY <2>8, <3>1
    <3>3. [handed EXCEPT ![a] = z] = [tk EXCEPT ![a] = z, ![r] = w]
      BY <1>2, <2>4, <2>7
    <3>. QED
      BY <3>2, <3>3
  <2>10. \/ tk' = [tk EXCEPT ![a] = v, ![r] = w]
         \/ tk' = [tk EXCEPT ![a] = z, ![r] = w]
    BY <2>5, <2>7, <2>9
  <2>11. /\ tk'[a].exc = tk[a].exc /\ tk'[r] = w
         /\ \A u \in Tasklets \ {a, r} : Untold(u)
    BY <1>2, <2>4, <2>6, <2>10, TwoAreTold
  <2>12. /\ active' = a /\ Lone(stack'[a]) /\ Met(a)'
         /\ \A u \in Tasklets \ {a} : stack'[u] = stack[u]
    BY <1>2, <1>4, <2>5, <2>6, CallerAfterTransfer
  <2>13. Met(r)'
    <3>1. stack'[r] = stack[r]
      BY <2>4, <2>12
    <3>. QED
      BY <1>3, <2>4, <2>6, <2>11, <3>1 DEF Met
  <2>14. \A u \in Tasklets \ {a} : stack'[u] = stack[u] /\ (Met(u)' \/ Untold(u))
    BY <2>11, <2>12, <2>13
  <2>. QED
    BY <1>2, <1>4, <2>11, <2>12, <2>14, TransferMeets
<1>. QED
  BY <1>1, <1>6, <1>7, <1>8

LEMMA ReceiveMeets ==
    ASSUME Control(Channels), Books, Meets, NEW c \in Channels, Receive(c)
    PROVE  Meets'
<1>1. Calls("receive") /\ (ReceiveRefused(c) \/ ReceiveBlocks(c) \/ ReceiveTakes(c))
  BY DEF Receive
<1>2. /\ stack[active] = <<>> /\ q.current = active /\ active \in Tasklets
      /\ tk \in [Tasklets -> TaskletType]
  BY <1>1, CallIsQuiet
<1>3. PICK a \in Tasklets : a = active
  BY <1>2
<1>4. tk[a] \in TaskletType
  BY <1>2
<1>5. CASE ReceiveRefused(c)
  <2>. DEFINE v == [tk[a] EXCEPT !.transfer = FALSE, !.dir = "NEITHER"]
  <2>1. Answer(<<>>, "Error") /\ tk' = [tk EXCEPT ![a].transfer = FALSE, ![a].dir = "NEITHER"]
    BY <1>2, <1>3, <1>5 DEF ReceiveRefused
  <2>2. tk' = [tk EXCEPT ![a] = v]
    BY <1>4, <2>1
  <2>3. v.exc = tk[a].exc
    BY <1>4 DEF TaskletType
  <2>. HIDE DEF v
  <2>4. tk'[a].exc = tk[a].exc /\ \A u \in Tasklets \ {a} : Untold(u)
    BY <1>2, <2>2, <2>3, OneIsTold
  <2>5. /\ active' = a /\ Lone(stack'[a]) /\ Met(a)'
        /\ \A u \in Tasklets \ {a} : stack'[u] = stack[u]
    BY <1>2, <1>3, <2>1, CallerAfterTransfer
  <2>. QED
    BY <1>2, <1>3, <2>4, <2>5, TransferMeets
<1>6. CASE ReceiveBlocks(c)
  <2>. DEFINE v == [tk[a] EXCEPT !.transfer = TRUE, !.dir = "RECEIVER"]
              f == Rest("Receive", a, c)
              q0 == Block(q, a, c)
              tk0 == [tk EXCEPT ![a].transfer = TRUE, ![a].dir = "RECEIVER"]
  <2>1. Yield(q0, tk0, <<f>>) /\ tk' = tk0
    BY <1>2, <1>3, <1>6 DEF ReceiveBlocks, Yield
  <2>2. tk' = [tk EXCEPT ![a] = v]
    BY <1>4, <2>1
  <2>3. v.exc = tk[a].exc /\ v.dir = "RECEIVER" /\ f.k = "Receive"
    BY <1>4 DEF TaskletType, Rest
  <2>. HIDE DEF v, f, q0, tk0
  <2>4. tk'[a] = v /\ tk'[a].exc = tk[a].exc /\ \A u \in Tasklets \ {a} : Untold(u)
    BY <1>2, <2>2, <2>3, OneIsTold
  <2>5. f.k \in {"Send", "Receive"} /\ tk'[a].dir # "NEITHER"
    BY <2>3, <2>4
  <2>6. /\ active' = a /\ Lone(stack'[a]) /\ Met(a)'
        /\ \A u \in Tasklets \ {a} : stack'[u] = stack[u]
    BY <1>2, <1>3, <2>1, <2>5, CallerAfterTransfer
  <2>. QED
    BY <1>2, <1>3, <2>4, <2>6, TransferMeets
<1>7. CASE ReceiveTakes(c)
  <2>. DEFINE s0 == Head(ch[c].send)
  <2>1. s0 \in Tasklets /\ B!In(s0, ch[c].send)
    BY <1>7, FrontWaits DEF ReceiveTakes, Books
  <2>2. PICK s \in Tasklets : s = s0
    BY <2>1
  <2>3. B!Waits(s, ch[c]) /\ B!In(s, ch[c].send)
    BY <2>1, <2>2 DEF B!Waits
  <2>4. s # a /\ ~Has(stack[s], "Receive") /\ tk[s] \in TaskletType
    BY <1>1, <1>2, <1>3, <2>3, PartnerWaits
  <2>. DEFINE g == tk[s].args
              moved == [tk EXCEPT ![a].transfer = TRUE, ![a].args = tk[s].args,
                                  ![s].transfer = FALSE, ![s].dir = "NEITHER", ![s].args = NULL]
              w == [tk[s] EXCEPT !.transfer = FALSE, !.dir = "NEITHER", !.args = NULL]
              v == [tk[a] EXCEPT !.transfer = TRUE, !.args = g]
              z == [tk[a] EXCEPT !.transfer = FALSE, !.args = NULL]
              f == Rest("Receive.taken", a, c)
              q0 == PartnerRunsNext(s, a)
              r0 == Outcome(a, moved)
  <2>5. \/ Yield(q0, moved, <<f>>) /\ tk' = moved
        \/ tk' = Taken(a, moved) /\ Answer(<<>>, r0)
    BY <1>2, <1>3, <1>7, <2>2 DEF ReceiveTakes, Yield
  <2>6. /\ v.exc = tk[a].exc /\ z.exc = tk[a].exc /\ w.exc = tk[s].exc /\ w.args = NULL
        /\ f.k = "Receive.taken"
    BY <1>4, <2>4 DEF TaskletType, Rest
  <2>7. moved = [tk EXCEPT ![a] = v, ![s] = w]
    BY <1>2, <1>4, <2>4 DEF TaskletType
  <2>8. z = [v EXCEPT !.transfer = FALSE, !.args = NULL]
    BY <1>4 DEF TaskletType
  <2>. HIDE DEF g, moved, w, v, z, f, q0, r0
  <2>9. Taken(a, moved) = [tk EXCEPT ![a] = z, ![s] = w]
    <3>1. moved[a] = v /\ moved = [u \in Tasklets |-> moved[u]]
      BY <1>2, <2>4, <2>7
    <3>2. Taken(a, moved) = [moved EXCEPT ![a] = z]
      BY <2>8, <3>1 DEF Taken
    <3>3. [moved EXCEPT ![a] = z] = [tk EXCEPT ![a] = z, ![s] = w]
      BY <1>2, <2>4, <2>7
    <3>. QED
      BY <3>2, <3>3
  <2>10. \/ tk' = [tk EXCEPT ![a] = v, ![s] = w]
         \/ tk' = [tk EXCEPT ![a] = z, ![s] = w]
    BY <2>5, <2>7, <2>9
  <2>11. /\ tk'[a].exc = tk[a].exc /\ tk'[s] = w
         /\ \A u \in Tasklets \ {a, s} : Untold(u)
    BY <1>2, <2>4, <2>6, <2>10, TwoAreTold
  <2>12. /\ active' = a /\ Lone(stack'[a]) /\ Met(a)'
         /\ \A u \in Tasklets \ {a} : stack'[u] = stack[u]
    BY <1>2, <1>3, <2>5, <2>6, CallerAfterTransfer
  <2>13. Met(s)'
    <3>1. stack'[s] = stack[s]
      BY <2>4, <2>12
    <3>. QED
      BY <2>4, <2>6, <2>11, <3>1 DEF Met
  <2>14. \A u \in Tasklets \ {a} : stack'[u] = stack[u] /\ (Met(u)' \/ Untold(u))
    BY <2>11, <2>12, <2>13
  <2>. QED
    BY <1>2, <1>3, <2>11, <2>12, <2>14, TransferMeets
<1>. QED
  BY <1>1, <1>5, <1>6, <1>7

(* What is left of a send or receive is its tasklet's own. *)
LEMMA RestIsItsOwn ==
    ASSUME Control(Channels), OwnFrames, NEW k \in ChannelRests, AtThen(k)
    PROVE  Top.t = active
<1>1. stack[active] # <<>> /\ Top.k = k /\ active \in Tasklets
  BY RestOnTop DEF ChannelRests
<1>2. PICK a \in Tasklets : a = active
  BY <1>1
<1>. DEFINE S == Switching(a) \cup PlainFrames(Channels) \cup LimitedFrames
            s == stack[a]
<1>3. s \in Seq(S)
  BY StackIsASequence
<1>4. Own(Tasklets, a, s) /\ s # <<>> /\ Top = Head(s)
  BY <1>1, <1>2 DEF OwnFrames, OwnedFrames, Top
<1>. HIDE DEF S, s
<1>5. Owns(Tasklets, a, Head(s))
  BY <1>3, <1>4, NothingLeft, OwnTogether
<1>. QED
  BY <1>1, <1>2, <1>4, <1>5 DEF Owns

(* A send or receive returns to Python code: its tasklet has no other call. *)
LEMMA RestsMeet ==
    ASSUME Control(Channels), OwnFrames, Meets,
           SendReturns \/ SendDeliveredReturns \/ ReceiveReturns \/ ReceiveTakenReturns
    PROVE  Meets'
<1>1. PICK k \in ChannelRests : AtThen(k)
  BY DEF SendReturns, SendDeliveredReturns, ReceiveReturns, ReceiveTakenReturns, ChannelRests
<1>2. /\ stack[active] # <<>> /\ stack[active] \in Rests(Channels, active)
      /\ Top.k = k /\ active \in Tasklets
  BY <1>1, RestOnTop DEF ChannelRests
<1>3. PICK a \in Tasklets : a = active
  BY <1>2
<1>. DEFINE S == Switching(a) \cup PlainFrames(Channels) \cup LimitedFrames
            s == stack[a]
<1>4. s \in Seq(S)
  BY StackIsASequence
<1>5. Top.t = a /\ Top = Head(s)
  BY <1>1, <1>3, RestIsItsOwn DEF Top
<1>6. Lone(s) /\ s # <<>> /\ Head(s).k \in ChannelRests
  BY <1>2, <1>3, <1>5 DEF Meets
<1>. HIDE DEF S
<1>7. Tail(s) = <<>>
  <2>. HIDE DEF s
  <2>. QED
    BY <1>4, <1>6, WaitIsLast
<1>8. \E r : Return(r)
  BY DEF SendReturns, SendDeliveredReturns, ReceiveReturns, ReceiveTakenReturns
<1>9. active' = a /\ stack' = [stack EXCEPT ![a] = <<>>]
  BY <1>3, <1>7, <1>8 DEF Return, Continue
<1>10. stack'[a] = <<>> /\ \A u \in Tasklets \ {a} : stack'[u] = stack[u]
  BY <1>9 DEF Control, Stacks
<1>11. tk \in [Tasklets -> TaskletType] /\ tk[a] \in TaskletType
  BY DEF Control, Types, TaskletsFit
<1>. DEFINE v1 == [tk[a] EXCEPT !.transfer = FALSE]
            v2 == [tk[a] EXCEPT !.transfer = FALSE, !.args = NULL]
            v3 == [tk[a] EXCEPT !.transfer = FALSE, !.dir = "NEITHER", !.args = NULL]
<1>12. tk' \in {tk, [tk EXCEPT ![a].transfer = FALSE], Taken(a, tk), Withdrawn(a)}
  BY <1>5 DEF SendReturns, SendDeliveredReturns, ReceiveReturns, ReceiveTakenReturns
<1>13. tk' = tk \/ \E v \in {v1, v2, v3} : tk' = [tk EXCEPT ![a] = v]
  BY <1>11, <1>12 DEF Taken, Withdrawn
<1>14. v1.exc = tk[a].exc /\ v2.exc = tk[a].exc /\ v3.exc = tk[a].exc
  BY <1>11 DEF TaskletType
<1>. HIDE DEF v1, v2, v3, s
<1>15. tk'[a].exc = tk[a].exc /\ \A u \in Tasklets \ {a} : Untold(u)
  <2>1. CASE tk' = tk
    BY <2>1 DEF Untold
  <2>2. ASSUME NEW v \in {v1, v2, v3}, tk' = [tk EXCEPT ![a] = v]
        PROVE  tk'[a].exc = tk[a].exc /\ \A u \in Tasklets \ {a} : Untold(u)
    <3>1. v.exc = tk[a].exc
      BY <1>14
    <3>. QED
      BY <1>11, <2>2, <3>1, OneIsTold
  <2>. QED
    BY <1>13, <2>1, <2>2
<1>16. tk[a].exc = "none"
  <2>1. ~AtYield(active, "in")
    BY <1>2, NotSwitching DEF AtYield
  <2>. QED
    BY <1>3, <2>1 DEF Meets, Taking
<1>17. Taking'
  BY <1>9, <1>15, <1>16 DEF Taking
<1>18. \A kk : ~Has(stack'[a], kk)
  BY <1>10 DEF Has
<1>19. Lone(stack'[a]) /\ Met(a)'
  BY <1>10, <1>18 DEF Lone, Met
<1>20. ASSUME NEW u \in Tasklets \ {a} PROVE Lone(stack'[u]) /\ Met(u)'
  <2>1. NoNewWait(stack[u], stack'[u]) /\ ~Failing(u)
    BY <1>3, <1>10, <1>20 DEF NoNewWait, Failing
  <2>2. Met(u) /\ Lone(stack[u])
    BY DEF Meets
  <2>. QED
    BY <1>15, <2>1, <2>2, UntoldMeets DEF NoNewWait
<1>. QED
  BY <1>17, <1>19, <1>20 DEF Meets

LEMMA StutterMeets ==
    ASSUME Meets, UNCHANGED vars
    PROVE  Meets'
<1>1. UNCHANGED <<q, tk, stack, active, ret>>
  BY DEF vars
<1>2. \A t : Has(stack'[t], "Send") = Has(stack[t], "Send")
             /\ Has(stack'[t], "Receive") = Has(stack[t], "Receive")
  BY <1>1
<1>3. \A t, pc : AtYield(t, pc)' = AtYield(t, pc)
  BY <1>1 DEF AtYield, TopIs
<1>4. \A t : Exits(t)' = Exits(t)
  BY <1>1, <1>3 DEF Exits, Failing
<1>5. \A t : Met(t) => Met(t)'
  BY <1>1, <1>2, <1>4 DEF Met
<1>6. Taking'
  BY <1>1, <1>3 DEF Meets, Taking
<1>. QED
  BY <1>1, <1>5, <1>6 DEF Meets

LEMMA ChannelNextMeets ==
    ASSUME Control(Channels), OwnFrames, Gentle, Books, Meets, [ChannelNext]_vars
    PROVE  Meets'
<1>1. Flat /\ NoThrow
  BY DEF Gentle
<1>2. Control(Channels)'
  BY <1>1, ChannelNextKeepsControl
<1>3. ASSUME Python PROVE Meets'
  BY <1>2, <1>3, QuietCallsMeet, DeathsMeet, KillsMeet
<1>4. ASSUME Scheduler PROVE Meets'
  BY <1>2, <1>4, SchedulerMeets
<1>5. ASSUME UNCHANGED vars PROVE Meets'
  BY <1>5, StutterMeets
<1>6. ASSUME ChannelCalls PROVE Meets'
  BY <1>6, SendMeets, ReceiveMeets, QuietChannelCallsMeet DEF ChannelCalls
<1>7. ASSUME ChannelSteps PROVE Meets'
  BY <1>1, <1>7, RestsMeet, KillsMeet, ClearStepsMeet DEF ChannelSteps
<1>. QED
  BY <1>3, <1>4, <1>5, <1>6, <1>7 DEF ChannelNext, Next, MainIdle

LEMMA InitMeets ==
    ASSUME Init
    PROVE  Meets
<1>1. \A t \in Tasklets : stack[t] = <<>> /\ tk[t].exc = "none"
  BY DEF Init
<1>2. active \in Tasklets
  BY MainAssumption DEF Init
<1>3. \A t \in Tasklets : Lone(stack[t]) /\ \A k : ~Has(stack[t], k)
  BY <1>1 DEF Lone, Has
<1>. QED
  BY <1>1, <1>2, <1>3 DEF Meets, Met, Taking

LEMMA MeetsAlways ==
    ASSUME Gentle
    PROVE  ChannelSpec => [](Control(Channels) /\ OwnFrames /\ Books /\ Meets)
<1>. DEFINE I == Control(Channels) /\ OwnFrames /\ Books
<1>1. ChannelSpec => []I
  BY BooksKept
<1>2. Init => Meets
  BY InitMeets
<1>3. I /\ Meets /\ [ChannelNext]_vars => Meets'
  BY ChannelNextMeets
<1>. QED
  BY <1>1, <1>2, <1>3, PTL DEF ChannelSpec

LEMMA PartnersHaveCome ==
    ASSUME Control(Channels), OwnFrames, Books, Meets
    PROVE  WokenByItsPartner
<1>1. ASSUME NEW k \in {"Send", "Receive"}, AtThen(k), ret = "ok"
      PROVE  /\ k = "Send" => tk[Top.t].args = NULL
             /\ k = "Receive" => tk[Top.t].args # NULL
  <2>1. /\ stack[active] # <<>> /\ stack[active] \in Rests(Channels, active)
        /\ Top.k = k /\ active \in Tasklets
    BY <1>1, RestOnTop
  <2>2. PICK a \in Tasklets : a = active
    BY <2>1
  <2>3. Top.t = a
    BY <1>1, <2>2, RestIsItsOwn DEF ChannelRests
  <2>4. Has(stack[a], k)
    <3>. DEFINE S == Switching(a) \cup PlainFrames(Channels) \cup LimitedFrames
                s == stack[a]
    <3>1. s \in Seq(S)
      BY <1>1, StackIsASequence
    <3>2. s # <<>> /\ Head(s).k = k
      BY <2>1, <2>2 DEF Top
    <3>. HIDE DEF S, s
    <3>3. Has(s, k)
      BY <3>1, <3>2, TopAndTail
    <3>. QED
      BY <3>3 DEF s
  <2>5. tk[a].exc = "none"
    <3>1. ~AtYield(active, "in")
      BY <1>1, <2>1, NotSwitching DEF AtYield
    <3>. QED
      BY <1>1, <2>2, <3>1 DEF Meets, Taking
  <2>6. ~Exits(a)
    BY <1>1, <2>5 DEF Exits, Failing, Errors
  <2>7. ~Listed(a)
    <3>1. SUFFICES ASSUME NEW c \in Channels, B!Waits(a, ch[c]) PROVE FALSE
      BY DEF Listed
    <3>2. \/ Failed(a, Wait(a, c))
          \/ a = Main /\ stack[a] = <<Then("Yield.main", Main), Wait(Main, c)>>
      BY <1>1, <2>1, <2>2, <3>1, WaitersSleep
    <3>3. ~Failed(a, Wait(a, c))
      BY <1>1 DEF Failed, Errors
    <3>4. Head(stack[a]).k = k /\ Then("Yield.main", Main).k = "Yield.main"
      BY <2>1, <2>2 DEF Top, Then
    <3>5. \A f, g : Head(<<f, g>>) = f
      OBVIOUS
    <3>. QED
      BY <3>2, <3>3, <3>4, <3>5
  <2>8. tk[a].dir = "NEITHER"
    BY <1>1, <2>7, ListedNotes
  <2>9. Met(a)
    BY <1>1 DEF Meets
  <2>. QED
    BY <2>3, <2>4, <2>6, <2>8, <2>9 DEF Met
<1>. QED
  BY <1>1 DEF WokenByItsPartner

(* A receiver that is woken without an exception has been given a message,  *)
(* and a sender only after its message was taken: whichever tasklets it was *)
(* switched to from, or killed beside, in between, no send or receive comes *)
(* back for another reason.                                                 *)
THEOREM PartnersWake ==
    ASSUME Gentle
    PROVE  ChannelSpec => []WokenByItsPartner
BY MeetsAlways, PartnersHaveCome, PTL

--------------------------------------------------------------------------------
(* Who is marked blocked.  The main tasklet's kill() and clear() mark their *)
(* victim blocked again when they fail, whether it still waits or not.  The *)
(* rest is for programs that do not mix these with pending kills or unbind. *)

Forced == MainOps \cap {"kill", "clear", "unblock_all"} # {}

Unmixed == Forced => AllOps \cap {"kill_pending", "unbind"} = {}

(* t is in the middle of Yield, and no exception is on its way to it. *)
Still(t) == stack[t] # <<>> /\ Head(stack[t]).k = "Yield" /\ tk[t].exc = "none" /\ ~Failing(t)

(* t may be marked by a kill that has failed: it runs no Python code before *)
(* the mark is gone, or never again.                                        *)
Stray(t) == Forced /\ (gl[t].state = "dead" \/ Still(t))

Marked(t) == q.blockedOn[t] # NULL => tk[t].dir # "NEITHER" \/ Stray(t)

(* The exception of a kill is raised at once. *)
Urgent(t) ==
    Forced /\ gl[t].state = "started" /\ tk[t].exc # "none" =>
        Chosen(t) \/ (active = t /\ AtYield(t, "in"))

Struck == \A t \in Tasklets \ {Main} : Marked(t) /\ Urgent(t)

Begun == {t \in Tasklets : gl[t].state \in {"started", "dead"}}

Strikes == Struck /\ (Forced => OwnedFrames(Begun))

(* A greenlet that has begun stays so, and one that is dead stays dead. *)
Ages(t) ==
    /\ gl'[t].state = "started" => gl[t].state = "started"
    /\ Forced /\ gl[t].state = "dead" => gl'[t].state = "dead"
    /\ Forced /\ gl[t].state = "started" => gl'[t].state \in {"started", "dead"}

(* A tasklet that gives control away switches to main. *)
LEMMA YieldsToMain ==
    ASSUME Control(Channels), NoTrap, YieldSwitches \/ YieldStaysBlocked
    PROVE  /\ active' = Main /\ active \in Tasklets \ {Main} /\ gl' = [gl EXCEPT ![Main].state = "started"]
           /\ tk' = [tk EXCEPT ![Main].paused = FALSE, ![Main].firstRun = FALSE]
           /\ q' = SetCurrentTasklet(q, Main)
           /\ stack' = [stack EXCEPT ![active] = <<[Top EXCEPT !.pc = "in", !.sw = Main]>> \o Tail(@)]
<1>1. stack[active] # <<>> /\ Top.k = "Yield"
  BY DEF YieldSwitches, YieldStaysBlocked, AtFrame
<1>2. /\ Top.t = active /\ tk[active].parent = Main /\ Main # NULL /\ active # Main
      /\ active \in Tasklets
  BY <1>1, InTheMiddle, RunByMain, NullAssumption, MainAssumption
<1>3. SwitchTo(Top, Main, q, tk, gl)
  <2>1. UnblockedAncestor(active) = Main
    BY <1>2, MainIsTheAncestor
  <2>. QED
    BY <1>2, <2>1 DEF YieldSwitches, YieldStaysBlocked
<1>4. ~IsSwitchTrapped
  BY DEF IsSwitchTrapped, Control, Types, ManagerFits
<1>5. TaskletsFit(tk) /\ GreenletsFit(gl) /\ Main \in Tasklets /\ gl[Main].state = "started"
  BY MainAssumption DEF Control, Types, GreenletsFit
<1>6. Landing(gl, Main) = Main
  BY <1>5, LandsOnMain
<1>7. ~DiesUnstarted(tk, Main) /\ ~(tk[Main].firstRun /\ tk[Main].exc = "Error")
  BY <1>5 DEF DiesUnstarted, TaskletsFit
<1>. QED
  BY <1>2, <1>3, <1>4, <1>6, <1>7 DEF SwitchTo

LEMMA NobodyBegins ==
    ASSUME Control(Channels), Gentle, Unmixed, [ChannelNext]_vars, ~RunSwitches, NEW t \in Tasklets
    PROVE  Ages(t)
<1>0. ~Nested /\ Flat
  BY DEF Gentle, Flat
<1>1. ASSUME gl'[t].state = gl[t].state PROVE Ages(t)
  BY <1>1 DEF Ages
<1>2. ASSUME NEW x \in Tasklets, Setup(x) \/ Bind(x) PROVE Ages(t)
  <2>1. gl[x].state = "unborn"
    BY <1>2 DEF Setup, Bind, Rebindable, Gentle
  <2>2. PICK g \in {[state |-> "unborn", parent |-> NULL], [state |-> "new", parent |-> active]} :
           gl' = Replaced(x, g)
    BY <1>2 DEF Setup, Bind, Unborn, Rebirth
  <2>3. gl'[t].state = IF t = x THEN g.state ELSE gl[t].state
    BY <2>2, ReplacedStates
  <2>. QED
    BY <2>1, <2>2, <2>3 DEF Ages
<1>3. ASSUME NEW x \in Tasklets, Unbind(x) PROVE Ages(t)
  <2>1. ~Forced
    <3>1. Calls("unbind")
      BY <1>3 DEF Unbind
    <3>2. "unbind" \in AllOps
      BY <3>1 DEF Calls, AllOps
    <3>. QED
      BY <3>2 DEF Unmixed
  <2>2. gl' = gl \/ gl' = Replaced(x, Unborn)
    BY <1>3 DEF Unbind
  <2>3. Unborn.state = "unborn"
    BY DEF Unborn
  <2>4. gl' = gl \/ gl'[t].state = IF t = x THEN "unborn" ELSE gl[t].state
    BY <2>2, <2>3, ReplacedStates
  <2>. QED
    BY <2>1, <2>4 DEF Ages
<1>4. ASSUME Finish \/ Raise \/ Propagate \/ Swallow PROVE Ages(t)
  <2>1. active # Main /\ gl' = [gl EXCEPT ![active].state = "dead"]
    BY <1>4 DEF Finish, Raise, Propagate, Swallow, Dies
  <2>2. gl[active].state = "started" /\ gl \in [Tasklets -> GreenletType]
    BY <2>1, RunByMain DEF Control, Types, GreenletsFit
  <2>3. gl'[t].state = IF t = active THEN "dead" ELSE gl[t].state
    BY <2>1, <2>2 DEF GreenletType
  <2>. QED
    BY <2>2, <2>3 DEF Ages
<1>5. ASSUME RunContinues \/ RunFails PROVE Ages(t)
  <2>1. gl' = gl \/ \E x : gl' = Parented(gl, x, NULL)
    BY <1>5 DEF RunContinues, RunFails
  <2>2. gl \in [Tasklets -> GreenletType]
    BY DEF Control, Types, GreenletsFit
  <2>3. gl'[t].state = gl[t].state
    BY <2>1, <2>2 DEF Parented, GreenletType
  <2>. QED
    BY <1>1, <2>3
<1>6. ASSUME YieldSwitches \/ YieldStaysBlocked PROVE Ages(t)
  <2>1. gl' = [gl EXCEPT ![Main].state = "started"]
    BY <1>6, YieldsToMain DEF Gentle
  <2>2. gl \in [Tasklets -> GreenletType] /\ gl[Main].state = "started"
    BY DEF Control, Types, GreenletsFit
  <2>3. gl'[t].state = gl[t].state
    BY <2>1, <2>2 DEF GreenletType
  <2>. QED
    BY <1>1, <2>3
<1>17. ASSUME NEW q0, NEW tk0, NEW w, Yield(q0, tk0, w) PROVE gl' = gl
  BY <1>17 DEF Yield
<1>7. ASSUME NEW x, NEW q0, NEW tk0, NEW w, RunTasklet(x, q0, tk0, w) PROVE gl' = gl
  BY <1>0, <1>7, <1>17 DEF RunTasklet
<1>8. ASSUME NEW x, NEW pending, NEW w, KillTasklet(x, pending, w) PROVE gl' = gl
  BY <1>7, <1>8 DEF KillTasklet
<1>9. ASSUME NEW x, Run(x) \/ Insert(x) \/ Remove(x) \/ Switch(x)
                    \/ \E pending \in BOOLEAN : Kill(x, pending) \/ Throw(x, pending)
      PROVE  gl' = gl
  BY <1>7, <1>8, <1>9 DEF Run, Insert, Remove, Switch, Kill, Throw
<1>10. ASSUME \/ Schedule \/ ScheduleRemove \/ RunScheduler
              \/ (\E n \in 1..MaxLimit : RunNTasklets(n)) \/ RunTaskletsForTime
              \/ (\E delta \in {-1, 1} : SwitchTrap(delta)) \/ Catch
       PROVE  gl' = gl
  <2>1. Schedule \/ ScheduleRemove => gl' = gl
    BY <1>17 DEF Schedule, ScheduleRemove
  <2>2. RunScheduler \/ RunTaskletsForTime \/ Catch => gl' = gl
    BY DEF RunScheduler, RunTaskletsForTime, Catch
  <2>3. \A n : RunNTasklets(n) => gl' = gl
    BY Zenon DEF RunNTasklets
  <2>4. \A delta : SwitchTrap(delta) => gl' = gl
    BY Zenon DEF SwitchTrap
  <2>. QED
    BY <1>10, <2>1, <2>2, <2>3, <2>4
<1>11. ASSUME \/ SwitchReturns \/ RunEnds \/ RunCannotAdopt \/ YieldReturns \/ YieldMainReturns
              \/ SwitchYields \/ SwitchReturnsToCaller \/ KillReturns \/ LimitedRunReturns
       PROVE  gl' = gl
  BY <1>11 DEF SwitchReturns, RunEnds, RunCannotAdopt, YieldReturns, YieldMainReturns, SwitchYields,
               SwitchReturnsToCaller, KillReturns, LimitedRunReturns
<1>12. ASSUME ChannelSteps PROVE gl' = gl
  BY <1>8, <1>12 DEF ChannelSteps, SendReturns, SendDeliveredReturns, ReceiveReturns,
                     ReceiveTakenReturns, ClearKills, ClearGoesOn, ClearTurns, ClearEnds
<1>13. ASSUME ChannelCalls PROVE gl' = gl
  <2>1. ASSUME NEW c, NEW m, SendRefused(c, m) \/ SendBlocks(c, m) \/ SendDelivers(c, m)
        PROVE  gl' = gl
    <3>1. SendRefused(c, m) \/ SendBlocks(c, m) => gl' = gl
      BY <1>17 DEF SendRefused, SendBlocks
    <3>2. SendDelivers(c, m) => gl' = gl
      BY <1>17, Zenon DEF SendDelivers
    <3>. QED
      BY <2>1, <3>1, <3>2
  <2>2. ASSUME NEW c, Receive(c) PROVE gl' = gl
    <3>1. ReceiveRefused(c) \/ ReceiveBlocks(c) => gl' = gl
      BY <1>17 DEF ReceiveRefused, ReceiveBlocks
    <3>2. ReceiveTakes(c) => gl' = gl
      BY <1>17, Zenon DEF ReceiveTakes
    <3>. QED
      BY <2>2, <3>1, <3>2 DEF Receive
  <2>. QED
    BY <1>13, <2>1, <2>2 DEF ChannelCalls, Send, Clear, UnblockAllActiveChannels, Close, Open,
                             SetPreference, SetBlocktrap
<1>14. ASSUME Python PROVE Ages(t)
  BY <1>1, <1>2, <1>3, <1>4, <1>9, <1>10, <1>14 DEF Python
<1>15. ASSUME Scheduler PROVE Ages(t)
  BY <1>1, <1>5, <1>6, <1>11, <1>15 DEF Scheduler
<1>16. ASSUME UNCHANGED vars PROVE gl' = gl
  BY <1>16 DEF vars
<1>. QED
  BY <1>1, <1>12, <1>13, <1>14, <1>15, <1>16 DEF ChannelNext, Next, MainIdle

(* A step that stays on its greenlet. *)
Local == \E fs, r : Continue(fs, r)

LEMMA LocalMoves ==
    /\ \A conts, r : Answer(conts, r) \/ Return(r) \/ Push(conts) => Local
    /\ \A q0, tk0, conts : Yield(q0, tk0, conts) => Local
    /\ \A t, q0, tk0, conts : RunTasklet(t, q0, tk0, conts) => Local
    /\ \A t, pending, conts : KillTasklet(t, pending, conts) => Local
<1>1. \A conts, r : Answer(conts, r) \/ Return(r) \/ Push(conts) => Local
  BY DEF Answer, Return, Push, Local
<1>2. \A q0, tk0, conts : Yield(q0, tk0, conts) => Local
  BY <1>1 DEF Yield
<1>3. \A t, q0, tk0, conts : RunTasklet(t, q0, tk0, conts) => Local
  BY <1>1, <1>2 DEF RunTasklet
<1>4. \A t, pending, conts : KillTasklet(t, pending, conts) => Local
  BY <1>1, <1>3 DEF KillTasklet
<1>. QED
  BY <1>1, <1>2, <1>3, <1>4

LEMMA LocalCalls ==
    ASSUME Control(Channels), Flat, Python, ~(Finish \/ Raise \/ Propagate \/ Swallow)
    PROVE  Local
<1>1. \A conts, r : Answer(conts, r) \/ Return(r) \/ Push(conts) => Local
  BY LocalMoves
<1>2. \A q0, tk0, conts : Yield(q0, tk0, conts) => Local
  BY LocalMoves
<1>3. \A t, q0, tk0, conts : RunTasklet(t, q0, tk0, conts) => Local
  BY LocalMoves
<1>4. \A t, pending, conts : KillTasklet(t, pending, conts) => Local
  BY LocalMoves
<1>5. ASSUME NEW t \in Tasklets, Run(t) \/ Setup(t) \/ Bind(t) \/ Unbind(t) \/ Insert(t) \/ Remove(t)
      PROVE  Local
  BY <1>1, <1>3, <1>5 DEF Run, Setup, Bind, Unbind, Insert, Remove
<1>6. ASSUME NEW t \in Tasklets, NEW pending \in BOOLEAN, Kill(t, pending) \/ Throw(t, pending)
      PROVE  Local
  BY <1>1, <1>3, <1>4, <1>6 DEF Kill, Throw
<1>7. ASSUME NEW t \in Tasklets, Switch(t) PROVE FALSE
  BY <1>7, CallIsMade, FlatCalls DEF Switch
<1>8. ASSUME RunScheduler \/ (\E n \in 1..MaxLimit : RunNTasklets(n)) \/ RunTaskletsForTime
      PROVE  Local
  <2>1. \A n : RunNTasklets(n) => Local
    BY <1>1, Zenon DEF RunNTasklets
  <2>2. RunScheduler => Local
    BY <1>1, Zenon DEF RunScheduler
  <2>3. RunTaskletsForTime => Local
    BY <1>1, Zenon DEF RunTaskletsForTime
  <2>. QED
    BY <1>8, <2>1, <2>2, <2>3
<1>9. ASSUME Schedule \/ ScheduleRemove \/ (\E delta \in {-1, 1} : SwitchTrap(delta)) \/ Catch
      PROVE  Local
  BY <1>1, <1>2, <1>9 DEF Schedule, ScheduleRemove, SwitchTrap, Catch
<1>. QED
  BY <1>5, <1>6, <1>7, <1>8, <1>9 DEF Python

LEMMA LocalSteps ==
    ASSUME ChannelCalls \/ ChannelSteps
    PROVE  Local
<1>1. \A conts, r : Answer(conts, r) \/ Return(r) \/ Push(conts) => Local
  BY LocalMoves
<1>2. \A q0, tk0, conts : Yield(q0, tk0, conts) => Local
  BY LocalMoves
<1>3. \A t, q0, tk0, conts : RunTasklet(t, q0, tk0, conts) => Local
  BY LocalMoves
<1>4. \A t, pending, conts : KillTasklet(t, pending, conts) => Local
  BY LocalMoves
<1>5. ASSUME NEW c, NEW m, SendRefused(c, m) \/ SendBlocks(c, m) \/ SendDelivers(c, m) PROVE Local
  <2>1. SendRefused(c, m) \/ SendBlocks(c, m) => Local
    BY <1>1, <1>2 DEF SendRefused, SendBlocks
  <2>2. SendDelivers(c, m) => Local
    BY <1>1, <1>2, Zenon DEF SendDelivers
  <2>. QED
    BY <1>5, <2>1, <2>2
<1>6. ASSUME NEW c, Receive(c) PROVE Local
  <2>1. ReceiveRefused(c) \/ ReceiveBlocks(c) => Local
    BY <1>1, <1>2 DEF ReceiveRefused, ReceiveBlocks
  <2>2. ReceiveTakes(c) => Local
    BY <1>1, <1>2, Zenon DEF ReceiveTakes
  <2>. QED
    BY <1>6, <2>1, <2>2 DEF Receive
<1>7. \/ (\E c \in Channels : Clear(c)) \/ UnblockAllActiveChannels
      \/ \E c \in Channels : Close(c) \/ Open(c) \/ \E p \in Direction : SetPreference(c, p)
      \/ \E value \in BOOLEAN : SetBlocktrap(value)
      => Local
  BY <1>1 DEF Clear, UnblockAllActiveChannels, Close, Open, SetPreference, SetBlocktrap
<1>8. SendReturns \/ SendDeliveredReturns \/ ReceiveReturns \/ ReceiveTakenReturns => Local
  BY <1>1 DEF SendReturns, SendDeliveredReturns, ReceiveReturns, ReceiveTakenReturns
<1>9. ClearKills \/ ClearGoesOn \/ ClearTurns \/ ClearEnds => Local
  BY <1>1, <1>4 DEF ClearKills, ClearGoesOn, ClearTurns, ClearEnds, Local
<1>. QED
  BY <1>5, <1>6, <1>7, <1>8, <1>9 DEF ChannelCalls, ChannelSteps, Send

LEMMA LocalStays ==
    ASSUME Control(Channels), Local
    PROVE  active' = active /\ \A u \in Tasklets \ {active} : stack'[u] = stack[u]
<1>1. PICK fs : stack' = [stack EXCEPT ![active] = fs] /\ active' = active
  BY DEF Local, Continue
<1>. QED
  BY <1>1 DEF Control, Stacks

(* What a step that strikes nobody may do to t. *)
Frees(t) == q'.blockedOn[t] \in {q.blockedOn[t], NULL}

Eases(t) ==
    /\ Frees(t) /\ tk'[t].dir = tk[t].dir /\ tk'[t].exc \in {tk[t].exc, "none"}

LEMMA Spared ==
    ASSUME NEW t \in Tasklets \ {Main}, Marked(t), Urgent(t), Ages(t), Eases(t), ~Chosen(t),
           ~(active = t /\ AtYield(t, "in")), Still(t) => Still(t)'
    PROVE  Marked(t)' /\ Urgent(t)'
<1>1. Urgent(t)'
  BY DEF Urgent, Ages, Eases
<1>2. Stray(t) => Stray(t)'
  BY DEF Stray, Ages
<1>3. Marked(t)'
  BY <1>2 DEF Marked, Eases, Frees
<1>. QED
  BY <1>1, <1>3

(* A step of main, or of a tasklet that is not in the middle of Yield. *)
LEMMA StepStrikes ==
    ASSUME Control(Channels), Struck, active' \in {active, Main},
           active # Main => \A pc : stack[active] # <<>> => Head(stack[active]).k # "Yield",
           \A u \in Tasklets \ {active, Main} : stack'[u] = stack[u],
           \A t \in Tasklets \ {Main} : Ages(t) /\ ~Chosen(t),
           \A t \in Tasklets \ {Main} : Eases(t) \/ (Marked(t)' /\ Urgent(t)')
    PROVE  Struck'
<1>1. ASSUME NEW t \in Tasklets \ {Main}, Eases(t) PROVE Marked(t)' /\ Urgent(t)'
  <2>1. ~(active = t /\ AtYield(t, "in"))
    BY <1>1 DEF AtYield, TopIs
  <2>2. active = t => ~Still(t)
    BY <1>1 DEF Still
  <2>3. active # t => active' # t /\ stack'[t] = stack[t]
    BY <1>1
  <2>4. active # t /\ Still(t) => Still(t)'
    BY <1>1, <2>3 DEF Still, Failing, Eases
  <2>. QED
    BY <1>1, <2>1, <2>2, <2>4, Spared DEF Struck
<1>. QED
  BY <1>1 DEF Struck

LEMMA CallStrikes ==
    ASSUME Control(Channels), Gentle, Unmixed, Struck, [ChannelNext]_vars, ~RunSwitches,
           stack[active] \in Rests(Channels, active), Local,
           \A t \in Tasklets \ {Main} : Eases(t) \/ (Marked(t)' /\ Urgent(t)')
    PROVE  Struck'
<1>1. active' = active /\ \A u \in Tasklets \ {active} : stack'[u] = stack[u]
  BY LocalStays
<1>2. \A t \in Tasklets \ {Main} : Ages(t) /\ ~Chosen(t)
  BY NobodyBegins, NotSwitching
<1>3. stack[active] # <<>> => Head(stack[active]).k # "Yield"
  BY TopOfRest
<1>. QED
  BY <1>1, <1>2, <1>3, StepStrikes

(* What the operations on the queue do to the marks. *)
LEMMA QueuesFree ==
    ASSUME NEW x, Q!Good(x), NEW t \in Tasklets, NEW y,
           \/ y = x
           \/ y = Unblock(x, t) \/ y = InsertTasklet(x, t)
           \/ \E r \in RescheduleType : y = SetReschedule(x, t, r)
           \/ t # Main /\ y = RemoveTasklet(x, t)
           \/ t \notin {Main, x.current} /\ x.scheduled[x.current] /\ y = MoveToRunNext(x, t)
    PROVE  \A u \in Tasklets : y.blockedOn[u] \in {x.blockedOn[u], NULL}
<1>1. CASE y = Unblock(x, t)
  BY <1>1, BlocksFree DEF Freed
<1>2. CASE y = InsertTasklet(x, t)
  BY <1>2, InsertsInsert DEF Inserted
<1>3. ASSUME NEW r \in RescheduleType, y = SetReschedule(x, t, r)
      PROVE  \A u \in Tasklets : y.blockedOn[u] \in {x.blockedOn[u], NULL}
  BY <1>3, MarksFlag DEF Flagged
<1>4. CASE t # Main /\ y = RemoveTasklet(x, t)
  BY <1>4, RemoveRemoves DEF Removed
<1>5. CASE t \notin {Main, x.current} /\ x.scheduled[x.current] /\ y = MoveToRunNext(x, t)
  BY <1>5, MoveMoves DEF Moved
<1>. QED
  BY <1>1, <1>2, <1>3, <1>4, <1>5

(* A call that marks nobody blocked. *)
LEMMA QuietCallsFree ==
    ASSUME Control(Channels), Gentle, Python,
           ~\E t \in Tasklets, pending \in BOOLEAN : Kill(t, pending),
           ~(Finish \/ Raise \/ Propagate \/ Swallow)
    PROVE  \A u \in Tasklets : Frees(u)
<1>1. ~Nested /\ Flat /\ NoThrow
  BY DEF Gentle, Flat
<1>2. Q!Good(q) /\ active \in Tasklets
  BY DEF Control, Types, QueueFits
<1>3. ASSUME NEW op, Calls(op)
      PROVE  stack[active] \in Rests(Channels, active) /\ q.current = active /\ q.scheduled[active]
  BY <1>3, CallIsMade, CallerIsQueued
<1>4. ASSUME q' = q PROVE \A u \in Tasklets : Frees(u)
  BY <1>4 DEF Frees
<1>5. ASSUME NEW y, q' = y, \A u \in Tasklets : y.blockedOn[u] \in {q.blockedOn[u], NULL}
      PROVE  \A u \in Tasklets : Frees(u)
  BY <1>5 DEF Frees
<1>6. ASSUME Schedule PROVE \A u \in Tasklets : Frees(u)
  <2>1. Calls("schedule") /\ q' = SetReschedule(q, q.current, "BACK")
    BY <1>6 DEF Schedule, Yield
  <2>. QED
    BY <1>2, <1>3, <1>5, <2>1, QueuesFree DEF RescheduleType
<1>7. ASSUME ScheduleRemove PROVE q' = q
  BY <1>7 DEF ScheduleRemove, Yield
<1>8. ASSUME NEW t \in Tasklets, Run(t) PROVE \A u \in Tasklets : Frees(u)
  <2>1. Calls("run") /\ RunTasklet(t, q, tk, <<>>) /\ t \notin {Main, active}
    BY <1>1, <1>8 DEF Run
  <2>2. q' = q \/ q' = MoveToRunNext(q, t)
    BY <1>1, <2>1 DEF RunTasklet, Yield
  <2>. QED
    BY <1>2, <1>3, <1>5, <2>1, <2>2, QueuesFree
<1>9. ASSUME NEW t \in Tasklets, Setup(t) \/ Bind(t) \/ Unbind(t) \/ Insert(t)
      PROVE  \A u \in Tasklets : Frees(u)
  <2>1. q' = q \/ q' = InsertTasklet(q, t)
    BY <1>9 DEF Setup, Bind, Unbind, Insert
  <2>. QED
    BY <1>2, <1>5, <2>1, QueuesFree
<1>10. ASSUME NEW t \in Tasklets, Remove(t) PROVE \A u \in Tasklets : Frees(u)
  <2>1. t # Main
    BY <1>1, <1>10, RemoveKeepsControl
  <2>2. q' = q \/ q' = RemoveTasklet(q, t)
    BY <1>10 DEF Remove
  <2>. QED
    BY <1>2, <1>5, <2>1, <2>2, QueuesFree
<1>11. ASSUME \/ RunScheduler \/ (\E n \in 1..MaxLimit : RunNTasklets(n)) \/ RunTaskletsForTime
              \/ \E delta \in {-1, 1} : SwitchTrap(delta)
       PROVE  q' = q
  <2>1. \A n : RunNTasklets(n) => q' = q
    BY Zenon DEF RunNTasklets
  <2>2. \A delta : SwitchTrap(delta) => q' = q
    BY Zenon DEF SwitchTrap
  <2>3. RunScheduler => q' = q
    BY Zenon DEF RunScheduler
  <2>4. RunTaskletsForTime => q' = q
    BY Zenon DEF RunTaskletsForTime
  <2>. QED
    BY <1>11, <2>1, <2>2, <2>3, <2>4
<1>12. ASSUME Catch PROVE q' = q
  BY <1>12 DEF Catch
<1>13. ASSUME NEW t \in Tasklets, Switch(t) PROVE FALSE
  BY <1>1, <1>13, CallIsMade, FlatCalls DEF Switch
<1>14. ASSUME NEW t \in Tasklets, NEW pending \in BOOLEAN, Throw(t, pending) PROVE FALSE
  <2>1. \E op \in {"throw", "throw_queued", "throw_pending"} : Calls(op)
    BY <1>14 DEF Throw
  <2>. QED
    BY <1>1, <2>1, CallIsMade, FlatCalls
<1>. QED
  BY <1>4, <1>6, <1>7, <1>8, <1>9, <1>10, <1>11, <1>12, <1>13, <1>14 DEF Python

LEMMA QuietCallsStrike ==
    ASSUME Control(Channels), Gentle, Unmixed, Struck, Python, [ChannelNext]_vars, ~RunSwitches,
           ~\E t \in Tasklets, pending \in BOOLEAN : Kill(t, pending),
           ~(Finish \/ Raise \/ Propagate \/ Swallow)
    PROVE  Struck'
<1>1. Flat
  BY DEF Gentle
<1>2. Silence /\ Local
  BY <1>1, QuietCallsTellNobody, LocalCalls
<1>3. stack[active] \in Rests(Channels, active)
  BY <1>2, EmptyStack DEF Silence
<1>4. \A t \in Tasklets : Frees(t)
  BY QuietCallsFree
<1>5. \A t \in Tasklets \ {Main} : Eases(t)
  BY <1>2, <1>4 DEF Silence, Nothing, Untold, Eases
<1>. QED
  BY <1>2, <1>3, <1>5, CallStrikes

(* A tasklet whose code ends hands control to main. *)
LEMMA DeathsStrike ==
    ASSUME Control(Channels), Control(Channels)', Gentle, Unmixed, Struck, [ChannelNext]_vars, ~RunSwitches,
           Finish \/ Raise \/ Propagate \/ Swallow
    PROVE  Struck'
<1>1. /\ active # Main /\ stack[active] = <<>> /\ stack' = stack /\ tk' = tk /\ q' = q
      /\ gl' = [gl EXCEPT ![active].state = "dead"]
  BY DEF Finish, Raise, Propagate, Swallow, Dies, Running, Raising, InPython, Calls
<1>2. active \in Tasklets /\ gl \in [Tasklets -> GreenletType]
  BY DEF Control, Types, GreenletsFit
<1>3. active' = Main
  <2>1. q.current = active
    BY <1>1, RunByMain
  <2>2. active' # Main => q'.current = active' /\ gl'[active'].state = "started"
    BY DEF Control, Runs
  <2>3. gl'[active].state = "dead"
    BY <1>1, <1>2 DEF GreenletType
  <2>. QED
    BY <1>1, <2>1, <2>2, <2>3
<1>4. \A t \in Tasklets \ {Main} : Ages(t) /\ ~Chosen(t)
  BY <1>1, NobodyBegins DEF Chosen
<1>5. \A t \in Tasklets \ {Main} : Eases(t)
  BY <1>1 DEF Eases, Frees
<1>. QED
  BY <1>1, <1>3, <1>4, <1>5, StepStrikes

(* Killing t wakes it, or main switches to it with the exception. *)
LEMMA KillTaskletStrikes ==
    ASSUME Control(Channels), Gentle, Unmixed, Struck, [ChannelNext]_vars, ~RunSwitches, Local,
           stack[active] \in Seq(PlainFrames(Channels)), active = Main => q.blockedOn[Main] = NULL,
           NEW t \in Tasklets \ {Main}, NEW pending \in BOOLEAN,
           ~pending => active = Main, pending => ~Forced,
           KillTasklet(t, pending, <<>>), mgr' = mgr
    PROVE  Struck'
<1>1. /\ stack[active] \in Rests(Channels, active) /\ ~Nested
      /\ tk \in [Tasklets -> TaskletType]
  BY PlainRests DEF Gentle, Flat, Control, Types, TaskletsFit
<1>2. /\ q.current = active /\ active \in Tasklets /\ Q!Good(q)
      /\ q.blockedOn[t] \in Channels \cup {NULL}
  BY <1>1, InPlace DEF Control, Types, QueueFits
<1>3. ASSUME \A u \in Tasklets \ {Main} : Eases(u) \/ (Marked(u)' /\ Urgent(u)') PROVE Struck'
  BY <1>1, <1>3, CallStrikes
<1>4. CASE ~tk[t].alive \/ tk[t].killPending
  <2>1. q' = q /\ tk' = tk
    BY <1>4 DEF KillTasklet
  <2>2. \A u \in Tasklets \ {Main} : Eases(u)
    BY <2>1 DEF Eases, Frees
  <2>. QED
    BY <1>3, <2>2
<1>5. CASE ~(~tk[t].alive \/ tk[t].killPending) /\ active = t
  <2>1. q' = Unblock(q, t) /\ tk' = [tk EXCEPT ![t].exc = "none"]
    BY <1>2, <1>5 DEF KillTasklet
  <2>2. \A u \in Tasklets : q'.blockedOn[u] \in {q.blockedOn[u], NULL}
    BY <1>2, <2>1, QueuesFree
  <2>3. \A u \in Tasklets : tk'[u].dir = tk[u].dir /\ tk'[u].exc \in {tk[u].exc, "none"}
    BY <1>1, <2>1 DEF TaskletType
  <2>4. \A u \in Tasklets \ {Main} : Eases(u)
    BY <2>2, <2>3 DEF Eases, Frees
  <2>. QED
    BY <1>3, <2>4
<1>6. CASE ~(~tk[t].alive \/ tk[t].killPending) /\ active # t /\ pending
  <2>. DEFINE c == q.blockedOn[t]
              q1 == Unblock(q, t)
              q2 == InsertTasklet(q1, t)
  <2>1. /\ q' = SetReschedule(q2, t, "NONE")
        /\ tk' = [tk EXCEPT ![t].exc = "TaskletExit", ![t].killPending = TRUE,
                            ![t].dir = IF c = NULL THEN @ ELSE "NEITHER"]
    BY <1>2, <1>6 DEF KillTasklet
  <2>2. Freed(q, q1, t, NULL)
    BY <1>2, BlocksFree
  <2>. HIDE DEF q1, c
  <2>3. Inserted(q1, q2, t)
    BY <2>2, InsertsInsert DEF q2, Freed
  <2>. HIDE DEF q2
  <2>4. Flagged(q2, q', t, "NONE")
    BY <2>1, <2>3, MarksFlag DEF Inserted, RescheduleType
  <2>5. /\ q'.blockedOn[t] = NULL
        /\ \A u \in Tasklets : q'.blockedOn[u] \in {q.blockedOn[u], NULL}
    BY <2>2, <2>3, <2>4 DEF Freed, Inserted, Flagged
  <2>6. \A u \in Tasklets \ {t} : tk'[u] = tk[u]
    BY <1>1, <2>1
  <2>7. \A u \in Tasklets \ {Main, t} : Eases(u)
    BY <2>5, <2>6 DEF Eases, Frees
  <2>8. Marked(t)' /\ Urgent(t)'
    BY <1>6, <2>5 DEF Marked, Urgent, Forced
  <2>. QED
    BY <1>3, <2>7, <2>8
<1>7. CASE ~(~tk[t].alive \/ tk[t].killPending) /\ active # t /\ ~pending
  <2>. DEFINE c == q.blockedOn[t]
              q0 == SetReschedule(Unblock(q, t), t, "NONE")
              tk0 == [tk EXCEPT ![t].exc = "TaskletExit"]
              g == RestoreBlocked(t, c)
  <2>1. RunTasklet(t, q0, tk0, <<g>> \o <<>>) /\ tk[t].alive
    BY <1>2, <1>7 DEF KillTasklet
  <2>2. active = Main /\ c \in Channels \cup {NULL} /\ stack[Main] \in Seq(PlainFrames(Channels))
        /\ q.blockedOn[Main] = NULL
    BY <1>2, <1>7
  <2>3. <<g>> \o <<>> = <<g>>
    OBVIOUS
  <2>. HIDE DEF c
  <2>4. DirectKill(t, c, q0, tk0)
    BY <2>1, <2>3 DEF DirectKill
  <2>5. /\ \A u \in Tasklets : tk0[u].dir = tk[u].dir
        /\ \A u \in Tasklets \ {t} : tk0[u].exc = tk[u].exc
    BY <1>1 DEF TaskletType
  <2>. HIDE DEF q0, tk0, g
  <2>6. /\ Chosen(t)' /\ tk' = tk0 /\ Moved(q0, q', t)
        /\ \A u \in Tasklets \ {t} : q0.blockedOn[u] = q.blockedOn[u]
    BY <1>1, <2>1, <2>2, <2>4, DirectKillChooses
  <2>7. q'.blockedOn[t] = NULL /\ \A u \in Tasklets \ {t} : q'.blockedOn[u] = q.blockedOn[u]
    BY <2>6 DEF Moved
  <2>8. \A u \in Tasklets \ {Main, t} : Eases(u)
    BY <2>5, <2>6, <2>7 DEF Eases, Frees
  <2>9. Marked(t)' /\ Urgent(t)'
    BY <2>6, <2>7 DEF Marked, Urgent
  <2>. QED
    BY <1>3, <2>8, <2>9
<1>. QED
  BY <1>4, <1>5, <1>6, <1>7

LEMMA KillsStrike ==
    ASSUME Control(Channels), OwnFrames, Gentle, Unmixed, Books, Struck, [ChannelNext]_vars, ~RunSwitches,
           ClearKills \/ \E t \in Tasklets : \E pending \in BOOLEAN : Kill(t, pending)
    PROVE  Struck'
<1>0. Flat
  BY DEF Gentle
<1>1. ASSUME NEW t \in Tasklets, NEW pending \in BOOLEAN, Kill(t, pending) PROVE Struck'
  <2>. DEFINE op == IF pending THEN "kill_pending" ELSE "kill"
  <2>1. Calls(op) /\ t # Main /\ KillTasklet(t, pending, <<>>) /\ mgr' = mgr
    BY <1>1 DEF Kill
  <2>2. ~pending => active = Main
    BY <2>1, CallIsMade DEF CalledBy, Gentle
  <2>3. pending => ~Forced
    BY <2>1 DEF Calls, AllOps, Unmixed
  <2>4. Local
    BY <2>1, LocalMoves
  <2>. HIDE DEF op
  <2>5. /\ stack[active] \in Seq(PlainFrames(Channels))
        /\ active = Main => q.blockedOn[Main] = NULL
    BY <2>1, CallIsQuiet
  <2>. QED
    BY <2>1, <2>2, <2>3, <2>4, <2>5, KillTaskletStrikes
<1>2. ASSUME ClearKills PROVE Struck'
  <2>. DEFINE t == Head(ToBeCleared)
  <2>1. AtClear /\ ToBeCleared # <<>> /\ KillTasklet(t, FALSE, <<>>) /\ mgr' = mgr
    BY <1>2 DEF ClearKills
  <2>2. /\ active = Main /\ stack[active] \in Seq(PlainFrames(Channels))
        /\ stack[active] \in Rests(Channels, active) /\ Top \in ClearFrames
        /\ stack[active] # <<>>
    BY <2>1, ClearedByMain DEF OwnFrames, ClearFrames, AtClear
  <2>3. Head(Top.todo) \in Channels /\ Top.k = "Clear"
    BY <2>2 DEF ClearFrames
  <2>4. ~Listed(active) /\ q.blockedOn[Main] = NULL
    BY <2>2, <2>3, CallerIsFree DEF Top
  <2>5. t \in Tasklets /\ Listed(t)
    <3>1. \A c \in Channels :
             /\ ch[c].send # <<>> => Head(ch[c].send) \in Tasklets /\ Listed(Head(ch[c].send))
             /\ ch[c].recv # <<>> => Head(ch[c].recv) \in Tasklets /\ Listed(Head(ch[c].recv))
      BY FrontWaits DEF Books, Listed, B!Waits
    <3>. QED
      BY <2>1, <2>3, <3>1 DEF ToBeCleared
  <2>. HIDE DEF t
  <2>6. t # Main /\ Local
    BY <1>2, <2>2, <2>4, <2>5, LocalSteps DEF ChannelSteps
  <2>. QED
    BY <2>1, <2>2, <2>4, <2>5, <2>6, KillTaskletStrikes
<1>. QED
  BY <1>1, <1>2

(* A kill that fails marks its victim again.  The victim has begun: it is    *)
(* either dead, or in the middle of Yield without its exception.             *)
LEMMA KillReturnsStrikes ==
    ASSUME Control(Channels), OwnFrames, Gentle, Unmixed, Books, Strikes, [ChannelNext]_vars, ~RunSwitches,
           KillReturns
    PROVE  Struck'
<1>1. /\ stack[active] # <<>> /\ Top.k = "Kill" /\ Return(ret)
      /\ q' = IF ret \in Errors /\ Top.c # NULL THEN Block(q, Top.t, Top.c) ELSE q
      /\ tk' = tk /\ gl' = gl
  BY DEF KillReturns, AtThen
<1>2. stack[active] \in Rests(Channels, active) /\ Top \in PlainFrames(Channels)
      /\ stack[active] \in Seq(PlainFrames(Channels))
  BY <1>1, RestOfACall DEF Limited
<1>3. Top.t \in Tasklets /\ Top.c \in Channels \cup {NULL}
  BY <1>1, <1>2 DEF PlainFrames
<1>4. Local /\ Struck
  BY <1>1, LocalMoves DEF Strikes
<1>5. active = Main /\ Top.t # Main /\ Forced
  <2>1. Owns(Tasklets, active, Top)
    BY <1>1, <1>2, OwnTogether DEF OwnFrames, OwnedFrames, Control, Types, Top
  <2>. QED
    BY <1>1, <2>1 DEF Owns, Gentle, Forced
<1>6. CASE ~(ret \in Errors /\ Top.c # NULL)
  <2>1. q' = q
    BY <1>1, <1>6
  <2>2. \A u \in Tasklets \ {Main} : Eases(u)
    BY <1>1, <2>1 DEF Eases, Frees
  <2>. QED
    BY <1>2, <1>4, <2>2, CallStrikes
<1>7. CASE ret \in Errors /\ Top.c # NULL
  <2>1. PICK t \in Tasklets \ {Main}, c \in Channels : t = Top.t /\ c = Top.c
    BY <1>3, <1>5, <1>7
  <2>2. Freed(q, q', t, c)
    <3>1. q' = Block(q, t, c)
      BY <1>1, <1>7, <2>1
    <3>. QED
      BY <3>1, BlocksFree DEF Control, Types, QueueFits
  <2>3. \A u \in Tasklets \ {Main, t} : Eases(u)
    BY <1>1, <2>2 DEF Freed, Eases, Frees
  <2>4. t \in Begun
    <3>1. Owns(Begun, active, Top)
      BY <1>1, <1>2, <1>5, OwnTogether DEF Strikes, OwnedFrames, Control, Types, Top
    <3>. QED
      BY <1>1, <1>7, <2>1, <3>1 DEF Owns
  <2>5. stack'[t] = stack[t] /\ active' = Main
    BY <1>4, <1>5, <2>1, LocalStays
  <2>6. gl[t].state = "started" => tk[t].exc = "none"
    BY <1>2, <1>4, <1>5, <2>1, NotSwitching DEF Struck, Urgent
  <2>7. gl[t].state = "started" => stack[t] # <<>> /\ Head(stack[t]).k = "Yield"
    BY <1>5, <2>1 DEF Books, Sound, Control, Suspended, AtYield, TopIs
  <2>8. Stray(t)'
    BY <1>1, <1>5, <2>1, <2>4, <2>5, <2>6, <2>7 DEF Begun, Stray, Still, Failing, Forced
  <2>9. Marked(t)' /\ Urgent(t)'
    BY <1>1, <2>6, <2>8 DEF Marked, Urgent
  <2>. QED
    BY <1>2, <1>4, <2>3, <2>9, CallStrikes
<1>. QED
  BY <1>6, <1>7

(* A send or receive, or the rest of one, raises no exception elsewhere. *)
LEMMA TransferStrikes ==
    ASSUME Control(Channels), Gentle, Unmixed, Struck, [ChannelNext]_vars, ~RunSwitches,
           stack[active] \in Rests(Channels, active), Local,
           \A t \in Tasklets \ {Main} :
              /\ tk'[t].exc = tk[t].exc
              /\ (Frees(t) /\ tk'[t].dir = tk[t].dir) \/ Marked(t)'
    PROVE  Struck'
<1>1. ASSUME NEW t \in Tasklets \ {Main} PROVE Eases(t) \/ (Marked(t)' /\ Urgent(t)')
  <2>1. Ages(t) /\ ~Chosen(t) /\ ~(active = t /\ AtYield(t, "in"))
    BY NobodyBegins, NotSwitching DEF AtYield
  <2>2. Urgent(t)'
    BY <2>1 DEF Struck, Urgent, Ages
  <2>. QED
    BY <2>2 DEF Eases
<1>. QED
  BY <1>1, CallStrikes

(* Whom a send or receive wakes is not marked any more. *)
LEMMA WakingFrees ==
    ASSUME Control(Channels), Books, NEW op, Calls(op), NEW r \in Tasklets,
           q' = PartnerRunsNext(r, active) \/ q' = InsertTasklet(Unblock(q, r), r)
    PROVE  q'.blockedOn[r] = NULL /\ \A u \in Tasklets : Frees(u)
<1>1. Q!Good(q) /\ q.current = active /\ active \in Tasklets /\ q.scheduled[active]
  BY CallIsQuiet, CallerIsQueued
<1>. DEFINE q1 == Unblock(q, r)
            q2 == InsertTasklet(q1, r)
            q3 == InsertTaskletToRunNext(q1, r)
<1>2. Freed(q, q1, r, NULL)
  BY <1>1, BlocksFree
<1>3. q' = SetReschedule(q3, active, "BACK") \/ q' = q2
  BY DEF PartnerRunsNext
<1>. HIDE DEF q1
<1>4. Inserted(q1, q2, r) /\ Inserted(q1, q3, r)
  <2>1. Q!Good(q1) /\ q1.scheduled[q1.current]
    BY <1>1, <1>2 DEF Freed
  <2>. QED
    BY <2>1, InsertsInsert
<1>. HIDE DEF q2, q3
<1>5. Flagged(q3, q', active, "BACK") \/ q' = q2
  BY <1>1, <1>3, <1>4, MarksFlag DEF Inserted, RescheduleType
<1>6. \A y : Inserted(q1, y, r) =>
         /\ y.blockedOn[r] = NULL
         /\ \A u \in Tasklets : y.blockedOn[u] \in {q.blockedOn[u], NULL}
  BY <1>2 DEF Freed, Inserted
<1>. QED
  BY <1>4, <1>5, <1>6 DEF Flagged, Frees

LEMMA SendStrikes ==
    ASSUME Control(Channels), Gentle, Unmixed, Books, Struck, [ChannelNext]_vars, ~RunSwitches,
           NEW c \in Channels, NEW exception \in BOOLEAN, Send(c, exception)
    PROVE  Struck'
<1>. DEFINE t == q.current
            m == [from |-> t, exception |-> exception]
<1>1. PICK op : Calls(op)
  BY DEF Send
<1>2. SendRefused(c, m) \/ SendBlocks(c, m) \/ SendDelivers(c, m)
  BY DEF Send
<1>3. /\ t = active /\ active \in Tasklets /\ tk \in [Tasklets -> TaskletType] /\ Q!Good(q)
      /\ stack[active] \in Rests(Channels, active)
  BY <1>1, CallIsQuiet
<1>4. Local
  BY LocalSteps DEF ChannelCalls
<1>. HIDE DEF m
<1>5. ASSUME SendRefused(c, m) PROVE Struck'
  <2>1. q' = q /\ tk' = [tk EXCEPT ![t].transfer = TRUE]
    BY <1>5 DEF SendRefused
  <2>2. \A u \in Tasklets : tk'[u].dir = tk[u].dir /\ tk'[u].exc = tk[u].exc
    BY <1>3, <2>1 DEF TaskletType
  <2>. QED
    BY <1>3, <1>4, <2>1, <2>2, TransferStrikes DEF Frees
<1>6. ASSUME SendBlocks(c, m) PROVE Struck'
  <2>. DEFINE tk0 == [tk EXCEPT ![t].transfer = TRUE, ![t].dir = "SENDER", ![t].args = m]
  <2>1. q' = Block(q, active, c) /\ tk' = tk0
    BY <1>3, <1>6 DEF SendBlocks, Yield
  <2>2. /\ \A u \in Tasklets : /\ tk0[u].exc = tk[u].exc
                               /\ u # active => tk0[u].dir = tk[u].dir
        /\ tk0[active].dir = "SENDER"
    BY <1>3 DEF TaskletType
  <2>. HIDE DEF tk0
  <2>3. Freed(q, q', active, c)
    BY <1>3, <2>1, BlocksFree
  <2>4. ASSUME NEW u \in Tasklets \ {Main}
        PROVE  /\ tk'[u].exc = tk[u].exc
               /\ (Frees(u) /\ tk'[u].dir = tk[u].dir) \/ Marked(u)'
    <3>1. CASE u = active
      BY <2>1, <2>2, <3>1 DEF Marked
    <3>2. CASE u # active
      BY <2>1, <2>2, <2>3, <3>2 DEF Freed, Frees
    <3>. QED
      BY <3>1, <3>2
  <2>. QED
    BY <1>3, <1>4, <2>4, TransferStrikes
<1>7. ASSUME SendDelivers(c, m) PROVE Struck'
  <2>. DEFINE r == Head(ch[c].recv)
              handed == [tk EXCEPT ![t].transfer = TRUE, ![r].dir = "NEITHER", ![r].args = m]
              over == [handed EXCEPT ![t].transfer = FALSE]
  <2>1. /\ ch[c].recv # <<>>
        /\ \/ Yield(PartnerRunsNext(r, t), handed, <<Rest("Send.delivered", t, c)>>)
           \/ q' = InsertTasklet(Unblock(q, r), r) /\ tk' = over
    BY <1>7 DEF SendDelivers
  <2>2. r \in Tasklets
    BY <2>1, FrontWaits DEF Books
  <2>. HIDE DEF r
  <2>3. \A y : y = handed \/ y = over =>
           \A u \in Tasklets : /\ y[u].exc = tk[u].exc
                               /\ u # r => y[u].dir = tk[u].dir
    BY <1>3, <2>2 DEF TaskletType
  <2>. HIDE DEF handed, over
  <2>4. \/ q' = PartnerRunsNext(r, active) /\ tk' = handed
        \/ q' = InsertTasklet(Unblock(q, r), r) /\ tk' = over
    BY <1>3, <2>1 DEF Yield
  <2>5. q'.blockedOn[r] = NULL /\ \A u \in Tasklets : Frees(u)
    BY <1>1, <2>2, <2>4, WakingFrees
  <2>6. ASSUME NEW u \in Tasklets \ {Main}
        PROVE  /\ tk'[u].exc = tk[u].exc
               /\ (Frees(u) /\ tk'[u].dir = tk[u].dir) \/ Marked(u)'
    <3>1. tk'[u].exc = tk[u].exc /\ (u # r => tk'[u].dir = tk[u].dir)
      BY <2>3, <2>4
    <3>2. u = r => Marked(u)'
      BY <2>5 DEF Marked
    <3>. QED
      BY <2>5, <3>1, <3>2
  <2>. QED
    BY <1>3, <1>4, <2>6, TransferStrikes
<1>. QED
  BY <1>2, <1>5, <1>6, <1>7

LEMMA ReceiveStrikes ==
    ASSUME Control(Channels), Gentle, Unmixed, Books, Struck, [ChannelNext]_vars, ~RunSwitches,
           NEW c \in Channels, Receive(c)
    PROVE  Struck'
<1>. DEFINE t == q.current
<1>1. Calls("receive") /\ (ReceiveRefused(c) \/ ReceiveBlocks(c) \/ ReceiveTakes(c))
  BY DEF Receive
<1>2. /\ t = active /\ active \in Tasklets /\ tk \in [Tasklets -> TaskletType] /\ Q!Good(q)
      /\ stack[active] \in Rests(Channels, active) /\ tk[active].dir = "NEITHER"
  BY <1>1, CallIsQuiet
<1>3. Local
  BY LocalSteps DEF ChannelCalls
<1>4. ASSUME ReceiveRefused(c) PROVE Struck'
  <2>1. q' = q /\ tk' = [tk EXCEPT ![t].transfer = FALSE, ![t].dir = "NEITHER"]
    BY <1>4 DEF ReceiveRefused
  <2>2. \A u \in Tasklets : tk'[u].dir = tk[u].dir /\ tk'[u].exc = tk[u].exc
    BY <1>2, <2>1 DEF TaskletType
  <2>. QED
    BY <1>2, <1>3, <2>1, <2>2, TransferStrikes DEF Frees
<1>5. ASSUME ReceiveBlocks(c) PROVE Struck'
  <2>. DEFINE tk0 == [tk EXCEPT ![t].transfer = TRUE, ![t].dir = "RECEIVER"]
  <2>1. q' = Block(q, active, c) /\ tk' = tk0
    BY <1>2, <1>5 DEF ReceiveBlocks, Yield
  <2>2. /\ \A u \in Tasklets : /\ tk0[u].exc = tk[u].exc
                               /\ u # active => tk0[u].dir = tk[u].dir
        /\ tk0[active].dir = "RECEIVER"
    BY <1>2 DEF TaskletType
  <2>. HIDE DEF tk0
  <2>3. Freed(q, q', active, c)
    BY <1>2, <2>1, BlocksFree
  <2>4. ASSUME NEW u \in Tasklets \ {Main}
        PROVE  /\ tk'[u].exc = tk[u].exc
               /\ (Frees(u) /\ tk'[u].dir = tk[u].dir) \/ Marked(u)'
    <3>1. CASE u = active
      BY <2>1, <2>2, <3>1 DEF Marked
    <3>2. CASE u # active
      BY <2>1, <2>2, <2>3, <3>2 DEF Freed, Frees
    <3>. QED
      BY <3>1, <3>2
  <2>. QED
    BY <1>2, <1>3, <2>4, TransferStrikes
<1>6. ASSUME ReceiveTakes(c) PROVE Struck'
  <2>. DEFINE s == Head(ch[c].send)
              moved == [tk EXCEPT ![t].transfer = TRUE, ![t].args = tk[s].args,
                                  ![s].transfer = FALSE, ![s].dir = "NEITHER", ![s].args = NULL]
              over == Taken(t, moved)
  <2>1. /\ ch[c].send # <<>>
        /\ \/ Yield(PartnerRunsNext(s, t), moved, <<Rest("Receive.taken", t, c)>>)
           \/ q' = InsertTasklet(Unblock(q, s), s) /\ tk' = over
    BY <1>6 DEF ReceiveTakes
  <2>2. s \in Tasklets
    BY <2>1, FrontWaits DEF Books
  <2>. HIDE DEF s
  <2>3. \A y : y = moved \/ y = over =>
           \A u \in Tasklets : /\ y[u].exc = tk[u].exc
                               /\ u # s => y[u].dir = tk[u].dir
    <3>1. \A u \in Tasklets : /\ moved[u].exc = tk[u].exc
                              /\ u # s => moved[u].dir = tk[u].dir
      BY <1>2, <2>2 DEF TaskletType
    <3>2. \A u \in Tasklets : over[u].exc = moved[u].exc /\ over[u].dir = moved[u].dir
      <4>1. moved = [u \in Tasklets |-> moved[u]]
        BY <1>2
      <4>2. DOMAIN moved[t] = DOMAIN tk[t]
        BY <1>2, <2>2 DEF TaskletType
      <4>. HIDE DEF moved
      <4>. QED
        BY <1>2, <4>1, <4>2 DEF Taken, TaskletType
    <3>. QED
      BY <3>1, <3>2
  <2>. HIDE DEF moved, over
  <2>4. \/ q' = PartnerRunsNext(s, active) /\ tk' = moved
        \/ q' = InsertTasklet(Unblock(q, s), s) /\ tk' = over
    BY <1>2, <2>1 DEF Yield
  <2>5. q'.blockedOn[s] = NULL /\ \A u \in Tasklets : Frees(u)
    BY <1>1, <2>2, <2>4, WakingFrees
  <2>6. ASSUME NEW u \in Tasklets \ {Main}
        PROVE  /\ tk'[u].exc = tk[u].exc
               /\ (Frees(u) /\ tk'[u].dir = tk[u].dir) \/ Marked(u)'
    <3>1. tk'[u].exc = tk[u].exc /\ (u # s => tk'[u].dir = tk[u].dir)
      BY <2>3, <2>4
    <3>2. u = s => Marked(u)'
      BY <2>5 DEF Marked
    <3>. QED
      BY <2>5, <3>1, <3>2
  <2>. QED
    BY <1>2, <1>3, <2>6, TransferStrikes
<1>. QED
  BY <1>1, <1>4, <1>5, <1>6

(* Who gives up its send or receive is not marked any more. *)
LEMMA RestsStrike ==
    ASSUME Control(Channels), Gentle, Unmixed, Struck, [ChannelNext]_vars, ~RunSwitches,
           SendReturns \/ SendDeliveredReturns \/ ReceiveReturns \/ ReceiveTakenReturns
    PROVE  Struck'
<1>1. PICK k \in ChannelRests : AtThen(k)
  BY DEF SendReturns, SendDeliveredReturns, ReceiveReturns, ReceiveTakenReturns, ChannelRests
<1>2. stack[active] \in Rests(Channels, active) /\ Top.t \in Tasklets
  BY <1>1, RestOnTop DEF ChannelRests
<1>3. Local
  BY LocalSteps DEF ChannelSteps
<1>4. PICK a \in Tasklets : a = Top.t
  BY <1>2
<1>5. tk \in [Tasklets -> TaskletType] /\ Q!Good(q)
  BY DEF Control, Types, TaskletsFit, QueueFits
<1>6. \/ q' = q /\ tk' \in {tk, [tk EXCEPT ![a].transfer = FALSE], Taken(a, tk)}
      \/ q' = Unblock(q, a) /\ tk' = Withdrawn(a)
  BY <1>4 DEF SendReturns, SendDeliveredReturns, ReceiveReturns, ReceiveTakenReturns
<1>7. CASE q' = q /\ tk' \in {tk, [tk EXCEPT ![a].transfer = FALSE], Taken(a, tk)}
  <2>1. \A u \in Tasklets : tk'[u].dir = tk[u].dir /\ tk'[u].exc = tk[u].exc
    BY <1>5, <1>7 DEF Taken, TaskletType
  <2>. QED
    BY <1>2, <1>3, <1>7, <2>1, TransferStrikes DEF Frees
<1>8. CASE q' = Unblock(q, a) /\ tk' = Withdrawn(a)
  <2>1. \A u \in Tasklets : tk'[u].exc = tk[u].exc /\ (u # a => tk'[u].dir = tk[u].dir)
    BY <1>5, <1>8 DEF Withdrawn, TaskletType
  <2>2. Freed(q, q', a, NULL)
    BY <1>5, <1>8, BlocksFree
  <2>3. \A u \in Tasklets : u = a => Marked(u)'
    BY <2>2 DEF Freed, Marked
  <2>4. \A u \in Tasklets \ {a} : Frees(u)
    BY <2>2 DEF Freed, Frees
  <2>. QED
    BY <1>2, <1>3, <2>1, <2>3, <2>4, TransferStrikes
<1>. QED
  BY <1>6, <1>7, <1>8

LEMMA QuietChannelCallsStrike ==
    ASSUME Control(Channels), Gentle, Unmixed, Struck, [ChannelNext]_vars, ~RunSwitches,
           \/ (\E c \in Channels : Clear(c)) \/ UnblockAllActiveChannels
           \/ \E c \in Channels : Close(c) \/ Open(c) \/ \E p \in Direction : SetPreference(c, p)
           \/ \E value \in BOOLEAN : SetBlocktrap(value)
    PROVE  Struck'
<1>1. \E op : Calls(op)
  BY DEF Clear, UnblockAllActiveChannels, Close, Open, SetPreference, SetBlocktrap
<1>2. stack[active] \in Rests(Channels, active) /\ active \in Tasklets
  BY <1>1, CallIsMade
<1>3. Local
  BY LocalSteps DEF ChannelCalls
<1>4. q' = q /\ (tk' = tk \/ \E value \in BOOLEAN : tk' = [tk EXCEPT ![active].blockTrap = value])
  BY DEF Clear, UnblockAllActiveChannels, Close, Open, SetPreference, SetBlocktrap
<1>5. tk \in [Tasklets -> TaskletType]
  BY DEF Control, Types, TaskletsFit
<1>6. \A u \in Tasklets : tk'[u].dir = tk[u].dir /\ tk'[u].exc = tk[u].exc
  BY <1>4, <1>5 DEF TaskletType
<1>. QED
  BY <1>2, <1>3, <1>4, <1>6, TransferStrikes DEF Frees

(* Steps back from a call that leave the tasklets and the queue alone. *)
LEMMA PlainReturnsStrike ==
    ASSUME Control(Channels), OwnFrames, Gentle, Unmixed, Struck, [ChannelNext]_vars, ~RunSwitches,
           ClearGoesOn \/ ClearTurns \/ ClearEnds \/ LimitedRunReturns \/ YieldMainReturns
    PROVE  Struck'
<1>1. q' = q /\ tk' = tk
  BY DEF ClearGoesOn, ClearTurns, ClearEnds, LimitedRunReturns, YieldMainReturns
<1>2. stack[active] # <<>> /\ Top.k \notin {"Run", "Yield"}
  BY DEF ClearGoesOn, ClearTurns, ClearEnds, LimitedRunReturns, YieldMainReturns, AtClear, AtThen
<1>3. stack[active] \in Rests(Channels, active)
  BY <1>2, RestOfACall
<1>4. Local
  <2>1. \A r : Return(r) => Local
    BY LocalMoves
  <2>2. ClearEnds \/ LimitedRunReturns \/ YieldMainReturns => \E r : Return(r)
    BY DEF ClearEnds, LimitedRunReturns, YieldMainReturns
  <2>3. ClearGoesOn \/ ClearTurns => Local
    BY LocalSteps DEF ChannelSteps
  <2>. QED
    BY <2>1, <2>2, <2>3
<1>. QED
  BY <1>1, <1>3, <1>4, TransferStrikes DEF Frees

(* The loop of the main tasklet, when it does not switch. *)
LEMMA LoopStrikes ==
    ASSUME Control(Channels), Gentle, Unmixed, Struck, [ChannelNext]_vars, ~RunSwitches,
           active = Main, Local, \A t : ~Chosen(t), \A t \in Tasklets \ {Main} : Eases(t)
    PROVE  Struck'
<1>1. active' = Main /\ \A u \in Tasklets \ {active, Main} : stack'[u] = stack[u]
  BY LocalStays
<1>2. \A t \in Tasklets \ {Main} : Ages(t)
  BY NobodyBegins
<1>. QED
  BY <1>1, <1>2, StepStrikes

LEMMA RunEndsStrikes ==
    ASSUME Control(Channels), Gentle, Unmixed, Books, Struck, [ChannelNext]_vars, ~RunSwitches,
           RunEnds \/ RunCannotAdopt
    PROVE  Struck'
<1>1. /\ stack[active] # <<>> /\ Top.k = "Run" /\ Top.pc = "head" /\ q' = q /\ tk' = tk
      /\ \E r \in {"ok", "Error"} : Return(r)
  BY DEF RunEnds, RunCannotAdopt, AtFrame
<1>2. /\ active = Main /\ q.current = Main /\ Top.base = Main /\ Head(stack[Main]) = Top
      /\ gl[Main].parent = NULL
  BY <1>1, InTheLoop DEF Books, MainSound
<1>3. RunIsOver(Top)
  <2>. SUFFICES ASSUME RunCannotAdopt, ~RunIsOver(Top) PROVE FALSE
    BY DEF RunEnds
  <2>1. q.next[Main] \in Tasklets \ {Main}
    <3>1. q.next[Main] # NULL
      BY <1>2 DEF RunIsOver
    <3>. QED
      BY <3>1, GoodQueue DEF Control, Types, QueueFits
  <2>2. q.next[Main] \in Lineage(gl, Main)
    BY <1>2 DEF RunCannotAdopt, RefusesParent
  <2>. QED
    BY <1>2, <2>1, <2>2, NoneAboveMain
<1>4. \A t : ~Chosen(t)
  BY <1>2, <1>3 DEF Chosen
<1>5. Local /\ \A t \in Tasklets \ {Main} : Eases(t)
  BY <1>1, LocalMoves DEF Eases, Frees
<1>. QED
  BY <1>2, <1>4, <1>5, LoopStrikes

LEMMA RunFailsStrikes ==
    ASSUME Control(Channels), Gentle, Unmixed, Books, Struck, [ChannelNext]_vars, ~RunSwitches, RunFails
    PROVE  Struck'
<1>1. stack[active] # <<>> /\ Top.k = "Run" /\ Top.pc = "out" /\ Return(ret)
  BY DEF RunFails, AtFrame
<1>2. /\ active = Main /\ Top.sw \in Tasklets \ {Main} /\ tk[Top.sw].parent = Main
      /\ Main \in Tasklets /\ Main # NULL
  BY <1>1, InTheLoop, MainAssumption, NullAssumption
<1>3. PICK x \in Tasklets \ {Main} : x = Top.sw
  BY <1>2
<1>4. \A t : ~Chosen(t)
  BY <1>1, BooksInTheLoop
<1>5. q'.blockedOn = q.blockedOn
  <2>1. CASE tk[x].remove
    <3>. DEFINE c == SetCurrentTasklet(q, Main)
    <3>1. q' = RemoveTasklet(c, x)
      BY <1>2, <1>3, <2>1 DEF RunFails
    <3>2. Q!Good(c) /\ c.blockedOn = q.blockedOn
      BY <1>2, SetsCurrent DEF Control, Types, QueueFits
    <3>. HIDE DEF c
    <3>3. Removed(c, q', x)
      BY <3>1, <3>2, RemoveRemoves
    <3>. QED
      BY <3>2, <3>3 DEF Removed
  <2>2. CASE ~tk[x].remove
    <3>1. q' = q
      BY <1>3, <2>2 DEF RunFails
    <3>. QED
      BY <3>1
  <2>. QED
    BY <2>1, <2>2
<1>6. tk' = tk \/ tk' = [tk EXCEPT ![x].parent = NULL]
  <2>1. CASE tk[x].remove
    BY <1>3, <2>1 DEF RunFails
  <2>2. CASE ~tk[x].remove
    BY <1>3, <2>2 DEF RunFails
  <2>. QED
    BY <2>1, <2>2
<1>7. \A u \in Tasklets : tk'[u].dir = tk[u].dir /\ tk'[u].exc = tk[u].exc
  <2>1. tk \in [Tasklets -> TaskletType]
    BY DEF Control, Types, TaskletsFit
  <2>. QED
    BY <1>6, <2>1 DEF TaskletType
<1>8. Local /\ \A t \in Tasklets \ {Main} : Eases(t)
  BY <1>1, <1>5, <1>7, LocalMoves DEF Eases, Frees
<1>. QED
  BY <1>2, <1>4, <1>8, LoopStrikes

LEMMA RunContinuesStrikes ==
    ASSUME Control(Channels), Gentle, Unmixed, Books, Struck, [ChannelNext]_vars, ~RunSwitches, RunContinues
    PROVE  Struck'
<1>1. /\ stack[active] # <<>> /\ Top.k = "Run" /\ Top.pc = "out"
      /\ tk' = [tk EXCEPT ![Top.sw].exc = IF ret = "TaskletExit" THEN "none" ELSE @,
                          ![Top.sw].parent = IF tk[Top.sw].alive THEN @ ELSE NULL]
      /\ \E fs : Continue(fs, "none")
  BY DEF RunContinues, AtFrame
<1>2. active = Main /\ \A t : ~Chosen(t)
  BY <1>1, BooksInTheLoop
<1>3. PICK x \in Tasklets \ {Main} : x = Top.sw
  BY RunContinuesKeepsControl
<1>4. CameBack(q, q', x)
  BY <1>3, RunContinuesKeepsControl
<1>5. \A u \in Tasklets : tk'[u].dir = tk[u].dir /\ tk'[u].exc \in {tk[u].exc, "none"}
  <2>1. tk \in [Tasklets -> TaskletType] /\ tk[x] \in TaskletType
    BY DEF Control, Types, TaskletsFit
  <2>. DEFINE e == IF ret = "TaskletExit" THEN "none" ELSE tk[x].exc
              p == IF tk[x].alive THEN tk[x].parent ELSE NULL
  <2>2. tk' = [tk EXCEPT ![x].exc = e, ![x].parent = p] /\ e \in {tk[x].exc, "none"}
    BY <1>1, <1>3
  <2>. HIDE DEF e, p
  <2>. DEFINE v == [tk[x] EXCEPT !.exc = e, !.parent = p]
  <2>3. v.dir = tk[x].dir /\ v.exc = e
    BY <2>1 DEF TaskletType
  <2>4. tk' = [tk EXCEPT ![x] = v]
    BY <2>1, <2>2
  <2>. HIDE DEF v
  <2>. QED
    BY <2>1, <2>2, <2>3, <2>4
<1>6. Local
  BY <1>1 DEF Local
<1>7. \A t \in Tasklets \ {Main} : Eases(t)
  BY <1>4, <1>5 DEF CameBack, Eases, Frees
<1>. QED
  BY <1>2, <1>6, <1>7, LoopStrikes

(* Back from a switch: the exception of the current tasklet is raised, and  *)
(* a tasklet in the middle of Yield that has none stays there.              *)
LEMMA SwitchReturnsStrikes ==
    ASSUME Control(Channels), Gentle, Unmixed, Books, Struck, [ChannelNext]_vars, ~RunSwitches,
           SwitchReturns
    PROVE  Struck'
<1>. DEFINE pending == tk[q.current].exc
            r == IF pending # "none" THEN pending ELSE ret
<1>1. /\ stack[active] # <<>> /\ Top.k \in {"Run", "Yield"} /\ Top.pc = "in" /\ q' = q /\ gl' = gl
      /\ tk' = IF pending # "none" THEN [tk EXCEPT ![q.current].exc = "none"]
               ELSE AfterSwitch(Top.sw, ret)
      /\ Continue(<<[Top EXCEPT !.pc = "out"]>> \o Tail(stack[active]), r)
  BY DEF SwitchReturns, Resumed
<1>. HIDE DEF r
<1>2. /\ active' = active /\ ret' = r /\ stack'[active] # <<>> /\ Head(stack'[active]).k = Top.k
      /\ Head(stack'[active]).pc = "out" /\ \A u \in Tasklets \ {active} : stack'[u] = stack[u]
  BY <1>1, PastTheSwitch
<1>3. active \in Tasklets /\ q.current \in Tasklets /\ Top.sw \in Tasklets
  <2>1. CASE Top.k = "Run"
    BY <1>1, <2>1, InTheLoop, MainAssumption
  <2>2. CASE Top.k = "Yield"
    <3>1. active # Main /\ active \in Tasklets /\ Top \in YieldFrames(active)
      BY <1>1, <2>2, InTheMiddle
    <3>. QED
      BY <1>1, <3>1, RunByMain, MainAssumption DEF YieldFrames
  <2>. QED
    BY <1>1, <2>1, <2>2
<1>4. PICK t \in Tasklets, x \in Tasklets : t = q.current /\ x = Top.sw
  BY <1>3
<1>5. tk'[t].exc = "none" /\ \A u \in Tasklets : tk'[u].dir = tk[u].dir /\ tk'[u].exc \in {tk[u].exc, "none"}
  <2>1. CASE tk[t].exc # "none"
    <3>1. tk \in [Tasklets -> TaskletType]
      BY DEF Control, Types, TaskletsFit
    <3>2. tk' = [tk EXCEPT ![t].exc = "none"]
      BY <1>1, <1>4, <2>1
    <3>. QED
      BY <3>1, <3>2 DEF TaskletType
  <2>2. CASE tk[t].exc = "none"
    <3>. DEFINE y == AfterSwitch(x, ret)
    <3>1. /\ y[x].exc = tk[x].exc /\ y[x].dir = tk[x].dir
          /\ \A u \in Tasklets \ {x} : y[u] = tk[u]
      BY AfterSwitchFlags
    <3>2. tk' = y
      BY <1>1, <1>4, <2>2
    <3>. HIDE DEF y
    <3>. QED
      BY <2>2, <3>1, <3>2
  <2>. QED
    BY <2>1, <2>2
<1>6. \A u \in Tasklets : Eases(u)
  BY <1>1, <1>5 DEF Eases, Frees
<1>7. CASE active = Main
  <2>1. \A u : ~Chosen(u)
    <3>1. Top.k = "Run"
      BY <1>1, <1>7, InTheMiddle
    <3>. QED
      BY <1>1, <3>1, BooksInTheLoop
  <2>2. Local
    BY <1>1 DEF Local
  <2>. QED
    BY <1>6, <1>7, <2>1, <2>2, LoopStrikes
<1>8. CASE active # Main
  <2>1. t = active /\ Top.k = "Yield" /\ gl[t].state = "started"
    BY <1>1, <1>4, <1>8, RunByMain, InTheMiddle
  <2>2. Marked(t)' /\ Urgent(t)'
    <3>1. Marked(t)
      BY <1>8, <2>1 DEF Struck
    <3>2. ASSUME Still(t) PROVE Still(t)'
      <4>1. ret' = ret /\ tk[t].exc = "none"
        BY <1>2, <1>4, <3>2 DEF Still, r
      <4>2. ~AtYield(t, "head")
        BY <1>1, <2>1 DEF AtYield, TopIs, Top
      <4>3. ret \notin Errors
        BY <1>8, <2>1, <3>2, <4>2 DEF Still, Failing
      <4>. QED
        BY <1>2, <1>5, <2>1, <4>1, <4>3 DEF Still, Failing
    <3>3. Stray(t) => Stray(t)'
      BY <1>1, <3>2 DEF Stray, Forced
    <3>. QED
      BY <1>1, <1>5, <3>1, <3>3 DEF Marked, Urgent
  <2>3. ASSUME NEW u \in Tasklets \ {Main, t} PROVE Marked(u)' /\ Urgent(u)'
    <3>1. Still(u) => Still(u)'
      BY <1>2, <1>5, <2>1, <2>3 DEF Still, Failing
    <3>2. Ages(u) /\ ~Chosen(u)
      BY <1>8, NobodyBegins DEF Chosen
    <3>. QED
      BY <1>6, <2>1, <2>3, <3>1, <3>2, Spared DEF Struck
  <2>. QED
    BY <2>2, <2>3 DEF Struck
<1>. QED
  BY <1>7, <1>8

LEMMA YieldSwitchesStrike ==
    ASSUME Control(Channels), Gentle, Unmixed, Struck, [ChannelNext]_vars, ~RunSwitches,
           YieldSwitches \/ YieldStaysBlocked
    PROVE  Struck'
<1>1. stack[active] # <<>> /\ Top.k = "Yield" /\ Top.pc \in {"head", "out"}
  BY DEF YieldSwitches, YieldStaysBlocked, AtFrame
<1>. DEFINE f == [Top EXCEPT !.pc = "in", !.sw = Main]
<1>2. /\ active' = Main /\ active \in Tasklets \ {Main}
      /\ tk' = [tk EXCEPT ![Main].paused = FALSE, ![Main].firstRun = FALSE]
      /\ q' = SetCurrentTasklet(q, Main)
      /\ stack' = [stack EXCEPT ![active] = <<f>> \o Tail(@)]
  BY YieldsToMain DEF Gentle
<1>3. f.k = "Yield"
  <2>1. Top \in YieldFrames(active)
    BY <1>1, <1>2, InTheMiddle
  <2>. QED
    BY <1>1, <2>1 DEF YieldFrames
<1>. HIDE DEF f
<1>4. PICK t \in Tasklets \ {Main} : t = active
  BY <1>2
<1>5. stack'[t] # <<>> /\ Head(stack'[t]).k = "Yield" /\ \A u \in Tasklets \ {t} : stack'[u] = stack[u]
  <2>. DEFINE s == <<f>> \o Tail(stack[t])
  <2>1. stack'[t] = s /\ \A u \in Tasklets \ {t} : stack'[u] = stack[u]
    BY <1>2, <1>4 DEF Control, Stacks
  <2>2. Tail(stack[t]) \in Seq(PlainFrames(Channels) \cup LimitedFrames)
    <3>1. Tail(stack[active]) \in Rests(Channels, active)
      BY <1>1, InTheMiddle
    <3>. QED
      BY <1>4, <3>1, SeqMonotonic DEF Rests
  <2>3. s # <<>> /\ Head(s) = f
    BY <2>2, PutOnTop
  <2>. HIDE DEF s
  <2>. QED
    BY <1>3, <2>1, <2>3
<1>6. \A u \in Tasklets : Eases(u)
  <2>1. q'.blockedOn = q.blockedOn
    BY <1>2, SetsCurrent, MainAssumption DEF Control, Types, QueueFits
  <2>2. \A u \in Tasklets : tk'[u].dir = tk[u].dir /\ tk'[u].exc = tk[u].exc
    BY <1>2 DEF Control, Types, TaskletsFit, TaskletType
  <2>. QED
    BY <2>1, <2>2 DEF Eases, Frees
<1>7. ASSUME NEW u \in Tasklets \ {Main} PROVE Marked(u)' /\ Urgent(u)'
  <2>1. Still(u) => Still(u)'
    BY <1>2, <1>5, <1>6 DEF Still, Failing, Eases
  <2>2. Ages(u) /\ ~Chosen(u)
    BY <1>2, NobodyBegins DEF Chosen
  <2>3. ~(active = u /\ AtYield(u, "in"))
    BY <1>1 DEF AtYield, TopIs, Top
  <2>. QED
    BY <1>6, <2>1, <2>2, <2>3, Spared DEF Struck
<1>. QED
  BY <1>7 DEF Struck

(* Who comes back from Yield blocked comes back with an exception. *)
LEMMA YieldReturnsStrikes ==
    ASSUME Control(Channels), Gentle, Unmixed, Books, Struck, [ChannelNext]_vars, ~RunSwitches, YieldReturns
    PROVE  Struck'
<1>1. /\ stack[active] # <<>> /\ Top.k = "Yield" /\ Top.pc = "out" /\ Return(ret)
      /\ ret # "ok" \/ ~IsBlocked(q, Top.t)
      /\ q' = q /\ tk' = tk /\ gl' = gl
  BY DEF YieldReturns, AtFrame
<1>2. /\ active # Main /\ active \in Tasklets /\ Top.t = active /\ gl[active].state = "started"
      /\ \A t : ~Chosen(t)
  BY <1>1, InTheMiddle, RunByMain DEF Chosen
<1>3. PICK x \in Tasklets \ {Main} : x = active
  BY <1>2
<1>4. AtYield(x, "out") /\ ~AtYield(x, "head") /\ ~AtYield(x, "in") /\ stack[x] # <<>>
  BY <1>1, <1>3 DEF AtYield, TopIs, Top
<1>5. active' = active /\ \A u \in Tasklets \ {x} : stack'[u] = stack[u]
  BY <1>1, <1>3, SwitchIsOver
<1>6. Marked(x)' /\ Urgent(x)'
  <2>1. q.blockedOn[x] # NULL => ~Still(x)
    <3>1. ret # "none"
      BY <1>3, <1>4 DEF Books, Sound
    <3>2. ret \in {"ok", "none"} \cup Errors
      BY RetIsAnOutcome DEF Outcomes
    <3>3. q.blockedOn[x] # NULL => ret # "ok"
      BY <1>1, <1>2, <1>3 DEF IsBlocked
    <3>. QED
      BY <1>3, <1>4, <3>1, <3>2, <3>3 DEF Still, Failing
  <2>2. Marked(x)'
    BY <1>1, <1>2, <1>3, <2>1 DEF Struck, Marked, Stray
  <2>3. Urgent(x)'
    BY <1>1, <1>2, <1>4 DEF Struck, Urgent, Forced
  <2>. QED
    BY <2>2, <2>3
<1>7. ASSUME NEW u \in Tasklets \ {Main, x} PROVE Marked(u)' /\ Urgent(u)'
  <2>1. Still(u) => Still(u)'
    BY <1>1, <1>3, <1>5 DEF Still, Failing
  <2>2. Ages(u) /\ ~Chosen(u) /\ Eases(u)
    BY <1>1, <1>2, NobodyBegins DEF Eases, Frees
  <2>. QED
    BY <1>3, <2>1, <2>2, Spared DEF Struck
<1>. QED
  BY <1>6, <1>7 DEF Struck

(* The main tasklet switches to the one that is next: if that one is marked *)
(* and does not wait, it is dead or stays in Yield; if it has an exception, *)
(* it is in Yield and about to raise it.                                    *)
LEMMA RunSwitchesStrikes ==
    ASSUME Control(Channels), Gentle, Books, Struck, RunSwitches
    PROVE  Struck' /\ Begun \subseteq Begun'
<1>1. stack[active] # <<>> /\ Top.k = "Run" /\ Top.pc = "head" /\ ~RunIsOver(Top)
  BY DEF RunSwitches, AtFrame
<1>2. /\ active = Main /\ Top.base = Main /\ ~RunsOne /\ q.current = Main
      /\ stack[Main] # <<>> /\ Head(stack[Main]) = Top /\ AtRun("head")
  BY <1>1, InTheLoop DEF AtRun, TopIs
<1>3. /\ QueueFits(Channels, q) /\ TaskletsFit(tk) /\ GreenletsFit(gl) /\ ManagerFits(mgr)
      /\ Main \in Tasklets /\ tk \in [Tasklets -> TaskletType] /\ NoTrap /\ NoThrow
  BY MainAssumption DEF Control, Types, TaskletsFit, Gentle
<1>4. q.next[Main] \in Tasklets \ {Main} /\ q.scheduled[q.next[Main]]
  <2>1. q.next[Main] # NULL
    BY <1>1, <1>2 DEF RunIsOver
  <2>. QED
    BY <1>3, <2>1, GoodQueue DEF QueueFits
<1>5. PICK x \in Tasklets \ {Main} : x = q.next[Main]
  BY <1>4
<1>. DEFINE tk0 == Adopted(tk, x, Main)
            g0 == Parented(gl, x, Main)
<1>6. SwitchTo(Top, x, q, tk0, g0)
  BY <1>2, <1>5 DEF RunSwitches
<1>7. /\ tk0 \in [Tasklets -> TaskletType] /\ tk0[x].firstRun = tk[x].firstRun
      /\ \A u \in Tasklets : tk0[u].dir = tk[u].dir /\ tk0[u].exc = tk[u].exc
  <2>. DEFINE v == [tk[x] EXCEPT !.parent = Main]
  <2>1. tk[x] \in TaskletType
    BY <1>3
  <2>2. /\ v \in TaskletType /\ v.exc = tk[x].exc /\ v.firstRun = tk[x].firstRun /\ v.dir = tk[x].dir
    BY <1>3, <2>1 DEF TaskletType
  <2>3. tk0 = [tk EXCEPT ![x] = v]
    BY DEF Adopted
  <2>. HIDE DEF v, tk0
  <2>. QED
    BY <1>3, <2>1, <2>2, <2>3
<1>8. /\ GreenletsFit(g0) /\ \A u \in Tasklets : g0[u].state = gl[u].state
      /\ g0 \in [Tasklets -> GreenletType]
  <2>1. Main # NULL
    BY <1>3, NullAssumption
  <2>2. /\ g0 \in [Tasklets -> GreenletType] /\ g0[x].parent = Main /\ g0[x].state = gl[x].state
        /\ \A u \in Tasklets : u # x => g0[u] = gl[u]
    BY <1>3, <2>1 DEF Parented, GreenletsFit, GreenletType
  <2>. HIDE DEF g0
  <2>. QED
    BY <1>3, <2>2 DEF GreenletsFit
<1>. HIDE DEF tk0, g0
<1>9. ~IsSwitchTrapped /\ tk[x].exc # "Error" /\ tk[x].exc \in Errors \cup {"none"}
      /\ gl[Main].state = "started" /\ gl \in [Tasklets -> GreenletType]
  BY <1>3 DEF IsSwitchTrapped, ManagerFits, TaskletsFit, TaskletType, GreenletsFit
<1>10. Sound(x) /\ q.scheduled[x] /\ active # x
  BY <1>2, <1>4, <1>5 DEF Books
<1>11. ASSUME \A u \in Tasklets : tk'[u].dir = tk[u].dir /\ tk'[u].exc = tk[u].exc,
              \A u \in Tasklets : q'.blockedOn[u] = q.blockedOn[u],
              \A u \in Tasklets \ {x} : gl'[u].state = gl[u].state,
              gl'[x].state = gl[x].state \/ (gl[x].state # "dead" /\ gl'[x].state = "started"),
              gl'[x].state = "started" =>
                 (tk[x].exc # "none" => active' = x /\ AtYield(x, "in")'),
              \A u \in Tasklets \ {Main} : stack'[u] = stack[u] /\ (active' = u => ret' \notin Errors)
       PROVE  Struck' /\ Begun \subseteq Begun'
  <2>1. Begun \subseteq Begun'
    BY <1>11 DEF Begun
  <2>2. ASSUME NEW u \in Tasklets \ {Main} PROVE Marked(u)'
    <3>1. Still(u) => Still(u)'
      BY <1>11, <2>2 DEF Still, Failing
    <3>2. gl[u].state = "dead" => gl'[u].state = "dead"
      BY <1>11
    <3>. QED
      BY <1>11, <3>1, <3>2 DEF Struck, Marked, Stray, Forced
  <2>3. ASSUME NEW u \in Tasklets \ {Main, x} PROVE Urgent(u)'
    <3>1. ~Chosen(u) /\ ~(active = u /\ AtYield(u, "in"))
      BY <1>2, <1>5, <2>3 DEF Chosen
    <3>. QED
      BY <1>11, <3>1 DEF Struck, Urgent, Forced
  <2>4. Urgent(x)'
    BY <1>11 DEF Urgent
  <2>. QED
    BY <2>1, <2>2, <2>3, <2>4 DEF Struck
<1>12. ASSUME DiesUnstarted(tk0, x) PROVE Struck' /\ Begun \subseteq Begun'
  <2>1. /\ q' = q /\ tk' = DeadUnstarted(tk0, x) /\ gl' = g0
        /\ active' = Main /\ \E fs : stack' = [stack EXCEPT ![active] = fs]
    BY <1>2, <1>6, <1>9, <1>12 DEF SwitchTo, Continue
  <2>2. \A u \in Tasklets : tk'[u].dir = tk[u].dir /\ tk'[u].exc = tk[u].exc
    <3>1. \A u \in Tasklets : tk'[u].dir = tk0[u].dir /\ tk'[u].exc = tk0[u].exc
      BY <1>7, <2>1 DEF DeadUnstarted, TaskletType
    <3>. QED
      BY <1>7, <3>1
  <2>3. gl[x].state # "started"
    BY <1>7, <1>10, <1>12 DEF DiesUnstarted, Sound
  <2>4. \A u \in Tasklets \ {Main} : stack'[u] = stack[u]
    BY <1>2, <2>1 DEF Control, Stacks
  <2>5. /\ \A u \in Tasklets : gl'[u].state = gl[u].state /\ q'.blockedOn[u] = q.blockedOn[u]
        /\ gl'[x].state # "started"
        /\ \A u \in Tasklets \ {Main} : stack'[u] = stack[u] /\ (active' = u => ret' \notin Errors)
    BY <1>8, <2>1, <2>3, <2>4
  <2>. QED
    BY <1>11, <2>2, <2>5
<1>13. ASSUME ~DiesUnstarted(tk0, x) PROVE Struck' /\ Begun \subseteq Begun'
  <2>. DEFINE in == [Top EXCEPT !.pc = "in", !.sw = x]
              to == Landing(g0, x)
  <2>1. ~(tk0[x].firstRun /\ tk0[x].exc = "Error")
    BY <1>7, <1>9
  <2>2. /\ stack' = [stack EXCEPT ![active] = <<in>> \o Tail(@)]
        /\ active' = to /\ ret' \in {"none", "ok"}
        /\ q' = SetCurrentTasklet(q, x)
        /\ tk' = [tk0 EXCEPT ![x].paused = FALSE, ![x].firstRun = FALSE]
        /\ gl' = [g0 EXCEPT ![to].state = "started"]
    BY <1>6, <1>9, <1>13, <2>1 DEF SwitchTo
  <2>3. to = IF gl[x].state = "dead" THEN Main ELSE x
    BY <1>8, LandsOnMain DEF GreenletsFit
  <2>. HIDE DEF in, to
  <2>4. \A u \in Tasklets : tk'[u].dir = tk[u].dir /\ tk'[u].exc = tk[u].exc
    <3>1. \A u \in Tasklets : tk'[u].dir = tk0[u].dir /\ tk'[u].exc = tk0[u].exc
      BY <1>7, <2>2 DEF TaskletType
    <3>. QED
      BY <1>7, <3>1
  <2>5. \A u \in Tasklets : q'.blockedOn[u] = q.blockedOn[u]
    BY <1>3, <2>2, SetsCurrent DEF QueueFits
  <2>6. \A u \in Tasklets : gl'[u].state = IF u = to THEN "started" ELSE gl[u].state
    BY <1>8, <2>2 DEF GreenletType
  <2>7. \A u \in Tasklets \ {Main} : stack'[u] = stack[u]
    BY <1>2, <2>2 DEF Control, Stacks
  <2>8. ASSUME gl[x].state # "dead", tk[x].exc # "none" PROVE active' = x /\ AtYield(x, "in")'
    <3>1. tk[x].exc = "TaskletExit" /\ active' = x
      BY <1>9, <2>2, <2>3, <2>8 DEF Errors
    <3>2. ~tk[x].firstRun
      BY <1>7, <1>13, <3>1 DEF DiesUnstarted
    <3>3. gl[x].state = "started"
      BY <1>9, <1>10, <2>8, <3>2 DEF Sound, GreenletType
    <3>4. stack[x] # <<>> /\ AtYield(x, "in")
      BY <1>2, <1>10, <3>3 DEF Sound, Control, Suspended
    <3>. QED
      BY <2>7, <3>1, <3>4 DEF AtYield, TopIs
  <2>9. \A u \in Tasklets \ {x} : gl'[u].state = gl[u].state
    BY <1>9, <2>3, <2>6
  <2>10. gl[x].state = "dead" => gl'[x].state = gl[x].state
    BY <2>3, <2>6
  <2>11. gl[x].state # "dead" => gl'[x].state = "started"
    BY <2>3, <2>6
  <2>12. \A u \in Tasklets \ {Main} : stack'[u] = stack[u] /\ (active' = u => ret' \notin Errors)
    BY <2>2, <2>7 DEF Errors
  <2>. QED
    BY <1>11, <2>4, <2>5, <2>8, <2>9, <2>10, <2>11, <2>12
<1>. QED
  BY <1>12, <1>13

LEMMA StutterStrikes ==
    ASSUME Struck, UNCHANGED vars
    PROVE  Struck'
<1>1. /\ q' = q /\ tk' = tk /\ gl' = gl /\ stack' = stack /\ active' = active /\ ret' = ret /\ mgr' = mgr
  BY DEF vars
<1>2. \A t, pc : AtYield(t, pc)' = AtYield(t, pc)
  BY <1>1 DEF AtYield, TopIs
<1>3. \A t : Chosen(t)' = Chosen(t)
  BY <1>1 DEF Chosen, AtRun, TopIs, RunIsOver
<1>4. \A t : Stray(t)' = Stray(t)
  <2>1. \A t : Failing(t)' = Failing(t)
    BY <1>1, <1>2 DEF Failing
  <2>2. \A t : Still(t)' = Still(t)
    BY <1>1, <2>1 DEF Still
  <2>. QED
    BY <1>1, <2>2, Zenon DEF Stray, Forced
<1>. QED
  BY <1>1, <1>2, <1>3, <1>4 DEF Struck, Marked, Urgent

LEMMA PythonStrikes ==
    ASSUME Control(Channels), Control(Channels)', OwnFrames, Gentle, Unmixed, Books, Struck,
           [ChannelNext]_vars, ~RunSwitches, Python
    PROVE  Struck'
<1>1. CASE Finish \/ Raise \/ Propagate \/ Swallow
  BY <1>1, DeathsStrike
<1>2. CASE \E t \in Tasklets, pending \in BOOLEAN : Kill(t, pending)
  BY <1>2, KillsStrike
<1>. QED
  BY <1>1, <1>2, QuietCallsStrike

LEMMA SchedulerStrikes ==
    ASSUME Control(Channels), OwnFrames, Gentle, Unmixed, Books, Strikes, [ChannelNext]_vars,
           ~RunSwitches, Scheduler
    PROVE  Struck'
<1>1. Struck
  BY DEF Strikes
<1>2. ~SwitchYields /\ ~SwitchReturnsToCaller
  BY SwitchIsNotCalled
<1>3. CASE RunEnds \/ RunCannotAdopt
  BY <1>1, <1>3, RunEndsStrikes
<1>4. CASE YieldSwitches \/ YieldStaysBlocked
  BY <1>1, <1>4, YieldSwitchesStrike
<1>5. CASE YieldMainReturns \/ LimitedRunReturns
  BY <1>1, <1>5, PlainReturnsStrike
<1>. QED
  BY <1>1, <1>2, <1>3, <1>4, <1>5, SwitchReturnsStrikes, RunContinuesStrikes, RunFailsStrikes,
     YieldReturnsStrikes, KillReturnsStrikes DEF Scheduler

LEMMA ChannelNextKeepsStruck ==
    ASSUME Control(Channels), OwnFrames, Gentle, Unmixed, Books, Strikes, [ChannelNext]_vars
    PROVE  Struck'
<1>1. Flat /\ NoThrow /\ Struck
  BY DEF Gentle, Strikes
<1>2. Control(Channels)'
  BY <1>1, ChannelNextKeepsControl
<1>3. ASSUME RunSwitches PROVE Struck'
  BY <1>1, <1>3, RunSwitchesStrikes
<1>4. ASSUME ~RunSwitches, Python PROVE Struck'
  BY <1>1, <1>2, <1>4, PythonStrikes
<1>5. ASSUME ~RunSwitches, Scheduler PROVE Struck'
  BY <1>5, SchedulerStrikes
<1>6. ASSUME UNCHANGED vars PROVE Struck'
  BY <1>1, <1>6, StutterStrikes
<1>7. ASSUME ~RunSwitches, ChannelCalls PROVE Struck'
  BY <1>1, <1>7, SendStrikes, ReceiveStrikes, QuietChannelCallsStrike DEF ChannelCalls
<1>8. ASSUME ~RunSwitches, ChannelSteps PROVE Struck'
  BY <1>1, <1>8, RestsStrike, KillsStrike, PlainReturnsStrike DEF ChannelSteps
<1>. QED
  BY <1>3, <1>4, <1>5, <1>6, <1>7, <1>8 DEF ChannelNext, Next, MainIdle

(* Only tasklets that have begun are marked blocked. *)
LEMMA MarkedHaveBegun ==
    ASSUME Control(Channels), Books, Struck
    PROVE  MarkedIn(Begun)
<1>1. Main \in Begun
  BY MainAssumption DEF Control, Types, GreenletsFit, Begun
<1>2. ASSUME NEW t \in Tasklets \ {Main}, q.blockedOn[t] # NULL PROVE t \in Begun
  <2>1. Sound(t) /\ Placed(t) /\ Marked(t)
    BY <1>2 DEF Books, Struck
  <2>2. stack[t] # <<>> => gl[t].state = "started"
    BY <2>1 DEF Sound
  <2>3. ASSUME NEW c \in Channels, B!Waits(t, ch[c]) PROVE stack[t] # <<>>
    <3>1. Failed(t, Wait(t, c)) \/ Asleep(t, Wait(t, c))
      BY <2>1, <2>3 DEF Placed
    <3>2. \A f : <<f>> # <<>>
      OBVIOUS
    <3>3. \A f : Failed(t, f) => stack[t] # <<>>
      BY <3>2 DEF Failed
    <3>4. \A f : Asleep(t, f) => stack[t] # <<>>
      BY <1>2 DEF Asleep
    <3>. QED
      BY <3>1, <3>3, <3>4
  <2>4. tk[t].dir # "NEITHER" => stack[t] # <<>>
    BY <1>2, <2>3, ListedNotes DEF Listed
  <2>5. Stray(t) => gl[t].state = "dead" \/ stack[t] # <<>>
    BY DEF Stray, Still
  <2>. QED
    BY <1>2, <2>1, <2>2, <2>4, <2>5 DEF Marked, Begun
<1>. QED
  BY <1>1, <1>2 DEF MarkedIn

LEMMA BegunStay ==
    ASSUME Control(Channels), Gentle, Unmixed, Forced, Books, Struck, [ChannelNext]_vars
    PROVE  Begun \subseteq Begun'
<1>1. CASE RunSwitches
  BY <1>1, RunSwitchesStrikes
<1>2. CASE ~RunSwitches
  <2>1. \A t \in Tasklets : Ages(t)
    BY <1>2, NobodyBegins
  <2>. QED
    BY <2>1 DEF Ages, Begun
<1>. QED
  BY <1>1, <1>2

LEMMA OwnedByMore ==
    ASSUME NEW X, NEW Y, X \subseteq Y, OwnedFrames(X)
    PROVE  OwnedFrames(Y)
<1>1. \A t, f : Owns(X, t, f) => Owns(Y, t, f)
  BY DEF Owns
<1>. QED
  BY <1>1 DEF OwnedFrames, Own

LEMMA ChannelNextStrikes ==
    ASSUME Control(Channels), OwnFrames, Gentle, Unmixed, Books, Strikes, [ChannelNext]_vars
    PROVE  Strikes'
<1>1. Struck'
  BY ChannelNextKeepsStruck
<1>2. ASSUME Forced PROVE OwnedFrames(Begun)'
  <2>1. PICK X : X = Begun
    OBVIOUS
  <2>2. OwnedFrames(X) /\ MarkedIn(X)
    BY <1>2, <2>1, MarkedHaveBegun DEF Strikes
  <2>3. OwnedFrames(X)'
    BY <2>2, ChannelNextKeepsFrames DEF Gentle
  <2>4. X \subseteq Begun'
    BY <1>2, <2>1, BegunStay DEF Strikes
  <2>5. \A t, f : Owns(X, t, f) => Owns(Begun', t, f)
    BY <2>4 DEF Owns
  <2>. QED
    BY <2>3, <2>5 DEF OwnedFrames, Own
<1>. QED
  BY <1>1, <1>2 DEF Strikes, Forced

LEMMA InitStrikes ==
    ASSUME Init
    PROVE  Strikes
<1>1. \A t \in Tasklets : stack[t] = <<>> /\ tk[t].exc = "none" /\ q.blockedOn[t] = NULL
  BY DEF Init, InitQueue
<1>2. OwnedFrames(Begun)
  BY <1>1, OwnParts DEF OwnedFrames
<1>. QED
  BY <1>1, <1>2 DEF Strikes, Struck, Marked, Urgent

LEMMA StrikesAlways ==
    ASSUME Gentle, Unmixed
    PROVE  ChannelSpec => [](Control(Channels) /\ OwnFrames /\ Books /\ Strikes)
<1>. DEFINE I == Control(Channels) /\ OwnFrames /\ Books
<1>1. ChannelSpec => []I
  BY BooksKept
<1>2. Init => Strikes
  BY InitStrikes
<1>3. I /\ Strikes /\ [ChannelNext]_vars => Strikes'
  BY ChannelNextStrikes
<1>. QED
  BY <1>1, <1>2, <1>3, PTL DEF ChannelSpec

LEMMA PythonIsFree ==
    ASSUME Control(Channels), Books, InCode
    PROVE  /\ ~Listed(active) /\ tk[active].dir = "NEITHER"
           /\ active = Main => q.blockedOn[Main] = NULL
<1>1. stack[active] = <<>> /\ ret = "none"
  BY DEF InCode, Running, InPython
<1>2. <<>> \in Seq(PlainFrames(Channels))
  OBVIOUS
<1>3. stack[active] \in Rests(Channels, active)
  BY <1>1, <1>2 DEF Rests
<1>. QED
  BY <1>1, <1>3, CallerIsFree

(* Who is switched to before its mark is gone gives control away again: no  *)
(* Python code runs in a tasklet that is marked blocked, although main's    *)
(* kill() and clear() mark a victim again that does not wait any more.      *)
(* Where main uses these, nobody kills with pending: such an exception      *)
(* takes a tasklet out of Yield whatever its mark says.  (Nobody unbinds    *)
(* either, which would give a dead victim a second life with its mark.)     *)
THEOREM NoBlockedCode ==
    ASSUME Gentle, Unmixed
    PROVE  ChannelSpec => []BlockedDoesNotRun
<1>1. ASSUME Control(Channels), Books, Strikes, InCode PROVE ~IsBlocked(q, active)
  <2>1. PICK a \in Tasklets : a = active
    BY <1>1 DEF Control, Types
  <2>2. tk[a].dir = "NEITHER" /\ (a = Main => q.blockedOn[Main] = NULL)
    BY <1>1, <2>1, PythonIsFree
  <2>3. ASSUME a # Main PROVE q.blockedOn[a] = NULL
    <3>1. Marked(a)
      BY <1>1, <2>3 DEF Strikes, Struck
    <3>2. gl[a].state = "started" /\ stack[a] = <<>>
      BY <1>1, <2>1, <2>3, RunByMain DEF InCode, Running, InPython
    <3>3. ~Stray(a)
      BY <3>2 DEF Stray, Still
    <3>. QED
      BY <2>2, <3>1, <3>3 DEF Marked
  <2>. QED
    BY <2>1, <2>2, <2>3 DEF IsBlocked
<1>2. Control(Channels) /\ OwnFrames /\ Books /\ Strikes => BlockedDoesNotRun
  BY <1>1 DEF BlockedDoesNotRun
<1>. QED
  BY <1>2, StrikesAlways, PTL

(* Whenever Python code runs, the mark of a tasklet and the lists of the    *)
(* channels agree, if main's kill() and clear(), which may mark a victim    *)
(* wrongly, are not used: partners and pending kills take the mark away in  *)
(* one call, and the list may change in another, on another stack.          *)
THEOREM MarksMatchLists ==
    ASSUME Gentle, ~Forced
    PROVE  ChannelSpec => []BlockedIsListed
<1>0. Unmixed
  BY DEF Unmixed
<1>1. ASSUME Control(Channels), Books, Strikes, InCode, NEW t \in Tasklets, NEW c \in Channels
      PROVE  q.blockedOn[t] = c <=> t \in Range(ch[c].send) \cup Range(ch[c].recv)
  <2>1. stack[active] = <<>> /\ <<>> \in Seq(PlainFrames(Channels))
    BY <1>1 DEF InCode, Running, InPython
  <2>2. stack[active] \in Rests(Channels, active) /\ ~Listed(active)
    BY <1>1, <2>1, PythonIsFree DEF Rests
  <2>3. B!Waits(t, ch[c]) => q.blockedOn[t] = c
    <3>1. B!Waits(t, ch[c]) => t # active
      BY <2>2 DEF Listed
    <3>. QED
      BY <1>1, <2>2, <3>1, WaitersSleep DEF Idle
  <2>4. q.blockedOn[t] # NULL => Listed(t)
    <3>1. CASE t = Main
      BY <1>1, <3>1 DEF Books, MainSound
    <3>2. CASE t # Main
      <4>1. Marked(t) /\ ~Stray(t)
        BY <1>0, <1>1, <3>2 DEF Strikes, Struck, Stray
      <4>. QED
        BY <1>1, <4>1, ListedNotes DEF Marked
    <3>. QED
      BY <3>1, <3>2
  <2>5. \A d \in Channels : B!Waits(t, ch[d]) => q.blockedOn[t] = d
    <3>1. ASSUME NEW d \in Channels, B!Waits(t, ch[d]) PROVE q.blockedOn[t] = d
      <4>1. t # active
        BY <2>2, <3>1 DEF Listed
      <4>. QED
        BY <1>1, <2>2, <3>1, <4>1, WaitersSleep DEF Idle
    <3>. QED
      BY <3>1
  <2>6. c # NULL
    BY NullAssumption
  <2>7. q.blockedOn[t] = c <=> B!Waits(t, ch[c])
    BY <2>3, <2>4, <2>5, <2>6 DEF Listed
  <2>. QED
    BY <2>7 DEF B!Waits, B!In, Range
<1>2. Control(Channels) /\ OwnFrames /\ Books /\ Strikes => BlockedIsListed
  BY <1>1 DEF BlockedIsListed
<1>. QED
  BY <1>0, <1>2, StrikesAlways, PTL

--------------------------------------------------------------------------------
(* What becomes of messages, when the channels prefer receivers, which is   *)
(* the default.  (Where a sender is preferred, an exception that reaches    *)
(* the receiver after it has taken a message leaves the message with it.)   *)

Holds(s, z) == \A k \in {"Send", "Receive"} : Has(s, k) => Has(z, k)

(* A message is carried by a tasklet whose send is not over, or whose       *)
(* receive is about to return it.                                           *)
Carries(t) == tk[t].args # NULL =>
    Has(stack[t], "Send") \/ (Has(stack[t], "Receive") /\ tk[t].dir # "RECEIVER")

Prefers == \A c \in Channels : ch[c].preference = "RECEIVER"

Carried == \A t \in Tasklets : Carries(t)

(* What a step may do to the message of t. *)
Keeps(t) ==
    /\ Carries(t)'
    /\ tk[t].args # NULL => tk'[t].args \in {tk[t].args, NULL}

(* t is not given a message, and not told to wait for one. *)
Unread(t) == tk'[t].args = tk[t].args /\ tk'[t].dir \in {tk[t].dir, "NEITHER"}

LEMMA UnreadKeeps ==
    ASSUME NEW t, Carries(t), Unread(t), tk[t].args # NULL => Holds(stack[t], stack'[t])
    PROVE  Keeps(t)
BY DEF Carries, Unread, Holds, Keeps

LEMMA UntoldIsUnread ==
    ASSUME NEW t, Untold(t)
    PROVE  Unread(t)
BY DEF Untold, Unread

(* Without a send or receive under way there is no message. *)
LEMMA NothingCarried ==
    ASSUME NEW t \in Tasklets, Carried, ~Has(stack[t], "Send"), ~Has(stack[t], "Receive")
    PROVE  tk[t].args = NULL
BY DEF Carried, Carries

LEMMA HoldsParts ==
    ASSUME NEW S, NEW T, NEW s \in Seq(S), NEW z \in Seq(T)
    PROVE  /\ Holds(z, s \o z)
           /\ s # <<>> /\ Head(s).k \notin {"Send", "Receive"} =>
                 /\ Holds(s, Tail(s))
                 /\ \A f : Holds(s, <<f>> \o Tail(s))
<1>1. /\ Len(s) \in Nat /\ Len(z) \in Nat /\ DOMAIN z = 1..Len(z)
      /\ DOMAIN (s \o z) = 1..(Len(s) + Len(z))
      /\ \A i \in 1..Len(z) : (s \o z)[Len(s) + i] = z[i]
  OBVIOUS
<1>2. Holds(z, s \o z)
  <2>1. ASSUME NEW k, NEW i \in DOMAIN z, z[i].k = k PROVE Has(s \o z, k)
    <3>. DEFINE j == Len(s) + i
    <3>1. j \in DOMAIN (s \o z) /\ (s \o z)[j].k = k
      BY <1>1, <2>1
    <3>. HIDE DEF j
    <3>. QED
      BY <3>1 DEF Has
  <2>. QED
    BY <2>1 DEF Holds, Has
<1>3. ASSUME s # <<>>, Head(s).k \notin {"Send", "Receive"}
      PROVE  /\ Holds(s, Tail(s))
             /\ \A f : Holds(s, <<f>> \o Tail(s))
  <2>1. Tail(s) \in Seq(S) /\ \A k : Has(s, k) <=> Head(s).k = k \/ Has(Tail(s), k)
    BY <1>3, TopAndTail
  <2>2. Holds(s, Tail(s))
    BY <1>3, <2>1 DEF Holds
  <2>3. ASSUME NEW f PROVE Holds(s, <<f>> \o Tail(s))
    <3>1. \A k : Has(<<f>> \o Tail(s), k) <=> f.k = k \/ Has(Tail(s), k)
      BY <2>1, PutOnTop
    <3>. QED
      BY <2>2, <3>1 DEF Holds
  <2>. QED
    BY <2>2, <2>3
<1>. QED
  BY <1>2, <1>3

(* No send or receive leaves a stack but by its own return.                 *)
AllHold == \A t \in Tasklets : Holds(stack[t], stack'[t])

LEMMA OneStackHolds ==
    ASSUME Control(Channels), NEW s, stack' = [stack EXCEPT ![active] = s], Holds(stack[active], s)
    PROVE  AllHold
<1>1. /\ active \in Tasklets
      /\ stack'[active] = s /\ \A t \in Tasklets \ {active} : stack'[t] = stack[t]
  BY DEF Control, Types, Stacks
<1>2. \A t : Holds(stack[t], stack[t])
  BY DEF Holds
<1>. QED
  BY <1>1, <1>2 DEF AllHold

LEMMA CallsHold ==
    ASSUME Control(Channels), NEW S, NEW fs \in Seq(S), NEW r, Continue(fs \o stack[active], r)
    PROVE  AllHold
<1>. DEFINE T == Switching(active) \cup PlainFrames(Channels) \cup LimitedFrames
<1>1. stack[active] \in Seq(T)
  BY StackIsASequence DEF Control, Types
<1>. HIDE DEF T
<1>2. Holds(stack[active], fs \o stack[active])
  BY <1>1, HoldsParts
<1>. QED
  BY <1>2, OneStackHolds DEF Continue

LEMMA ReturnsHold ==
    ASSUME Control(Channels), stack[active] # <<>>, Top.k \notin {"Send", "Receive"},
           (\E r : Return(r)) \/ (\E f : TopBecomes(f))
    PROVE  AllHold
<1>. DEFINE T == Switching(active) \cup PlainFrames(Channels) \cup LimitedFrames
<1>1. stack[active] \in Seq(T)
  BY StackIsASequence DEF Control, Types
<1>. HIDE DEF T
<1>2. /\ Holds(stack[active], Tail(stack[active]))
      /\ \A f : Holds(stack[active], <<f>> \o Tail(stack[active]))
  BY <1>1, HoldsParts DEF Top
<1>3. ASSUME NEW f, TopBecomes(f) PROVE AllHold
  BY <1>2, <1>3, OneStackHolds DEF TopBecomes
<1>4. ASSUME NEW r, Return(r) PROVE AllHold
  BY <1>2, <1>4, OneStackHolds DEF Return, Continue
<1>. QED
  BY <1>3, <1>4

LEMMA KillTaskletHolds ==
    ASSUME Control(Channels), ~Nested, NEW t, NEW pending, KillTasklet(t, pending, <<>>)
    PROVE  AllHold
<1>. DEFINE f == RestoreBlocked(t, q.blockedOn[t])
<1>1. \/ \E r : Answer(<<>>, r)
      \/ \E q0, tk0 : RunTasklet(t, q0, tk0, <<f>> \o <<>>)
  BY DEF KillTasklet
<1>. HIDE DEF f
<1>2. <<>> \in Seq({}) /\ <<f>> \in Seq({f}) /\ <<f>> \o <<>> = <<f>>
  BY ConcatEmptySeq
<1>3. \A r : Answer(<<>>, r) => AllHold
  BY <1>2, CallsHold DEF Answer
<1>4. \A r : Answer(<<f>>, r) => AllHold
  BY <1>2, CallsHold DEF Answer
<1>5. ASSUME NEW q0, NEW tk0, Yield(q0, tk0, <<f>>) PROVE AllHold
  <2>1. PICK T : \E s \in Seq(T) : \E r : Waitless(s) /\ Continue((s \o <<f>>) \o stack[active], r)
    BY <1>2, <1>5, YieldPushes
  <2>2. PICK s \in Seq(T) : \E r : Waitless(s) /\ Continue((s \o <<f>>) \o stack[active], r)
    BY <2>1
  <2>3. s \o <<f>> \in Seq(T \cup {f})
    OBVIOUS
  <2>. QED
    BY <2>2, <2>3, CallsHold
<1>. QED
  BY <1>1, <1>2, <1>3, <1>4, <1>5 DEF RunTasklet

LEMMA CarriedAlong ==
    ASSUME Carried, AllHold, \A t \in Tasklets : Unread(t)
    PROVE  \A t \in Tasklets : Keeps(t)
BY UnreadKeeps DEF Carried, AllHold

(* A call that tells nobody to wait. *)
LEMMA CallCarries ==
    ASSUME Control(Channels), Carried, stack[active] = <<>>, Local, \A t \in Tasklets : Unread(t)
    PROVE  \A t \in Tasklets : Keeps(t)
<1>1. \A u \in Tasklets \ {active} : stack'[u] = stack[u]
  BY LocalStays
<1>2. \A t \in Tasklets : Holds(stack[t], stack'[t])
  BY <1>1 DEF Holds, Has
<1>. QED
  BY <1>2, CarriedAlong DEF AllHold

(* The fields that a switch, its return and a kill write hold no message. *)
LEMMA FieldsUnread ==
    ASSUME NEW y, y \in [Tasklets -> TaskletType], NEW x, NEW e, NEW p, NEW z,
           \/ z = y \/ z = [y EXCEPT ![x].exc = e] \/ z = [y EXCEPT ![x].exc = e, ![x].remove = p]
           \/ z = [y EXCEPT ![x].alive = e] \/ z = [y EXCEPT ![x].paused = e, ![x].firstRun = p]
           \/ z = [y EXCEPT ![x].parent = p] \/ z = [y EXCEPT ![x].exc = e, ![x].parent = p]
    PROVE  \A u \in Tasklets : z[u].args = y[u].args /\ z[u].dir = y[u].dir
<1>1. \A u \in Tasklets \ {x} : z[u] = y[u]
  OBVIOUS
<1>2. ASSUME x \in Tasklets PROVE z[x].args = y[x].args /\ z[x].dir = y[x].dir
  <2>1. y[x] \in TaskletType
    BY <1>2
  <2>. DEFINE v == z[x]
  <2>2. \/ v = y[x] \/ v = [y[x] EXCEPT !.exc = e] \/ v = [y[x] EXCEPT !.exc = e, !.remove = p]
        \/ v = [y[x] EXCEPT !.alive = e] \/ v = [y[x] EXCEPT !.paused = e, !.firstRun = p]
        \/ v = [y[x] EXCEPT !.parent = p] \/ v = [y[x] EXCEPT !.exc = e, !.parent = p]
    BY <1>2, <2>1 DEF TaskletType
  <2>. HIDE DEF v
  <2>3. v.args = y[x].args /\ v.dir = y[x].dir
    BY <2>1, <2>2 DEF TaskletType
  <2>. QED
    BY <2>3 DEF v
<1>. QED
  BY <1>1, <1>2

LEMMA SwitchUnread ==
    ASSUME NEW f, NEW x, NEW q0, NEW tk0, tk0 \in [Tasklets -> TaskletType], NEW g0,
           SwitchTo(f, x, q0, tk0, g0)
    PROVE  \A u \in Tasklets : tk'[u].args = tk0[u].args /\ tk'[u].dir = tk0[u].dir
<1>1. \/ tk' = tk0 \/ tk' = [tk0 EXCEPT ![x].alive = FALSE]
      \/ tk' = [tk0 EXCEPT ![x].exc = "none", ![x].remove = TRUE]
      \/ tk' = [tk0 EXCEPT ![x].paused = FALSE, ![x].firstRun = FALSE]
  BY DEF SwitchTo, DeadUnstarted
<1>2. ASSUME tk' = [tk0 EXCEPT ![x].alive = FALSE]
      PROVE  \A u \in Tasklets : tk'[u].args = tk0[u].args /\ tk'[u].dir = tk0[u].dir
  BY <1>2, FieldsUnread
<1>3. ASSUME tk' = [tk0 EXCEPT ![x].exc = "none", ![x].remove = TRUE]
      PROVE  \A u \in Tasklets : tk'[u].args = tk0[u].args /\ tk'[u].dir = tk0[u].dir
  BY <1>3, FieldsUnread
<1>4. ASSUME tk' = [tk0 EXCEPT ![x].paused = FALSE, ![x].firstRun = FALSE]
      PROVE  \A u \in Tasklets : tk'[u].args = tk0[u].args /\ tk'[u].dir = tk0[u].dir
  BY <1>4, FieldsUnread
<1>. QED
  BY <1>1, <1>2, <1>3, <1>4

(* The scheduler moves no messages. *)
LEMMA SchedulerUnread ==
    ASSUME Control(Channels), Scheduler
    PROVE  \A t \in Tasklets : Unread(t)
<1>0. tk \in [Tasklets -> TaskletType]
  BY DEF Control, Types, TaskletsFit
<1>1. SUFFICES \A u \in Tasklets : tk'[u].args = tk[u].args /\ tk'[u].dir = tk[u].dir
  BY DEF Unread
<1>2. ASSUME tk' = tk PROVE \A u \in Tasklets : tk'[u].args = tk[u].args /\ tk'[u].dir = tk[u].dir
  BY <1>2
<1>3. CASE RunEnds \/ RunCannotAdopt \/ YieldReturns \/ YieldMainReturns \/ KillReturns \/ LimitedRunReturns
  <2>1. tk' = tk
    BY <1>3 DEF RunEnds, RunCannotAdopt, YieldReturns, YieldMainReturns, KillReturns, LimitedRunReturns
  <2>. QED
    BY <1>2, <2>1
<1>4. CASE SwitchReturns
  <2>1. \/ tk' = [tk EXCEPT ![q.current].exc = "none"]
        \/ tk' = AfterSwitch(Top.sw, ret)
    BY <1>4 DEF SwitchReturns, Resumed
  <2>2. CASE tk' = [tk EXCEPT ![q.current].exc = "none"]
    BY <1>0, <2>2, FieldsUnread
  <2>3. CASE tk' = AfterSwitch(Top.sw, ret)
    <3>1. stack[active] # <<>> /\ Top.k \in {"Run", "Yield"} /\ Top.pc = "in"
      BY <1>4 DEF SwitchReturns
    <3>2. Top.sw \in Tasklets
      BY <3>1, InTheLoop, InTheMiddle, MainAssumption, RunByMain DEF YieldFrames
    <3>3. PICK x \in Tasklets : x = Top.sw
      BY <3>2
    <3>4. /\ AfterSwitch(x, ret)[x].dir = tk[x].dir /\ AfterSwitch(x, ret)[x].args = tk[x].args
          /\ \A u \in Tasklets \ {x} : AfterSwitch(x, ret)[u] = tk[u]
      BY AfterSwitchFlags
    <3>. QED
      BY <2>3, <3>3, <3>4
  <2>. QED
    BY <2>1, <2>2, <2>3
<1>5. CASE RunContinues
  <2>. DEFINE e == IF ret = "TaskletExit" THEN "none" ELSE tk[Top.sw].exc
              p == IF tk[Top.sw].alive THEN tk[Top.sw].parent ELSE NULL
  <2>1. /\ stack[active] # <<>> /\ Top.k = "Run" /\ Top.pc = "out"
        /\ tk' = [tk EXCEPT ![Top.sw].exc = IF ret = "TaskletExit" THEN "none" ELSE @,
                            ![Top.sw].parent = IF tk[Top.sw].alive THEN @ ELSE NULL]
    BY <1>5 DEF RunContinues, AtFrame
  <2>2. Top.sw \in Tasklets
    BY <2>1, InTheLoop
  <2>3. tk' = [tk EXCEPT ![Top.sw].exc = e, ![Top.sw].parent = p]
    BY <1>0, <2>1, <2>2 DEF TaskletType
  <2>. HIDE DEF e, p
  <2>. QED
    BY <1>0, <2>3, FieldsUnread
<1>6. CASE RunFails
  <2>1. tk' = tk \/ tk' = [tk EXCEPT ![Top.sw].parent = NULL]
    BY <1>6 DEF RunFails
  <2>2. ASSUME tk' = [tk EXCEPT ![Top.sw].parent = NULL]
        PROVE  \A u \in Tasklets : tk'[u].args = tk[u].args /\ tk'[u].dir = tk[u].dir
    BY <1>0, <2>2, FieldsUnread
  <2>. QED
    BY <1>2, <2>1, <2>2
<1>7. CASE YieldSwitches \/ YieldStaysBlocked
  <2>1. tk' = tk \/ \E x : SwitchTo(Top, x, q, tk, gl)
    BY <1>7 DEF YieldSwitches, YieldStaysBlocked
  <2>. QED
    BY <1>0, <1>2, <2>1, SwitchUnread
<1>8. CASE RunSwitches
  <2>1. stack[active] # <<>> /\ Top.k = "Run" /\ Top.pc = "head"
    BY <1>8 DEF RunSwitches, AtFrame
  <2>2. q.current = Main /\ Top.base = Main
    BY <2>1, InTheLoop
  <2>. DEFINE x == q.next[Main]
              tk0 == Adopted(tk, x, Main)
              g0 == Parented(gl, x, Main)
  <2>3. SwitchTo(Top, x, q, tk0, g0)
    BY <1>8, <2>2 DEF RunSwitches
  <2>4. tk0 = [tk EXCEPT ![x].parent = Main]
    BY DEF Adopted
  <2>5. tk0 \in [Tasklets -> TaskletType]
    <3>1. x \in Tasklets => [tk[x] EXCEPT !.parent = Main] \in TaskletType
      BY <1>0, MainAssumption DEF TaskletType
    <3>2. tk0 = [tk EXCEPT ![x] = [tk[x] EXCEPT !.parent = Main]]
      BY <2>4
    <3>. QED
      BY <1>0, <3>1, <3>2
  <2>. HIDE DEF x, tk0, g0
  <2>6. \A u \in Tasklets : tk0[u].args = tk[u].args /\ tk0[u].dir = tk[u].dir
    BY <1>0, <2>4, FieldsUnread
  <2>7. \A u \in Tasklets : tk'[u].args = tk0[u].args /\ tk'[u].dir = tk0[u].dir
    BY <2>3, <2>5, SwitchUnread
  <2>. QED
    BY <2>6, <2>7
<1>. QED
  BY <1>3, <1>4, <1>5, <1>6, <1>7, <1>8, SwitchIsNotCalled DEF Scheduler

LEMMA SchedulerCarries ==
    ASSUME Control(Channels), Carried, Scheduler
    PROVE  \A t \in Tasklets : Keeps(t)
<1>1. \A t \in Tasklets : Unread(t)
  BY SchedulerUnread
<1>2. ASSUME RunSwitches \/ YieldSwitches \/ YieldStaysBlocked \/ SwitchReturns \/ RunContinues
      PROVE  AllHold
  <2>1. /\ stack[active] # <<>> /\ Top.k \in {"Run", "Yield"}
        /\ stack' = stack \/ \E f : TopBecomes(f)
    BY <1>2, SwitchesMoveTheTop
  <2>2. ASSUME stack' = stack PROVE AllHold
    BY <2>2 DEF AllHold, Holds
  <2>. QED
    BY <2>1, <2>2, ReturnsHold
<1>3. ASSUME \/ RunEnds \/ RunCannotAdopt \/ RunFails \/ YieldReturns \/ YieldMainReturns
             \/ KillReturns \/ LimitedRunReturns
      PROVE  AllHold
  <2>1. stack[active] # <<>> /\ Top.k \notin {"Send", "Receive"} /\ \E r : Return(r)
    BY <1>3 DEF RunEnds, RunCannotAdopt, RunFails, YieldReturns, YieldMainReturns, KillReturns,
                LimitedRunReturns, AtFrame, AtThen
  <2>. QED
    BY <2>1, ReturnsHold
<1>4. AllHold
  BY <1>2, <1>3, SwitchIsNotCalled DEF Scheduler
<1>. QED
  BY <1>1, <1>4, CarriedAlong

(* Killing a tasklet takes it off its channel at most. *)
LEMMA KillTaskletUnread ==
    ASSUME Control(Channels), NEW t, NEW pending, KillTasklet(t, pending, <<>>)
    PROVE  \A u \in Tasklets : Unread(u)
<1>. DEFINE d == IF q.blockedOn[t] = NULL THEN tk[t].dir ELSE "NEITHER"
            quiet == SetReschedule(Unblock(q, t), t, "NONE")
            f == RestoreBlocked(t, q.blockedOn[t])
<1>1. tk \in [Tasklets -> TaskletType]
  BY DEF Control, Types, TaskletsFit
<1>2. CASE q.current = t \/ ~pending \/ ~tk[t].alive \/ tk[t].killPending
  <2>1. \/ tk' = tk \/ tk' = [tk EXCEPT ![t].exc = "none"]
        \/ RunTasklet(t, quiet, [tk EXCEPT ![t].exc = "TaskletExit"], <<f>> \o <<>>)
    BY <1>2 DEF KillTasklet
  <2>. HIDE DEF quiet, f
  <2>2. \E e : tk' = tk \/ tk' = [tk EXCEPT ![t].exc = e]
    BY <2>1 DEF RunTasklet, Yield
  <2>3. ASSUME NEW e, tk' = [tk EXCEPT ![t].exc = e]
        PROVE  \A u \in Tasklets : tk'[u].args = tk[u].args /\ tk'[u].dir = tk[u].dir
    BY <1>1, <2>3, FieldsUnread
  <2>. QED
    BY <2>2, <2>3 DEF Unread
<1>3. CASE ~(q.current = t \/ ~pending \/ ~tk[t].alive \/ tk[t].killPending)
  <2>. DEFINE v == [tk[t] EXCEPT !.exc = "TaskletExit", !.killPending = TRUE, !.dir = d]
  <2>1. tk' = [tk EXCEPT ![t].exc = "TaskletExit", ![t].killPending = TRUE,
                         ![t].dir = IF q.blockedOn[t] = NULL THEN @ ELSE "NEITHER"]
    BY <1>3 DEF KillTasklet
  <2>2. t \in Tasklets => tk[t] \in TaskletType
    BY <1>1
  <2>3. t \in Tasklets => tk' = [tk EXCEPT ![t] = v]
    BY <1>1, <2>1, <2>2 DEF TaskletType
  <2>4. t \in Tasklets => v.args = tk[t].args /\ v.dir \in {tk[t].dir, "NEITHER"}
    BY <2>2 DEF TaskletType
  <2>. HIDE DEF v
  <2>5. \A u \in Tasklets \ {t} : tk'[u] = tk[u]
    BY <1>1, <2>1
  <2>6. t \in Tasklets => tk'[t] = v
    BY <1>1, <2>3
  <2>. QED
    BY <2>4, <2>5, <2>6 DEF Unread
<1>. QED
  BY <1>2, <1>3

LEMMA KillsCarry ==
    ASSUME Control(Channels), ~Nested, Carried,
           ClearKills \/ \E t \in Tasklets : \E pending \in BOOLEAN : Kill(t, pending)
    PROVE  \A t \in Tasklets : Keeps(t)
<1>1. PICK t, pending : KillTasklet(t, pending, <<>>)
  BY DEF ClearKills, Kill
<1>2. AllHold
  BY <1>1, KillTaskletHolds
<1>3. \A u \in Tasklets : Unread(u)
  BY <1>1, KillTaskletUnread
<1>. QED
  BY <1>2, <1>3, CarriedAlong

LEMMA PythonCarries ==
    ASSUME Control(Channels), Gentle, Carried, Python
    PROVE  \A t \in Tasklets : Keeps(t)
<1>1. ASSUME Finish \/ Raise \/ Propagate \/ Swallow PROVE \A t \in Tasklets : Keeps(t)
  <2>1. stack' = stack /\ tk' = tk
    BY <1>1 DEF Finish, Raise, Propagate, Swallow, Dies
  <2>2. \A t \in Tasklets : Unread(t)
    BY <2>1 DEF Unread
  <2>3. AllHold
    BY <2>1 DEF AllHold, Holds
  <2>. QED
    BY <2>2, <2>3, CarriedAlong
<1>2. ASSUME \E t \in Tasklets, pending \in BOOLEAN : Kill(t, pending)
      PROVE  \A t \in Tasklets : Keeps(t)
  BY <1>2, KillsCarry DEF Gentle, Flat
<1>3. ASSUME ~(Finish \/ Raise \/ Propagate \/ Swallow),
             ~\E t \in Tasklets, pending \in BOOLEAN : Kill(t, pending)
      PROVE  \A t \in Tasklets : Keeps(t)
  <2>1. Silence
    BY <1>3, QuietCallsTellNobody
  <2>2. Local
    BY <1>3, LocalCalls DEF Gentle
  <2>3. stack[active] = <<>> /\ \A t \in Tasklets : Untold(t)
    BY <2>1 DEF Silence, Nothing
  <2>4. \A t \in Tasklets : Unread(t)
    BY <2>3, UntoldIsUnread
  <2>. QED
    BY <2>2, <2>3, <2>4, CallCarries
<1>. QED
  BY <1>1, <1>2, <1>3

LEMMA QuietChannelCallsCarry ==
    ASSUME Control(Channels), Carried,
           \/ (\E c \in Channels : Clear(c)) \/ UnblockAllActiveChannels
           \/ \E c \in Channels : Close(c) \/ Open(c) \/ \E p \in Direction : SetPreference(c, p)
           \/ \E value \in BOOLEAN : SetBlocktrap(value)
    PROVE  \A t \in Tasklets : Keeps(t)
<1>1. \E op : Calls(op)
  BY DEF Clear, UnblockAllActiveChannels, Close, Open, SetPreference, SetBlocktrap
<1>2. stack[active] = <<>> /\ active \in Tasklets
  BY <1>1, CallIsMade
<1>3. Local
  BY LocalSteps DEF ChannelCalls
<1>4. tk' = tk \/ \E value \in BOOLEAN : tk' = [tk EXCEPT ![active].blockTrap = value]
  BY DEF Clear, UnblockAllActiveChannels, Close, Open, SetPreference, SetBlocktrap
<1>5. tk \in [Tasklets -> TaskletType]
  BY DEF Control, Types, TaskletsFit
<1>6. \A t \in Tasklets : Untold(t)
  BY <1>2, <1>4, <1>5, NobodyIsTold, FlagsTellNobody
<1>7. \A t \in Tasklets : Unread(t)
  BY <1>6, UntoldIsUnread
<1>. QED
  BY <1>2, <1>3, <1>7, CallCarries

LEMMA ClearStepsCarry ==
    ASSUME Control(Channels), Carried, ClearGoesOn \/ ClearTurns \/ ClearEnds
    PROVE  \A t \in Tasklets : Keeps(t)
<1>1. stack[active] # <<>> /\ Top.k \notin {"Send", "Receive"} /\ tk' = tk
  BY DEF ClearGoesOn, ClearTurns, ClearEnds, AtClear
<1>2. (\E r : Return(r)) \/ (\E f : TopBecomes(f))
  BY Zenon DEF ClearGoesOn, ClearTurns, ClearEnds, Continue, TopBecomes
<1>3. AllHold
  BY <1>1, <1>2, ReturnsHold
<1>4. \A t \in Tasklets : Unread(t)
  BY <1>1 DEF Unread
<1>. QED
  BY <1>3, <1>4, CarriedAlong

(* Whoever is left without a message has none to lose. *)
LEMMA EmptyKeeps ==
    ASSUME NEW t, tk'[t].args = NULL
    PROVE  Keeps(t)
BY DEF Keeps, Carries

(* Only a, and whom it tells, is to be looked at. *)
LEMMA OthersKeep ==
    ASSUME Carried, NEW a \in Tasklets, Keeps(a),
           \A u \in Tasklets \ {a} : stack'[u] = stack[u] /\ (Keeps(u) \/ Untold(u))
    PROVE  \A t \in Tasklets : Keeps(t)
<1>1. ASSUME NEW u \in Tasklets \ {a}, Untold(u) PROVE Keeps(u)
  <2>1. Holds(stack[u], stack'[u])
    BY DEF Holds
  <2>2. Carries(u) /\ Unread(u)
    BY <1>1, UntoldIsUnread DEF Carried
  <2>. QED
    BY <2>1, <2>2, UnreadKeeps
<1>. QED
  BY <1>1

(* The rest of a send or receive that gives control away is on its stack. *)
LEMMA TransferIsOnItsStack ==
    ASSUME Control(Channels), stack[active] = <<>>, NEW f, f.k \in {"Send", "Receive"},
           NEW q0, NEW tk0, Yield(q0, tk0, <<f>>)
    PROVE  Has(stack'[active], f.k)
<1>1. <<f>> \in Seq({f}) /\ Has(<<f>>, f.k)
  BY DEF Has
<1>2. PICK T : \E s \in Seq(T) : \E r : Waitless(s) /\ Continue((s \o <<f>>) \o stack[active], r)
  BY <1>1, YieldPushes
<1>3. PICK s \in Seq(T) : \E r : Waitless(s) /\ Continue((s \o <<f>>) \o stack[active], r)
  BY <1>2
<1>4. (s \o <<f>>) \o <<>> = s \o <<f>>
  <2>1. s \o <<f>> \in Seq(T \cup {f})
    OBVIOUS
  <2>. QED
    BY <2>1, ConcatEmptySeq
<1>5. stack' = [stack EXCEPT ![active] = s \o <<f>>]
  BY <1>3, <1>4 DEF Continue
<1>6. active \in Tasklets /\ stack'[active] = s \o <<f>>
  BY <1>5 DEF Control, Types, Stacks
<1>7. Holds(<<f>>, s \o <<f>>)
  BY <1>1, <1>3, HoldsParts
<1>. QED
  BY <1>1, <1>6, <1>7 DEF Holds

(* The first in line has the rest of its receive on its stack. *)
LEMMA ReceiverWaits ==
    ASSUME Control(Channels), Books, NEW op, Calls(op), NEW c \in Channels, NEW r \in Tasklets,
           B!In(r, ch[c].recv)
    PROVE  Has(stack[r], "Receive") /\ tk[r].dir = "RECEIVER"
<1>1. stack[active] \in Rests(Channels, active) /\ ~Listed(active)
  BY CallIsQuiet
<1>2. B!Waits(r, ch[c]) /\ tk[r].dir = "RECEIVER"
  BY ListedNotes DEF B!Waits
<1>3. r # active
  BY <1>1, <1>2 DEF Listed
<1>4. Asleep(r, Wait(r, c))
  BY <1>1, <1>2, <1>3, WaitersSleep DEF Idle
<1>. DEFINE f == Wait(r, c)
            g == Then("Yield.main", Main)
            S == Switching(r) \cup PlainFrames(Channels) \cup LimitedFrames
            s == stack[r]
<1>5. s \in Seq(S)
  BY StackIsASequence
<1>6. f.k = "Receive"
  BY <1>2 DEF Wait, Rest
<1>7. \/ s = <<f>> \/ s = <<g, f>>
      \/ s # <<>> /\ (Tail(s) = <<f>> \/ Tail(s) = <<g, f>>)
  BY <1>4 DEF Asleep
<1>. HIDE DEF f, g, S, s
<1>8. s # <<>> => \A k : Has(Tail(s), k) => Has(s, k)
  BY <1>5, TopAndTail
<1>9. Has(<<f>>, "Receive") /\ Has(<<g, f>>, "Receive")
  <2>1. DOMAIN <<f>> = {1} /\ <<f>>[1] = f /\ 2 \in DOMAIN <<g, f>> /\ <<g, f>>[2] = f
    OBVIOUS
  <2>. QED
    BY <1>6, <2>1 DEF Has
<1>10. Has(s, "Receive")
  BY <1>7, <1>8, <1>9
<1>. QED
  BY <1>2, <1>10 DEF s

LEMMA SendCarries ==
    ASSUME Control(Channels), Books, Carried, NEW c \in Channels, NEW exception \in BOOLEAN,
           Send(c, exception)
    PROVE  \A t \in Tasklets : Keeps(t)
<1>. DEFINE m == [from |-> q.current, exception |-> exception]
            op == IF exception THEN "send_exception" ELSE "send"
<1>1. Calls(op) /\ (SendRefused(c, m) \/ SendBlocks(c, m) \/ SendDelivers(c, m))
  BY DEF Send
<1>2. /\ stack[active] = <<>> /\ q.current = active /\ active \in Tasklets
      /\ tk \in [Tasklets -> TaskletType]
  BY <1>1, CallIsQuiet
<1>3. \A u \in Tasklets \ {active} : stack'[u] = stack[u]
  <2>1. Local
    BY LocalSteps DEF ChannelCalls
  <2>. QED
    BY <2>1, LocalStays
<1>4. PICK a \in Tasklets : a = active
  BY <1>2
<1>5. tk[a] \in TaskletType /\ tk[a].args = NULL
  <2>1. ~Has(stack[a], "Send") /\ ~Has(stack[a], "Receive")
    BY <1>2, <1>4 DEF Has
  <2>. QED
    BY <1>2, <2>1, NothingCarried
<1>. HIDE DEF m, op
<1>6. CASE SendRefused(c, m)
  <2>. DEFINE v == [tk[a] EXCEPT !.transfer = TRUE]
  <2>1. tk' = [tk EXCEPT ![a] = v]
    BY <1>2, <1>4, <1>6 DEF SendRefused
  <2>2. v.exc = tk[a].exc /\ v.args = NULL
    BY <1>5 DEF TaskletType
  <2>. HIDE DEF v
  <2>3. tk'[a].args = NULL /\ \A u \in Tasklets \ {a} : Untold(u)
    BY <1>2, <2>1, <2>2, OneIsTold
  <2>. QED
    BY <1>3, <1>4, <2>3, EmptyKeeps, OthersKeep
<1>7. CASE SendBlocks(c, m)
  <2>. DEFINE v == [tk[a] EXCEPT !.transfer = TRUE, !.dir = "SENDER", !.args = m]
              f == Rest("Send", a, c)
              q0 == Block(q, a, c)
              tk0 == [tk EXCEPT ![a].transfer = TRUE, ![a].dir = "SENDER", ![a].args = m]
  <2>1. Yield(q0, tk0, <<f>>) /\ tk' = tk0
    BY <1>2, <1>4, <1>7 DEF SendBlocks, Yield
  <2>2. tk' = [tk EXCEPT ![a] = v]
    BY <1>5, <2>1
  <2>3. v.exc = tk[a].exc /\ f.k = "Send"
    BY <1>5 DEF TaskletType, Rest
  <2>. HIDE DEF v, f, q0, tk0
  <2>4. \A u \in Tasklets \ {a} : Untold(u)
    BY <1>2, <2>2, <2>3, OneIsTold
  <2>5. Has(stack'[a], "Send")
    BY <1>2, <1>4, <2>1, <2>3, TransferIsOnItsStack
  <2>6. Keeps(a)
    BY <1>5, <2>5 DEF Keeps, Carries
  <2>. QED
    BY <1>3, <1>4, <2>4, <2>6, OthersKeep
<1>8. CASE SendDelivers(c, m)
  <2>. DEFINE r0 == Head(ch[c].recv)
  <2>1. r0 \in Tasklets /\ B!In(r0, ch[c].recv)
    BY <1>8, FrontWaits DEF SendDelivers, Books
  <2>2. PICK r \in Tasklets : r = r0
    BY <2>1
  <2>3. B!Waits(r, ch[c]) /\ B!In(r, ch[c].recv)
    BY <2>1, <2>2 DEF B!Waits
  <2>4. r # a /\ ~Has(stack[r], "Send") /\ tk[r] \in TaskletType
    BY <1>1, <1>2, <1>4, <2>3, PartnerWaits
  <2>5. Has(stack[r], "Receive") /\ tk[r].dir = "RECEIVER"
    BY <1>1, <2>3, ReceiverWaits
  <2>6. tk[r].args = NULL
    BY <2>4, <2>5 DEF Carried, Carries
  <2>. DEFINE handed == [tk EXCEPT ![a].transfer = TRUE, ![r].dir = "NEITHER", ![r].args = m]
              w == [tk[r] EXCEPT !.dir = "NEITHER", !.args = m]
              v == [tk[a] EXCEPT !.transfer = TRUE]
              z == [tk[a] EXCEPT !.transfer = FALSE]
  <2>7. tk' = handed \/ tk' = [handed EXCEPT ![a].transfer = FALSE]
    BY <1>2, <1>4, <1>8, <2>2 DEF SendDelivers, Yield
  <2>8. /\ v.exc = tk[a].exc /\ z.exc = tk[a].exc /\ v.args = NULL /\ z.args = NULL
        /\ w.exc = tk[r].exc /\ w.dir = "NEITHER"
    BY <1>5, <2>4 DEF TaskletType
  <2>9. handed = [tk EXCEPT ![a] = v, ![r] = w]
    BY <1>2, <2>4
  <2>10. z = [v EXCEPT !.transfer = FALSE]
    BY <1>5 DEF TaskletType
  <2>. HIDE DEF handed, w, v, z
  <2>11. [handed EXCEPT ![a].transfer = FALSE] = [tk EXCEPT ![a] = z, ![r] = w]
    <3>1. handed[a] = v /\ handed = [u \in Tasklets |-> handed[u]]
      BY <1>2, <2>4, <2>9
    <3>2. [handed EXCEPT ![a].transfer = FALSE] = [handed EXCEPT ![a] = z]
      BY <2>10, <3>1
    <3>3. [handed EXCEPT ![a] = z] = [tk EXCEPT ![a] = z, ![r] = w]
      BY <1>2, <2>4, <2>9
    <3>. QED
      BY <3>2, <3>3
  <2>12. \/ tk' = [tk EXCEPT ![a] = v, ![r] = w]
         \/ tk' = [tk EXCEPT ![a] = z, ![r] = w]
    BY <2>7, <2>9, <2>11
  <2>13. /\ tk'[a].args = NULL /\ tk'[r] = w
         /\ \A u \in Tasklets \ {a, r} : Untold(u)
    BY <1>2, <2>4, <2>8, <2>12, TwoAreTold
  <2>14. Keeps(r)
    <3>1. stack'[r] = stack[r]
      BY <1>3, <1>4, <2>4
    <3>. QED
      BY <2>5, <2>6, <2>8, <2>13, <3>1 DEF Keeps, Carries
  <2>15. Keeps(a)
    BY <2>13, EmptyKeeps
  <2>. QED
    BY <1>3, <1>4, <2>13, <2>14, <2>15, OthersKeep
<1>. QED
  BY <1>1, <1>6, <1>7, <1>8

LEMMA ReceiveCarries ==
    ASSUME Control(Channels), Books, Carried, Prefers, NEW c \in Channels, Receive(c)
    PROVE  \A t \in Tasklets : Keeps(t)
<1>1. Calls("receive") /\ (ReceiveRefused(c) \/ ReceiveBlocks(c) \/ ReceiveTakes(c))
  BY DEF Receive
<1>2. /\ stack[active] = <<>> /\ q.current = active /\ active \in Tasklets
      /\ tk \in [Tasklets -> TaskletType]
  BY <1>1, CallIsQuiet
<1>3. \A u \in Tasklets \ {active} : stack'[u] = stack[u]
  <2>1. Local
    BY LocalSteps DEF ChannelCalls
  <2>. QED
    BY <2>1, LocalStays
<1>4. PICK a \in Tasklets : a = active
  BY <1>2
<1>5. tk[a] \in TaskletType /\ tk[a].args = NULL
  <2>1. ~Has(stack[a], "Send") /\ ~Has(stack[a], "Receive")
    BY <1>2, <1>4 DEF Has
  <2>. QED
    BY <1>2, <2>1, NothingCarried
<1>6. CASE ReceiveRefused(c) \/ ReceiveBlocks(c)
  <2>. DEFINE v == [tk[a] EXCEPT !.transfer = FALSE, !.dir = "NEITHER"]
              w == [tk[a] EXCEPT !.transfer = TRUE, !.dir = "RECEIVER"]
  <2>1. \/ tk' = [tk EXCEPT ![a].transfer = FALSE, ![a].dir = "NEITHER"]
        \/ tk' = [tk EXCEPT ![a].transfer = TRUE, ![a].dir = "RECEIVER"]
    BY <1>2, <1>4, <1>6 DEF ReceiveRefused, ReceiveBlocks, Yield
  <2>2. tk' = [tk EXCEPT ![a] = v] \/ tk' = [tk EXCEPT ![a] = w]
    BY <1>5, <2>1
  <2>3. /\ v.exc = tk[a].exc /\ v.args = NULL
        /\ w.exc = tk[a].exc /\ w.args = NULL
    BY <1>5 DEF TaskletType
  <2>. HIDE DEF v, w
  <2>4. tk'[a].args = NULL /\ \A u \in Tasklets \ {a} : Untold(u)
    BY <1>2, <2>2, <2>3, OneIsTold
  <2>. QED
    BY <1>3, <1>4, <2>4, EmptyKeeps, OthersKeep
<1>7. CASE ReceiveTakes(c)
  <2>. DEFINE s0 == Head(ch[c].send)
  <2>1. s0 \in Tasklets /\ B!In(s0, ch[c].send)
    BY <1>7, FrontWaits DEF ReceiveTakes, Books
  <2>2. PICK s \in Tasklets : s = s0
    BY <2>1
  <2>3. B!Waits(s, ch[c]) /\ B!In(s, ch[c].send)
    BY <2>1, <2>2 DEF B!Waits
  <2>4. s # a /\ tk[s] \in TaskletType
    BY <1>1, <1>2, <1>4, <2>3, PartnerWaits
  <2>. DEFINE g == tk[s].args
              moved == [tk EXCEPT ![a].transfer = TRUE, ![a].args = tk[s].args,
                                  ![s].transfer = FALSE, ![s].dir = "NEITHER", ![s].args = NULL]
              w == [tk[s] EXCEPT !.transfer = FALSE, !.dir = "NEITHER", !.args = NULL]
              v == [tk[a] EXCEPT !.transfer = TRUE, !.args = g]
              z == [tk[a] EXCEPT !.transfer = FALSE, !.args = NULL]
  <2>5. ch[c].preference # "SENDER"
    BY DEF Prefers
  <2>6. tk' = Taken(a, moved)
    BY <1>2, <1>4, <1>7, <2>2, <2>5 DEF ReceiveTakes
  <2>7. /\ z.exc = tk[a].exc /\ z.args = NULL /\ w.exc = tk[s].exc /\ w.args = NULL
    BY <1>5, <2>4 DEF TaskletType
  <2>8. moved = [tk EXCEPT ![a] = v, ![s] = w]
    BY <1>2, <1>5, <2>4 DEF TaskletType
  <2>9. z = [v EXCEPT !.transfer = FALSE, !.args = NULL]
    BY <1>5 DEF TaskletType
  <2>. HIDE DEF g, moved, w, v, z
  <2>10. Taken(a, moved) = [tk EXCEPT ![a] = z, ![s] = w]
    <3>1. moved[a] = v /\ moved = [u \in Tasklets |-> moved[u]]
      BY <1>2, <2>4, <2>8
    <3>2. Taken(a, moved) = [moved EXCEPT ![a] = z]
      BY <2>9, <3>1 DEF Taken
    <3>3. [moved EXCEPT ![a] = z] = [tk EXCEPT ![a] = z, ![s] = w]
      BY <1>2, <2>4, <2>8
    <3>. QED
      BY <3>2, <3>3
  <2>11. tk' = [tk EXCEPT ![a] = z, ![s] = w]
    BY <2>6, <2>10
  <2>12. /\ tk'[a].args = NULL /\ tk'[s].args = NULL
         /\ \A u \in Tasklets \ {a, s} : Untold(u)
    BY <1>2, <2>4, <2>7, <2>11, TwoAreTold
  <2>. QED
    BY <1>3, <1>4, <2>12, EmptyKeeps, OthersKeep
<1>. QED
  BY <1>1, <1>6, <1>7

(* Where a send or receive returns to Python code there is nothing under it. *)
LEMMA RestEnds ==
    ASSUME Control(Channels), OwnFrames, Meets, NEW k \in ChannelRests, AtThen(k), NEW r, Return(r)
    PROVE  /\ active \in Tasklets /\ Top.t = active /\ Top.k = k /\ active' = active
           /\ stack[active] \in Rests(Channels, active) /\ stack[active] # <<>>
           /\ \A j : Has(stack[active], j) <=> j = k
           /\ stack'[active] = <<>> /\ \A u \in Tasklets \ {active} : stack'[u] = stack[u]
<1>1. /\ stack[active] # <<>> /\ stack[active] \in Rests(Channels, active)
      /\ Top.k = k /\ active \in Tasklets
  BY RestOnTop DEF ChannelRests
<1>2. PICK a \in Tasklets : a = active
  BY <1>1
<1>. DEFINE S == Switching(a) \cup PlainFrames(Channels) \cup LimitedFrames
            s == stack[a]
<1>3. s \in Seq(S)
  BY StackIsASequence
<1>4. Top.t = a /\ Top = Head(s)
  BY <1>2, RestIsItsOwn DEF Top
<1>5. Lone(s) /\ s # <<>> /\ Head(s).k = k
  BY <1>1, <1>2, <1>4 DEF Meets
<1>. HIDE DEF S
<1>6. Tail(s) = <<>> /\ \A j : Has(s, j) <=> j = k
  <2>. HIDE DEF s
  <2>1. Tail(s) = <<>>
    BY <1>3, <1>5, WaitIsLast
  <2>2. \A j : Has(s, j) <=> Head(s).k = j \/ Has(Tail(s), j)
    BY <1>3, <1>5, TopAndTail
  <2>3. \A j : ~Has(<<>>, j)
    BY DEF Has
  <2>. QED
    BY <1>5, <2>1, <2>2, <2>3
<1>7. active' = a /\ stack' = [stack EXCEPT ![a] = <<>>]
  BY <1>2, <1>6 DEF Return, Continue
<1>8. stack'[a] = <<>> /\ \A u \in Tasklets \ {a} : stack'[u] = stack[u]
  BY <1>7 DEF Control, Stacks
<1>. QED
  BY <1>1, <1>2, <1>4, <1>6, <1>7, <1>8

LEMMA RestsCarry ==
    ASSUME Control(Channels), OwnFrames, Books, Meets, Carried,
           SendReturns \/ SendDeliveredReturns \/ ReceiveReturns \/ ReceiveTakenReturns
    PROVE  \A t \in Tasklets : Keeps(t)
<1>1. PICK k \in ChannelRests : AtThen(k)
  BY DEF SendReturns, SendDeliveredReturns, ReceiveReturns, ReceiveTakenReturns, ChannelRests
<1>2. PICK r : Return(r)
  BY DEF SendReturns, SendDeliveredReturns, ReceiveReturns, ReceiveTakenReturns
<1>3. /\ active \in Tasklets /\ Top.t = active /\ Top.k = k
      /\ \A j : Has(stack[active], j) <=> j = k
      /\ \A u \in Tasklets \ {active} : stack'[u] = stack[u]
  BY <1>1, <1>2, RestEnds
<1>4. PICK a \in Tasklets : a = active
  BY <1>3
<1>5. tk \in [Tasklets -> TaskletType] /\ tk[a] \in TaskletType
  BY DEF Control, Types, TaskletsFit
<1>. DEFINE v1 == [tk[a] EXCEPT !.transfer = FALSE]
            v2 == [tk[a] EXCEPT !.transfer = FALSE, !.args = NULL]
            v3 == [tk[a] EXCEPT !.transfer = FALSE, !.dir = "NEITHER", !.args = NULL]
<1>6. \/ tk' \in {Taken(a, tk), Withdrawn(a)}
      \/ /\ tk' \in {tk, [tk EXCEPT ![a].transfer = FALSE]}
         /\ k \in {"Send.delivered", "Receive.taken"} \/ (k = "Send" /\ ret = "ok")
  BY <1>3, <1>4 DEF SendReturns, SendDeliveredReturns, ReceiveReturns, ReceiveTakenReturns, AtThen
<1>7. k \in {"Send.delivered", "Receive.taken"} \/ (k = "Send" /\ ret = "ok") => tk[a].args = NULL
  <2>1. CASE k \in {"Send.delivered", "Receive.taken"}
    <3>1. ~Has(stack[a], "Send") /\ ~Has(stack[a], "Receive")
      BY <1>3, <1>4, <2>1
    <3>. QED
      BY <3>1, NothingCarried
  <2>2. CASE k = "Send" /\ ret = "ok"
    BY <1>1, <1>3, <1>4, <2>2, PartnersHaveCome DEF WokenByItsPartner
  <2>. QED
    BY <2>1, <2>2
<1>8. /\ Taken(a, tk) = [tk EXCEPT ![a] = v2] /\ Withdrawn(a) = [tk EXCEPT ![a] = v3]
      /\ [tk EXCEPT ![a].transfer = FALSE] = [tk EXCEPT ![a] = v1]
  BY <1>5 DEF Taken, Withdrawn
<1>9. /\ v1.exc = tk[a].exc /\ v2.exc = tk[a].exc /\ v3.exc = tk[a].exc
      /\ v1.args = tk[a].args /\ v2.args = NULL /\ v3.args = NULL
  BY <1>5 DEF TaskletType
<1>. HIDE DEF v1, v2, v3
<1>10. ASSUME NEW v \in {v1, v2, v3}, tk' = [tk EXCEPT ![a] = v], v.args = NULL
       PROVE  tk'[a].args = NULL /\ \A u \in Tasklets \ {a} : Untold(u)
  <2>1. v.exc = tk[a].exc
    BY <1>9
  <2>. QED
    BY <1>5, <1>10, <2>1, OneIsTold
<1>11. tk'[a].args = NULL /\ \A u \in Tasklets \ {a} : Untold(u)
  <2>1. CASE tk' = tk /\ tk[a].args = NULL
    BY <2>1 DEF Untold
  <2>2. CASE tk' \in {Taken(a, tk), Withdrawn(a)}
    BY <1>8, <1>9, <1>10, <2>2
  <2>3. CASE tk' = [tk EXCEPT ![a].transfer = FALSE] /\ tk[a].args = NULL
    BY <1>8, <1>9, <1>10, <2>3
  <2>. QED
    BY <1>6, <1>7, <2>1, <2>2, <2>3
<1>. QED
  BY <1>3, <1>4, <1>11, EmptyKeeps, OthersKeep

(* What the operations of a channel leave as it is. *)
LEMMA PreferenceStays ==
    ASSUME NEW b \in ChannelType(Tasklets), NEW t
    PROVE  /\ UpdateCloseState(b).preference = b.preference
           /\ UpdateCloseState(AddTaskletToWaitingToSend(b, t)).preference = b.preference
           /\ UpdateCloseState(AddTaskletToWaitingToReceive(b, t)).preference = b.preference
           /\ UpdateCloseState([b EXCEPT !.closing = TRUE]).preference = b.preference
           /\ [b EXCEPT !.closing = FALSE, !.closed = FALSE].preference = b.preference
<1>1. ASSUME NEW x, NEW y, NEW v
      PROVE  /\ [b EXCEPT !.send = x, !.balance = y].preference = b.preference
             /\ [b EXCEPT !.recv = x, !.balance = y].preference = b.preference
             /\ [b EXCEPT !.closed = x].preference = b.preference
             /\ [b EXCEPT !.closing = x, !.closed = y].preference = b.preference
             /\ [[b EXCEPT !.send = x, !.balance = y] EXCEPT !.closed = v].preference = b.preference
             /\ [[b EXCEPT !.recv = x, !.balance = y] EXCEPT !.closed = v].preference = b.preference
             /\ [[b EXCEPT !.closing = x] EXCEPT !.closed = v].preference = b.preference
  BY DEF ChannelType
<1>2. /\ UpdateCloseState(b).preference = b.preference
      /\ UpdateCloseState([b EXCEPT !.closing = TRUE]).preference = b.preference
  BY <1>1 DEF UpdateCloseState
<1>3. /\ UpdateCloseState(AddTaskletToWaitingToSend(b, t)).preference = b.preference
      /\ UpdateCloseState(AddTaskletToWaitingToReceive(b, t)).preference = b.preference
  BY <1>1 DEF UpdateCloseState, AddTaskletToWaitingToSend, AddTaskletToWaitingToReceive
<1>. QED
  BY <1>1, <1>2, <1>3

LEMMA RemovalPrefers ==
    ASSUME NEW b \in ChannelType(Tasklets), NEW t, NEW dir
    PROVE  /\ RemoveTaskletFromBlocked(b, t, dir).preference = b.preference
           /\ UpdateCloseState(RemoveTaskletFromBlocked(b, t, dir)).preference = b.preference
<1>1. ASSUME NEW x, NEW y, NEW z, NEW v
      PROVE  /\ [b EXCEPT !.recv = x, !.send = y, !.balance = z].preference = b.preference
             /\ [[b EXCEPT !.recv = x, !.send = y, !.balance = z] EXCEPT !.closed = v].preference
                  = b.preference
  BY DEF ChannelType
<1>2. RemoveTaskletFromBlocked(b, t, dir).preference = b.preference
  BY <1>1 DEF RemoveTaskletFromBlocked
<1>3. UpdateCloseState(RemoveTaskletFromBlocked(b, t, dir)).preference = b.preference
  BY <1>1 DEF UpdateCloseState, RemoveTaskletFromBlocked
<1>. QED
  BY <1>2, <1>3

LEMMA PreferencesStay ==
    ASSUME ch \in [Channels -> ChannelType(Tasklets)], NEW c \in Channels
    PROVE  /\ \A u : UpdateCloseState(AddTaskletToWaitingToSend(ch[c], u)).preference = ch[c].preference
           /\ \A u : UpdateCloseState(AddTaskletToWaitingToReceive(ch[c], u)).preference = ch[c].preference
           /\ \A u, dir : RemoveTaskletFromBlocked(ch[c], u, dir).preference = ch[c].preference
           /\ \A u, dir :
                 UpdateCloseState(RemoveTaskletFromBlocked(ch[c], u, dir)).preference = ch[c].preference
           /\ UpdateCloseState(ch[c]).preference = ch[c].preference
<1>. DEFINE b == ch[c]
<1>1. b \in ChannelType(Tasklets)
  OBVIOUS
<1>. HIDE DEF b
<1>2. /\ \A u : UpdateCloseState(AddTaskletToWaitingToSend(b, u)).preference = b.preference
      /\ \A u : UpdateCloseState(AddTaskletToWaitingToReceive(b, u)).preference = b.preference
  BY <1>1, PreferenceStays
<1>3. ASSUME NEW u, NEW dir
      PROVE  /\ RemoveTaskletFromBlocked(b, u, dir).preference = b.preference
             /\ UpdateCloseState(RemoveTaskletFromBlocked(b, u, dir)).preference = b.preference
  BY <1>1, RemovalPrefers
<1>4. /\ \A u, dir : RemoveTaskletFromBlocked(b, u, dir).preference = b.preference
      /\ \A u, dir : UpdateCloseState(RemoveTaskletFromBlocked(b, u, dir)).preference = b.preference
  BY <1>3
<1>5. UpdateCloseState(b).preference = b.preference
  BY <1>1, PreferenceStays
<1>. QED
  BY <1>2, <1>4, <1>5 DEF b

(* A step that changes one channel. *)
LEMMA OneChannelPrefers ==
    ASSUME Prefers, ch \in [Channels -> ChannelType(Tasklets)], NEW c, NEW y,
           ch' = [ch EXCEPT ![c] = y], c \in Channels => y.preference = ch[c].preference
    PROVE  Prefers'
<1>1. \A d \in Channels : ch'[d] = IF d = c THEN y ELSE ch[d]
  OBVIOUS
<1>. QED
  BY <1>1 DEF Prefers
LEMMA KillTaskletPrefers ==
    ASSUME Prefers, ch \in [Channels -> ChannelType(Tasklets)], NEW t, NEW pending,
           KillTasklet(t, pending, <<>>)
    PROVE  Prefers'
<1>. DEFINE c == q.blockedOn[t]
            y == RemoveTaskletFromBlocked(ch[c], t, tk[t].dir)
<1>1. ch' = ch \/ ch' = [ch EXCEPT ![c] = y]
  BY DEF KillTasklet
<1>2. c \in Channels => y.preference = ch[c].preference
  <2>. HIDE DEF c
  <2>1. SUFFICES ASSUME c \in Channels PROVE y.preference = ch[c].preference
    OBVIOUS
  <2>. QED
    BY <2>1, PreferencesStay, Zenon
<1>3. ch' = ch => Prefers'
  BY DEF Prefers
<1>. HIDE DEF c, y
<1>. QED
  BY <1>1, <1>2, <1>3, OneChannelPrefers

LEMMA NextPrefers ==
    ASSUME Prefers, ch \in [Channels -> ChannelType(Tasklets)], Next
    PROVE  Prefers'
<1>1. ch' = ch => Prefers'
  BY DEF Prefers
<1>2. ASSUME NEW t \in Tasklets, NEW pending \in BOOLEAN, Kill(t, pending) PROVE Prefers'
  BY <1>2, KillTaskletPrefers DEF Kill
<1>3. ASSUME NEW t \in Tasklets,
             \/ Run(t) \/ Setup(t) \/ Bind(t) \/ Unbind(t) \/ Insert(t) \/ Remove(t) \/ Switch(t)
             \/ \E pending \in BOOLEAN : Throw(t, pending)
      PROVE  ch' = ch
  <2>1. Run(t) \/ Setup(t) \/ Bind(t) \/ Unbind(t) => ch' = ch
    BY Zenon DEF Run, Setup, Bind, Unbind
  <2>2. Insert(t) \/ Remove(t) \/ Switch(t) => ch' = ch
    BY Zenon DEF Insert, Remove, Switch
  <2>3. \A pending : Throw(t, pending) => ch' = ch
    BY Zenon DEF Throw
  <2>. QED
    BY <1>3, <2>1, <2>2, <2>3
<1>4. /\ Schedule \/ ScheduleRemove \/ RunScheduler \/ RunTaskletsForTime => ch' = ch
      /\ \A n : RunNTasklets(n) => ch' = ch
      /\ \A delta : SwitchTrap(delta) => ch' = ch
  BY Zenon DEF Schedule, ScheduleRemove, RunScheduler, RunTaskletsForTime, RunNTasklets, SwitchTrap
<1>5. Finish \/ Raise \/ Propagate \/ Swallow \/ Catch => ch' = ch
  BY Zenon DEF Finish, Raise, Propagate, Swallow, Catch, Dies
<1>6. Scheduler => ch' = ch
  <2>1. SwitchReturns \/ RunEnds \/ RunCannotAdopt \/ RunSwitches => ch' = ch
    BY Zenon DEF SwitchReturns, RunEnds, RunCannotAdopt, RunSwitches
  <2>2. RunContinues \/ RunFails \/ YieldSwitches \/ YieldReturns => ch' = ch
    BY Zenon DEF RunContinues, RunFails, YieldSwitches, YieldReturns
  <2>3. YieldStaysBlocked \/ YieldMainReturns \/ SwitchYields \/ SwitchReturnsToCaller => ch' = ch
    BY Zenon DEF YieldStaysBlocked, YieldMainReturns, SwitchYields, SwitchReturnsToCaller
  <2>4. KillReturns \/ LimitedRunReturns => ch' = ch
    BY Zenon DEF KillReturns, LimitedRunReturns
  <2>. QED
    BY <2>1, <2>2, <2>3, <2>4, Zenon DEF Scheduler
<1>7. MainIdle => ch' = ch
  BY DEF MainIdle, vars
<1>. QED
  BY <1>1, <1>2, <1>3, <1>4, <1>5, <1>6, <1>7 DEF Next, Python

LEMMA ChannelCallsPrefer ==
    ASSUME Prefers, "preference" \notin AllOps, ch \in [Channels -> ChannelType(Tasklets)], ChannelCalls
    PROVE  Prefers'
<1>1. ch' = ch => Prefers'
  BY DEF Prefers
<1>2. ASSUME NEW c \in Channels, NEW y, y.preference = ch[c].preference, ch' = [ch EXCEPT ![c] = y]
      PROVE  Prefers'
  BY <1>2, OneChannelPrefers
<1>3. ASSUME NEW c \in Channels, NEW m, SendRefused(c, m) \/ SendBlocks(c, m) \/ SendDelivers(c, m)
      PROVE  Prefers'
  <2>. DEFINE r == Head(ch[c].recv)
              y == UpdateCloseState(AddTaskletToWaitingToSend(ch[c], q.current))
              z == UpdateCloseState(RemoveTaskletFromBlocked(ch[c], r, tk[r].dir))
  <2>1. ch' = ch \/ ch' = [ch EXCEPT ![c] = y] \/ ch' = [ch EXCEPT ![c] = z]
    BY <1>3 DEF SendRefused, SendBlocks, SendDelivers, Without
  <2>2. y.preference = ch[c].preference /\ z.preference = ch[c].preference
    BY PreferencesStay, Zenon
  <2>. HIDE DEF y, z
  <2>. QED
    BY <1>1, <1>2, <2>1, <2>2
<1>4. ASSUME NEW c \in Channels, Receive(c) PROVE Prefers'
  <2>. DEFINE s == Head(ch[c].send)
              y == UpdateCloseState(AddTaskletToWaitingToReceive(ch[c], q.current))
              z == UpdateCloseState(RemoveTaskletFromBlocked(ch[c], s, tk[s].dir))
  <2>1. ch' = ch \/ ch' = [ch EXCEPT ![c] = y] \/ ch' = [ch EXCEPT ![c] = z]
    BY <1>4 DEF Receive, ReceiveRefused, ReceiveBlocks, ReceiveTakes, Without
  <2>2. y.preference = ch[c].preference /\ z.preference = ch[c].preference
    BY PreferencesStay, Zenon
  <2>. HIDE DEF y, z
  <2>. QED
    BY <1>1, <1>2, <2>1, <2>2
<1>5. ASSUME NEW c \in Channels, Close(c) \/ Open(c) PROVE Prefers'
  <2>. DEFINE y == UpdateCloseState([ch[c] EXCEPT !.closing = TRUE])
              z == [ch[c] EXCEPT !.closing = FALSE, !.closed = FALSE]
  <2>1. ch' = [ch EXCEPT ![c] = y] \/ ch' = [ch EXCEPT ![c] = z]
    BY <1>5 DEF Close, Open
  <2>2. y.preference = ch[c].preference /\ z.preference = ch[c].preference
    BY PreferenceStays
  <2>. HIDE DEF y, z
  <2>. QED
    BY <1>2, <2>1, <2>2
<1>6. ASSUME NEW c, NEW p, SetPreference(c, p) PROVE FALSE
  BY <1>6 DEF SetPreference, Calls, AllOps
<1>7. \/ (\E c \in Channels : Clear(c)) \/ UnblockAllActiveChannels
      \/ \E value \in BOOLEAN : SetBlocktrap(value)
      => ch' = ch
  BY DEF Clear, UnblockAllActiveChannels, SetBlocktrap
<1>. QED
  BY <1>1, <1>3, <1>4, <1>5, <1>6, <1>7 DEF ChannelCalls, Send

LEMMA ChannelStepsPrefer ==
    ASSUME Prefers, ch \in [Channels -> ChannelType(Tasklets)], ChannelSteps
    PROVE  Prefers'
<1>1. ch' = ch => Prefers'
  BY DEF Prefers
<1>2. ASSUME SendReturns \/ SendDeliveredReturns \/ ReceiveReturns \/ ReceiveTakenReturns
      PROVE  Prefers'
  <2>. DEFINE c == Top.c
              y == UpdateCloseState(ch[c])
              z == UpdateCloseState(RemoveTaskletFromBlocked(ch[c], Top.t, tk[Top.t].dir))
  <2>1. ch' = ch \/ ch' = [ch EXCEPT ![c] = y] \/ ch' = [ch EXCEPT ![c] = z]
    BY <1>2 DEF SendReturns, SendDeliveredReturns, ReceiveReturns, ReceiveTakenReturns, Settled, Without
  <2>2. c \in Channels => y.preference = ch[c].preference /\ z.preference = ch[c].preference
    <3>. HIDE DEF c
    <3>1. SUFFICES ASSUME c \in Channels
                   PROVE  y.preference = ch[c].preference /\ z.preference = ch[c].preference
      OBVIOUS
    <3>. QED
      BY <3>1, PreferencesStay, Zenon
  <2>. HIDE DEF c, y, z
  <2>. QED
    BY <1>1, <2>1, <2>2, OneChannelPrefers
<1>3. ClearKills => Prefers'
  BY KillTaskletPrefers DEF ClearKills
<1>4. ClearGoesOn \/ ClearTurns \/ ClearEnds => ch' = ch
  BY Zenon DEF ClearGoesOn, ClearTurns, ClearEnds
<1>. QED
  BY <1>1, <1>2, <1>3, <1>4 DEF ChannelSteps

LEMMA ChannelNextCarries ==
    ASSUME Control(Channels), OwnFrames, Gentle, "preference" \notin AllOps, Books, Meets, Carried, Prefers,
           [ChannelNext]_vars
    PROVE  Prefers' /\ \A t \in Tasklets : Keeps(t)
<1>1. ch \in [Channels -> ChannelType(Tasklets)]
  BY DEF Control, Types, ChannelsFit
<1>2. ~Nested
  BY DEF Gentle, Flat
<1>3. ASSUME UNCHANGED vars PROVE Prefers' /\ \A t \in Tasklets : Keeps(t)
  <2>1. ch' = ch /\ tk' = tk /\ stack' = stack
    BY <1>3 DEF vars
  <2>2. AllHold /\ \A t \in Tasklets : Unread(t)
    BY <2>1 DEF AllHold, Holds, Unread
  <2>. QED
    BY <2>1, <2>2, CarriedAlong DEF Prefers
<1>4. ASSUME Next PROVE Prefers' /\ \A t \in Tasklets : Keeps(t)
  <2>1. Prefers'
    BY <1>1, <1>4, NextPrefers
  <2>2. ASSUME MainIdle PROVE \A t \in Tasklets : Keeps(t)
    BY <1>3, <2>2 DEF MainIdle
  <2>. QED
    BY <1>4, <2>1, <2>2, PythonCarries, SchedulerCarries DEF Next
<1>5. ASSUME ChannelCalls PROVE Prefers' /\ \A t \in Tasklets : Keeps(t)
  <2>1. Prefers'
    BY <1>1, <1>5, ChannelCallsPrefer
  <2>. QED
    BY <1>5, <2>1, SendCarries, ReceiveCarries, QuietChannelCallsCarry DEF ChannelCalls
<1>6. ASSUME ChannelSteps PROVE Prefers' /\ \A t \in Tasklets : Keeps(t)
  <2>1. Prefers'
    BY <1>1, <1>6, ChannelStepsPrefer
  <2>. QED
    BY <1>2, <1>6, <2>1, RestsCarry, KillsCarry, ClearStepsCarry DEF ChannelSteps
<1>. QED
  BY <1>3, <1>4, <1>5, <1>6 DEF ChannelNext

LEMMA InitCarries ==
    ASSUME Init
    PROVE  Carried /\ Prefers
BY DEF Init, Carried, Carries, Prefers, InitChannel

LEMMA CarriedAlways ==
    ASSUME Gentle, "preference" \notin AllOps
    PROVE  ChannelSpec =>
             [](Control(Channels) /\ OwnFrames /\ Books /\ Meets /\ Carried /\ Prefers)
<1>. DEFINE I == Control(Channels) /\ OwnFrames /\ Books /\ Meets
            J == Carried /\ Prefers
<1>1. ChannelSpec => []I
  BY MeetsAlways
<1>2. Init => J
  BY InitCarries
<1>3. I /\ J /\ [ChannelNext]_vars => J'
  BY ChannelNextCarries DEF Keeps, Carried
<1>. QED
  BY <1>1, <1>2, <1>3, PTL DEF ChannelSpec

(* A message that a tasklet holds is taken from it, or given up, before     *)
(* another is put in its place: whoever is given one has none, because it   *)
(* has nothing but the call it waits in on its stack.                       *)
THEOREM MessagesKept ==
    ASSUME Gentle, "preference" \notin AllOps
    PROVE  ChannelSpec => KeptUntilTaken
<1>. DEFINE I == Control(Channels) /\ OwnFrames /\ Books /\ Meets /\ Carried /\ Prefers
            A == \A t \in Tasklets : tk[t].args # NULL => tk'[t].args \in {tk[t].args, NULL}
<1>1. ChannelSpec => []I
  BY CarriedAlways
<1>2. I /\ [ChannelNext]_vars => [A]_vars
  BY ChannelNextCarries DEF Keeps
<1>. QED
  BY <1>1, <1>2, PTL DEF ChannelSpec, KeptUntilTaken

(* A tasklet that is back in its Python code has no message left, though    *)
(* its send or receive may have been cut short by a kill or an exception.   *)
THEOREM NoMessageLeft ==
    ASSUME Gentle, "preference" \notin AllOps
    PROVE  ChannelSpec => [](InCode => tk[active].args = NULL)
<1>1. Control(Channels) /\ Carried /\ InCode => tk[active].args = NULL
  <2>1. SUFFICES ASSUME Control(Channels), Carried, InCode PROVE tk[active].args = NULL
    OBVIOUS
  <2>2. active \in Tasklets
    BY <2>1 DEF Control, Types
  <2>3. stack[active] = <<>>
    BY <2>1 DEF InCode, Running, InPython
  <2>4. \A k : ~Has(<<>>, k)
    BY DEF Has
  <2>. QED
    BY <2>1, <2>2, <2>3, <2>4, NothingCarried
<1>. QED
  BY <1>1, CarriedAlways, PTL

================================================================================
