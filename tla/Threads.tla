-------------------------------- MODULE Threads --------------------------------
(***************************************************************************)
(* Threads that share channels.  Each thread has a ScheduleManager with a  *)
(* main tasklet and a run queue; a tasklet belongs to one thread.  A       *)
(* tasklet that is woken by a partner on another thread goes into the      *)
(* queue of its own.  When a thread's program has ended its manager kills  *)
(* the tasklets it has left, one after the other, until none is alive.     *)
(*                                                                         *)
(* Coarser than TaskletScheduler: nested tasklets are off, the queue is a  *)
(* sequence (QueueLine), and no exception is raised but by a kill.  C++    *)
(* code runs with the GIL: another thread takes over in Python code only.  *)
(***************************************************************************)
EXTENDS ChannelOps, FiniteSets

CONSTANTS
    Threads,    \* a thread is named by its main tasklet
    Tasklets,   \* main tasklets among them
    Home,       \* the thread of each tasklet
    Channels, NULL,
    Preferences,    \* the preferences the program gives its channels
    Ops             \* the calls Python code makes

ASSUME ThreadsAssumption ==
    /\ Threads \subseteq Tasklets /\ NULL \notin Tasklets
    /\ Home \in [Tasklets -> Threads] /\ \A th \in Threads : Home[th] = th
    /\ Preferences \subseteq Direction

VARIABLES
    queue,  \* the run queue of each thread, its main tasklet left out
    cur,    \* the current tasklet of each thread
    loop,   \* how far ScheduleManager::Run of the main tasklet is
    phase,  \* whether the thread's program goes on
    gil,    \* the thread that is in C++ code, or NULL
    tk,     \* the tasklets
    ch      \* the channels

vars == <<queue, cur, loop, phase, gil, tk, ch>>

(* A tasklet is at "code" in Python code, or at the rest of a call that has *)
(* given control away.                                                     *)
InitWith(channel) ==
    /\ queue = [th \in Threads |-> <<>>]
    /\ cur = [th \in Threads |-> th]
    /\ loop = [th \in Threads |-> "off"]
    /\ phase = [th \in Threads |-> "up"]
    /\ gil = NULL
    /\ tk = [t \in Tasklets |->
               [at |-> IF t \in Threads THEN "code" ELSE "unborn", on |-> NULL,
                alive |-> t \in Threads, dir |-> "NEITHER", blocked |-> FALSE,
                transfer |-> FALSE, again |-> FALSE, exc |-> FALSE,
                args |-> NULL]]
    /\ ch = [c \in Channels |-> channel]

Init == InitWith(InitChannel)

--------------------------------------------------------------------------------
Turn(th) == gil \in {NULL, th} /\ phase[th] # "over"

(* t runs Python code. *)
InPython(t) ==
    LET th == Home[t]
    IN  Turn(th) /\ cur[th] = t /\ tk[t].at = "code" /\ (t = th => loop[th] = "off")

Calls(t, op) ==
    /\ op \in Ops
    /\ InPython(t) /\ ~tk[t].exc
    /\ t \in Threads => phase[t] = "up"

InQueue(t) == \E i \in DOMAIN queue[Home[t]] : queue[Home[t]][i] = t

(* InsertTasklet of the manager of t.  The main tasklet is always queued.  *)
Inserted(t) ==
    IF t \in Threads \/ InQueue(t) THEN queue
    ELSE [queue EXCEPT ![Home[t]] = Append(@, t)]

(* InsertTaskletToRunNext of the manager of t: behind its current tasklet. *)
InsertedToRunNext(t) ==
    LET h == Home[t]
    IN  IF t \in Threads THEN queue
        ELSE [queue EXCEPT ![h] = IF cur[h] = h THEN <<t>> \o @ ELSE <<Head(@), t>> \o Tail(@)]

(* The current tasklet of th gives control away, with queues q0 and        *)
(* tasklets tk0: the main tasklet to the loop of Run, another back to it,  *)
(* which takes it out of the queue and puts it back if it is marked.       *)
Yields(th, q0, tk0) ==
    LET t == cur[th]
    IN  /\ gil' = th
        /\ IF t = th
           THEN /\ loop' = [loop EXCEPT ![th] = IF tk0[th].blocked THEN "until" ELSE "on"]
                /\ queue' = q0 /\ tk' = tk0 /\ UNCHANGED cur
           ELSE /\ cur' = [cur EXCEPT ![th] = th]
                /\ queue' = [q0 EXCEPT ![th] = IF tk0[t].again THEN Append(Tail(@), t) ELSE Tail(@)]
                /\ tk' = [tk0 EXCEPT ![t].again = FALSE]
                /\ loop' = [loop EXCEPT ![th] = IF @ = "until" /\ ~tk0[th].blocked THEN "last" ELSE @]
    /\ UNCHANGED phase

(* SetReschedule(BACK), which nobody reads on a main tasklet. *)
Marked(tk0, t) == [tk0 EXCEPT ![t].again = t \notin Threads]

(* The current tasklet goes on in Python code. *)
GoesOn == gil' = NULL /\ UNCHANGED <<queue, cur, loop, phase>>

--------------------------------------------------------------------------------
(* The loop of Run. *)

LoopRuns(th) == Turn(th) /\ cur[th] = th /\ loop[th] # "off"

(* A tasklet that is killed before its first switch ends without starting; *)
(* the greenlet of one that has ended comes back at once.  The flags that  *)
(* keep it alive stay, and so does what was raised if it is not current.   *)
LoopSkips(th) ==
    /\ LoopRuns(th) /\ loop[th] # "last" /\ queue[th] # <<>>
    /\ LET t == Head(queue[th])
       IN  /\ tk[t].at = "done" \/ (tk[t].at = "new" /\ tk[t].exc)
           /\ tk' = [tk EXCEPT ![t].exc = FALSE, ![t].at = "done",
                               ![t].alive = @ /\ tk[t].at = "done"]
    /\ queue' = [queue EXCEPT ![th] = Tail(@)]
    /\ gil' = th
    /\ UNCHANGED <<cur, loop, phase, ch>>

LoopSwitches(th) ==
    /\ LoopRuns(th) /\ loop[th] # "last" /\ queue[th] # <<>>
    /\ LET t == Head(queue[th])
       IN  /\ tk[t].at # "done" /\ ~(tk[t].at = "new" /\ tk[t].exc)
           /\ cur' = [cur EXCEPT ![th] = t]
           /\ tk' = [tk EXCEPT ![t].at = IF @ = "new" THEN "code" ELSE @]
           /\ gil' = IF tk[t].at \in {"new", "code"} THEN NULL ELSE th
    /\ UNCHANGED <<queue, loop, phase, ch>>

LoopEnds(th) ==
    /\ LoopRuns(th)
    /\ queue[th] = <<>> \/ loop[th] = "last"
    /\ loop' = [loop EXCEPT ![th] = "off"]
    /\ gil' = IF tk[th].at = "code" /\ phase[th] = "up" THEN NULL ELSE th
    /\ UNCHANGED <<queue, cur, phase, tk, ch>>

--------------------------------------------------------------------------------
(* Calls of the tasklet t. *)

(* A tasklet is created on the thread that it is created by. *)
Setup(t, u) ==
    /\ Calls(t, "setup")
    /\ tk[u].at = "unborn" /\ Home[u] = Home[t]
    /\ tk' = [tk EXCEPT ![u].at = "new", ![u].alive = TRUE]
    /\ queue' = Inserted(u)
    /\ gil' = NULL
    /\ UNCHANGED <<cur, loop, phase, ch>>

(* The main tasklet's schedule() and run() do the same. *)
Schedule(t) ==
    /\ Calls(t, "schedule")
    /\ Yields(Home[t], queue, Marked(tk, t))
    /\ UNCHANGED ch

(* Faulty: a tasklet that is blocked is not run.                           *)
KillNotRun(th, t) ==
    IF tk[t].blocked THEN gil' = th /\ UNCHANGED <<queue, cur, loop, phase, tk>>
    ELSE Yields(th, [queue EXCEPT ![th] = <<t>> \o Unlinked(@, t)],
                [tk EXCEPT ![t].exc = TRUE, ![t].again = FALSE])

(* Kill, by the main tasklet of th: t is put to run next, and all that are  *)
(* queued run.  It stays on its channel until it runs.                      *)
Killed(th, t) ==
    Yields(th, [queue EXCEPT ![th] = <<t>> \o Unlinked(@, t)],
           [tk EXCEPT ![t].blocked = FALSE, ![t].exc = TRUE, ![t].again = FALSE])

(* A tasklet of another thread is refused. *)
Kill(th, t) ==
    /\ th \in Threads /\ Calls(th, "kill")
    /\ t \notin Threads /\ Home[t] = th /\ tk[t].alive
    /\ Killed(th, t)
    /\ UNCHANGED ch

SetPreference(t, c, p) ==
    /\ Calls(t, "preference")
    /\ ch' = [ch EXCEPT ![c].preference = p]
    /\ GoesOn
    /\ UNCHANGED tk

(* The code of t ends.  Left in the middle of a transfer, t stays alive.   *)
Ends(t) ==
    /\ InPython(t) /\ t \notin Threads
    /\ Yields(Home[t], queue, [tk EXCEPT ![t].at = "done", ![t].exc = FALSE, ![t].alive = @ /\ tk[t].transfer])
    /\ UNCHANGED ch

Catch(t) ==
    /\ "catch" \in Ops
    /\ InPython(t) /\ tk[t].exc
    /\ tk' = [tk EXCEPT ![t].exc = FALSE]
    /\ GoesOn
    /\ UNCHANGED ch

--------------------------------------------------------------------------------
(* Channels; Calls is left to whoever makes the call. *)

Closed(c) == ch[c].closing \/ ch[c].closed
Without(c, t) == UpdateCloseState(RemoveTaskletFromBlocked(ch[c], t, tk[t].dir))

(* Faulty: the partner is queued on the thread that calls.                 *)
WakesHere(p, t, tk0, runNext, rest) ==
    LET here == IF p \in Threads THEN queue ELSE [queue EXCEPT ![Home[t]] = Append(@, p)]
    IN  IF runNext THEN Yields(Home[t], here, Marked([tk0 EXCEPT ![t].at = rest], t))
        ELSE gil' = NULL /\ queue' = here /\ tk' = tk0 /\ UNCHANGED <<cur, loop, phase>>

(* The partner p of t is queued, next on its thread if the channel prefers *)
(* it: then t gives control away before it goes on with the rest.          *)
Wakes(p, t, tk0, runNext, rest) ==
    IF runNext
    THEN Yields(Home[t], InsertedToRunNext(p), Marked([tk0 EXCEPT ![t].at = rest], t))
    ELSE gil' = NULL /\ queue' = Inserted(p) /\ tk' = tk0 /\ UNCHANGED <<cur, loop, phase>>

SendRefused(t, c) ==
    /\ ch[c].recv = <<>> /\ Closed(c)
    /\ tk' = [tk EXCEPT ![t].transfer = TRUE]
    /\ GoesOn
    /\ UNCHANGED ch

SendBlocks(t, c, m) ==
    /\ ch[c].recv = <<>> /\ ~Closed(c)
    /\ ch' = [ch EXCEPT ![c] = UpdateCloseState(AddTaskletToWaitingToSend(@, t))]
    /\ Yields(Home[t], queue, [tk EXCEPT ![t].at = "Send", ![t].on = c, ![t].dir = "SENDER",
                                         ![t].blocked = TRUE, ![t].transfer = TRUE, ![t].args = m])

(* Faulty: only a receiver that is to run next is given the message.       *)
SendDeliversInPart(t, c, m) ==
    /\ ch[c].recv # <<>>
    /\ LET r == Head(ch[c].recv)
           next == ch[c].preference = "RECEIVER"
       IN  /\ ch' = [ch EXCEPT ![c] = Without(c, r)]
           /\ Wakes(r, t, [tk EXCEPT ![r].blocked = FALSE, ![r].dir = "NEITHER",
                                     ![r].args = IF next THEN m ELSE NULL,
                                     ![t].on = IF next THEN c ELSE NULL, ![t].transfer = next],
                    next, "Send.delivered")

SendDelivers(t, c, m) ==
    /\ ch[c].recv # <<>>
    /\ LET r == Head(ch[c].recv)
           next == ch[c].preference = "RECEIVER"
       IN  /\ ch' = [ch EXCEPT ![c] = Without(c, r)]
           /\ Wakes(r, t, [tk EXCEPT ![r].blocked = FALSE, ![r].dir = "NEITHER", ![r].args = m,
                                     ![t].on = IF next THEN c ELSE NULL, ![t].transfer = next],
                    next, "Send.delivered")

Send(t, c, m) == SendRefused(t, c) \/ SendBlocks(t, c, m) \/ SendDelivers(t, c, m)

(* t is made to raise; or it is a main tasklet that nobody has woken before *)
(* its queue was empty ("Deadlock").                                        *)
Fails(t) == tk[t].exc \/ tk[t].blocked

Resumes(t, rest) ==
    /\ Turn(Home[t]) /\ cur[Home[t]] = t /\ tk[t].at = rest
    /\ t \in Threads => loop[t] = "off"
    /\ GoesOn

(* What was raised on a tasklet stays to be handled in its Python code; the *)
(* deadlock error is handled by the main tasklet at once.                   *)
Back(t) == [tk[t] EXCEPT !.at = "code", !.on = NULL, !.blocked = FALSE]

SendReturns(t) ==
    /\ Resumes(t, "Send")
    /\ IF Fails(t)
       THEN ch' = [ch EXCEPT ![tk[t].on] = Without(tk[t].on, t)]
       ELSE ch' = [ch EXCEPT ![tk[t].on] = UpdateCloseState(@)]
    /\ tk' = [tk EXCEPT ![t] = [Back(t) EXCEPT !.transfer = FALSE, !.dir = "NEITHER", !.args = NULL]]

SendDeliveredReturns(t) ==
    /\ Resumes(t, "Send.delivered")
    /\ tk' = [tk EXCEPT ![t] = [Back(t) EXCEPT !.transfer = tk[t].exc]]
    /\ ch' = [ch EXCEPT ![tk[t].on] = UpdateCloseState(@)]

ReceiveRefused(t, c) ==
    /\ ch[c].send = <<>> /\ Closed(c)
    /\ tk' = [tk EXCEPT ![t].transfer = FALSE]
    /\ GoesOn
    /\ UNCHANGED ch

ReceiveBlocks(t, c) ==
    /\ ch[c].send = <<>> /\ ~Closed(c)
    /\ ch' = [ch EXCEPT ![c] = UpdateCloseState(AddTaskletToWaitingToReceive(@, t))]
    /\ Yields(Home[t], queue, [tk EXCEPT ![t].at = "Receive", ![t].on = c, ![t].dir = "RECEIVER",
                                         ![t].blocked = TRUE, ![t].transfer = TRUE])

ReceiveTakes(t, c) ==
    /\ ch[c].send # <<>>
    /\ LET s == Head(ch[c].send)
           next == ch[c].preference = "SENDER"
       IN  /\ ch' = [ch EXCEPT ![c] = Without(c, s)]
           /\ Wakes(s, t, [tk EXCEPT ![s].blocked = FALSE, ![s].dir = "NEITHER", ![s].args = NULL,
                                     ![s].transfer = FALSE,
                                     ![t].on = IF next THEN c ELSE NULL, ![t].transfer = next,
                                     ![t].args = IF next THEN tk[s].args ELSE NULL],
                    next, "Receive.taken")

Receive(t, c) == ReceiveRefused(t, c) \/ ReceiveBlocks(t, c) \/ ReceiveTakes(t, c)

ReceiveReturns(t) ==
    /\ Resumes(t, "Receive")
    /\ ch' = IF Fails(t) THEN [ch EXCEPT ![tk[t].on] = Without(tk[t].on, t)] ELSE ch
    /\ tk' = [tk EXCEPT ![t] = [Back(t) EXCEPT !.transfer = FALSE, !.dir = "NEITHER", !.args = NULL]]

(* The message stays with a receiver that is made to raise here. *)
ReceiveTakenReturns(t) ==
    /\ Resumes(t, "Receive.taken")
    /\ ch' = IF Fails(t) THEN [ch EXCEPT ![tk[t].on] = UpdateCloseState(@)] ELSE ch
    /\ tk' = [tk EXCEPT ![t] = IF Fails(t) THEN Back(t) ELSE [Back(t) EXCEPT !.transfer = FALSE, !.args = NULL]]

Close(t, c) ==
    /\ Calls(t, "close")
    /\ ch' = [ch EXCEPT ![c] = UpdateCloseState([@ EXCEPT !.closing = TRUE])]
    /\ GoesOn
    /\ UNCHANGED tk

--------------------------------------------------------------------------------
(* The end of a thread: ~ScheduleManager and ClearThreadTasklets. *)

(* The program of the thread ends, and the loop over its tasklets starts.  *)
EndThread(th) ==
    /\ Calls(th, "end")
    /\ phase' = [phase EXCEPT ![th] = "ending"]
    /\ gil' = th
    /\ UNCHANGED <<queue, cur, loop, tk, ch>>

Clearing(th) == phase[th] = "ending" /\ InPython(th)

Left(th) == {t \in Tasklets \ Threads : Home[t] = th /\ tk[t].alive}

ClearKills(th, t) ==
    /\ Clearing(th) /\ t \in Left(th)
    /\ Killed(th, t)
    /\ UNCHANGED ch

(* Faulty: each tasklet is killed once, and may have handled it.           *)
ClearEndsEarly(th) ==
    /\ Clearing(th) /\ \A t \in Left(th) : tk[t].at # "new"
    /\ phase' = [phase EXCEPT ![th] = "over"]
    /\ gil' = NULL
    /\ UNCHANGED <<queue, cur, loop, tk, ch>>

ClearEnds(th) ==
    /\ Clearing(th) /\ Left(th) = {}
    /\ phase' = [phase EXCEPT ![th] = "over"]
    /\ gil' = NULL
    /\ UNCHANGED <<queue, cur, loop, tk, ch>>

--------------------------------------------------------------------------------
Python(t) ==
    \/ \E u \in Tasklets : Setup(t, u) \/ Kill(t, u)
    \/ Schedule(t) \/ Ends(t) \/ Catch(t)
    \/ \E c \in Channels : Close(t, c) \/ \E p \in Preferences : SetPreference(t, c, p)
    \/ t \in Threads /\ EndThread(t)

ChannelCalls(t) ==
    \E c \in Channels : (Calls(t, "send") /\ Send(t, c, t)) \/ (Calls(t, "receive") /\ Receive(t, c))

Rest(t) == SendReturns(t) \/ SendDeliveredReturns(t) \/ ReceiveReturns(t) \/ ReceiveTakenReturns(t)

Loop(th) == LoopSkips(th) \/ LoopSwitches(th) \/ LoopEnds(th)

Clear(th) == ClearEnds(th) \/ \E t \in Tasklets : ClearKills(th, t)

AllOver == (\A th \in Threads : phase[th] = "over") /\ UNCHANGED vars

Cpp == (\E th \in Threads : Loop(th) \/ Clear(th)) \/ \E t \in Tasklets : Rest(t)

Next == (\E t \in Tasklets : Python(t) \/ ChannelCalls(t)) \/ Cpp \/ AllOver

Spec == Init /\ [][Next]_vars

(* C++ code runs on.  Every thread gets the GIL now and then, and a tasklet *)
(* that gets to run again and again ends some day: it does not handle what  *)
(* it is made to raise for ever.                                            *)
FairSpec ==
    /\ Spec
    /\ WF_vars(Cpp)
    /\ \A t \in Tasklets \ Threads : SF_vars(Ends(t))

--------------------------------------------------------------------------------
(* Threads change the channels only in the ways ChannelBook allows.         *)
Book == INSTANCE ChannelBook
BookSpec == Book!Spec

(* A tasklet waits in the queue of its own thread, and there once, unless   *)
(* it is blocked, on a channel that has it listed; whichever thread woke    *)
(* it, put it to run next or killed it, and whatever ran there meanwhile.   *)
QueuedAtHome == gil = NULL =>
    /\ \A th \in Threads : \A i, j \in DOMAIN queue[th] :
          Home[queue[th][i]] = th /\ (i # j => queue[th][i] # queue[th][j])
    /\ \A t \in Tasklets \ Threads :
          tk[t].alive /\ tk[t].at # "done" =>
              IF tk[t].blocked THEN ~InQueue(t) /\ Book!Listed(tk[t].on, t) ELSE InQueue(t)

(* A send or receive that is no longer blocked, and is not made to raise,   *)
(* has met its partner: on whatever thread that was, the message was taken, *)
(* or is there.                                                             *)
WokenByItsPartner == \A t \in Tasklets : ~tk[t].blocked /\ ~tk[t].exc =>
    /\ tk[t].at = "Send" => tk[t].args = NULL
    /\ tk[t].at = "Receive" => tk[t].args # NULL

(* Nothing of a thread that has ended is left where another thread would    *)
(* still find it: no tasklet in its queue, and none of its own on a channel. *)
NothingLeft == \A th \in Threads : phase[th] = "over" =>
    /\ queue[th] = <<>>
    /\ \A t \in Tasklets : Home[t] = th => \A c \in Channels : ~Book!Listed(c, t)

(* A tasklet whose code has ended, but which counts as alive because it was *)
(* in the middle of a transfer: a kill has no effect on it.                 *)
Undead(t) == tk[t].alive /\ tk[t].at = "done"

(* A thread comes to its end, unless a tasklet is left, on it or on another *)
(* thread that ends and keeps the GIL, that is undead.                      *)
TeardownEnds == \A th \in Threads :
    phase[th] = "ending" ~>
        \/ phase[th] = "over"
        \/ \E u \in Threads : phase[u] = "ending" /\ \E t \in Left(u) : Undead(t)

(* "When a thread with a scheduleManager finishes, each tasklet associated  *)
(* with it will be killed".                                                 *)
TeardownCompletes == \A th \in Threads : phase[th] = "ending" ~> phase[th] = "over"
================================================================================
