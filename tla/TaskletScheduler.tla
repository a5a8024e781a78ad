---------------------------- MODULE TaskletScheduler ----------------------------
(***************************************************************************)
(* One thread of the scheduler: its ScheduleManager, its Tasklet objects   *)
(* and the greenlet each runs on.                                          *)
(*                                                                         *)
(* Every greenlet has a C stack of its own, so a call into the scheduler   *)
(* can be suspended in the middle of ScheduleManager::Run or Yield while   *)
(* another greenlet runs, makes calls of its own and changes the queue     *)
(* under it.  stack[t] holds the suspended calls of tasklet t's greenlet,  *)
(* innermost first; an empty stack is Python code.  One action is what the *)
(* C++ code does from one point where control can move to another          *)
(* greenlet, or return to Python, to the next such point.                  *)
(***************************************************************************)
EXTENDS RunQueueOps, ChannelOps

CONSTANTS
    Nested,     \* s_useNestedTasklets
    MainOps,    \* the calls the main tasklet's Python code makes
    TaskletOps, \* the calls the Python code of the other tasklets makes
    MaxLimit    \* the largest n passed to run_n_tasklets

ASSUME NestedAssumption == Nested \in BOOLEAN
ASSUME MaxLimitAssumption == MaxLimit \in Nat

Errors == {"TaskletExit", "Error"}

VARIABLES
    q,          \* the queue, m_currentTasklet and the fields of RunQueueOps
    tk,         \* the other fields of each Tasklet
    gl,         \* the greenlets: [state, parent]
    stack,      \* the calls suspended on each greenlet
    active,     \* the greenlet that is running
    ret,        \* what the code about to continue is handed: "none", "ok" or an exception
    mgr,        \* the run limits and the switch trap of the ScheduleManager
    ch          \* the channels

vars == <<q, tk, gl, stack, active, ret, mgr, ch>>

(* What a tasklet sends: a value, or an exception the receiver is to raise. *)
Message == [from : Tasklets, exception : BOOLEAN]

TaskletType ==
    [alive : BOOLEAN, paused : BOOLEAN, firstRun : BOOLEAN, tagged : BOOLEAN,
     remove : BOOLEAN, killPending : BOOLEAN, transfer : BOOLEAN,
     exc : Errors \cup {"none"}, parent : Tasklets \cup {NULL},
     blockTrap : BOOLEAN, dir : Direction, args : Message \cup {NULL}]

GreenletType ==
    [state : {"unborn", "new", "started", "dead"}, parent : Tasklets \cup {NULL}]

ManagerType ==
    [runType : {"STANDARD", "TASKLET_LIMITED", "TIME_LIMITED"},
     limit : -1 .. MaxLimit, stop : BOOLEAN, firstTestSkipped : BOOLEAN, trap : Nat]

(* A frame of ScheduleManager::Run: its locals, and where it stands: at the *)
(* head of the loop, inside the greenlet switch to sw, or past SwitchTo.    *)
RunFrame(base, end, until) ==
    [k |-> "Run", base |-> base, end |-> end, until |-> until, done |-> FALSE,
     pc |-> "head", sw |-> NULL]

(* A frame of ScheduleManager::Yield, called with t current. *)
YieldFrame(t) == [k |-> "Yield", t |-> t, pc |-> "head", sw |-> NULL]

(* The rest of a caller, to be executed when the call above it returns. *)
Then(k, t) == [k |-> k, t |-> t]

Init ==
    /\ q = InitQueue
    /\ tk = [t \in Tasklets |->
               [alive |-> t = Main, paused |-> FALSE, firstRun |-> TRUE, tagged |-> FALSE,
                remove |-> FALSE, killPending |-> FALSE, transfer |-> FALSE,
                exc |-> "none", parent |-> NULL, blockTrap |-> FALSE,
                dir |-> "NEITHER", args |-> NULL]]
    /\ gl = [t \in Tasklets |->
               [state |-> IF t = Main THEN "started" ELSE "unborn", parent |-> NULL]]
    /\ stack = [t \in Tasklets |-> <<>>]
    /\ active = Main
    /\ ret = "none"
    /\ mgr = [runType |-> "STANDARD", limit |-> -1, stop |-> FALSE,
              firstTestSkipped |-> FALSE, trap |-> 0]
    /\ ch = [c \in Channels |-> InitChannel]

--------------------------------------------------------------------------------
(* Greenlets, as the code uses them. *)

(* Switching to a dead greenlet goes to the nearest ancestor not dead. *)
Landing(g, t) ==
    LET up[n \in 0..Cardinality(Tasklets)] ==
            IF n = 0 THEN t
            ELSE IF g[up[n-1]].state = "dead" THEN g[up[n-1]].parent ELSE up[n-1]
    IN  up[Cardinality(Tasklets)]

(* t and the greenlets above it. *)
Lineage(g, t) ==
    LET up[n \in 0..Cardinality(Tasklets)] ==
            IF n = 0 THEN t ELSE IF up[n-1] = NULL THEN NULL ELSE g[up[n-1]].parent
    IN  {up[n] : n \in 0..Cardinality(Tasklets)} \ {NULL}

(* PyGreenlet_SetParent refuses to close a cycle. *)
RefusesParent(t, p) == t \in Lineage(gl, p)

(* Faulty: a tasklet keeps the parent it has.                              *)
AdoptedOnce(tk0, t, p) == IF tk0[t].parent # NULL THEN tk0 ELSE [tk0 EXCEPT ![t].parent = p]

(* Tasklet::SetParent where it succeeds, on the tasklet and on its greenlet *)
(* where a null parent makes it a child of the main greenlet.               *)
Adopted(tk0, t, p) == [tk0 EXCEPT ![t].parent = p]

Parented(g, t, p) == [g EXCEPT ![t].parent = IF p = NULL THEN Main ELSE p]

--------------------------------------------------------------------------------
(* Control: calling, returning, switching. *)

Top == Head(stack[active])

AtFrame(kind, pc) ==
    /\ ~q.nullDeref
    /\ stack[active] # <<>>
    /\ Top.k = kind
    /\ Top.pc = pc

AtThen(kind) ==
    /\ ~q.nullDeref
    /\ stack[active] # <<>>
    /\ Top.k = kind
    /\ ret # "none"

(* Python code of t is running; an exception is propagating in it or not. *)
InPython(t) == active = t /\ stack[t] = <<>> /\ ~q.nullDeref
Running(t) == InPython(t) /\ ret = "none"
Calls(op) == Running(active) /\ op \in (IF active = Main THEN MainOps ELSE TaskletOps)
Raising(t) == InPython(t) /\ ret \in Errors

(* Leave the active greenlet with the frames fs and the outcome r. Python  *)
(* code that is handed "ok" just goes on.                                  *)
Continue(fs, r) ==
    /\ stack' = [stack EXCEPT ![active] = fs]
    /\ ret' = IF fs = <<>> /\ r = "ok" THEN "none" ELSE r
    /\ active' = active

Push(fs) == Continue(fs \o stack[active], "none")
Answer(conts, r) == Continue(conts \o stack[active], r)
Return(r) == Continue(Tail(stack[active]), r)

(* Faulty: only switches of the main tasklet are trapped.                  *)
TrappedOnMain == mgr.trap > 0 /\ active = Main

IsSwitchTrapped == mgr.trap > 0

(* Faulty: a pending kill does not end a tasklet that has not started.     *)
DiesIfNotPending(tk0, x) == tk0[x].firstRun /\ tk0[x].exc = "TaskletExit" /\ ~tk0[x].killPending

(* A tasklet killed before its first switch ends here, quietly. *)
DiesUnstarted(tk0, x) == tk0[x].firstRun /\ tk0[x].exc = "TaskletExit"

(* Faulty: the killed tasklet is not marked dead.                          *)
StaysAlive(tk0, x) == tk0

DeadUnstarted(tk0, x) == [tk0 EXCEPT ![x].alive = FALSE]

(* Tasklet::SwitchTo before and at PyGreenlet_Switch.  f is the frame that *)
(* calls it and waits; q0, tk0 and g0 are what that caller has changed.    *)
SwitchTo(f, x, q0, tk0, g0) ==
    LET Back(tk1, r) ==
            /\ Continue(<<[f EXCEPT !.pc = "out", !.sw = x]>> \o Tail(stack[active]), r)
            /\ q' = q0 /\ tk' = tk1 /\ gl' = g0
        Go ==
            LET to == Landing(g0, x)
            IN  /\ stack' = [stack EXCEPT ![active] =
                                <<[f EXCEPT !.pc = "in", !.sw = x]>> \o Tail(@)]
                /\ active' = to
                /\ ret' = IF g0[to].state = "new" THEN "none" ELSE "ok"
                /\ q' = SetCurrentTasklet(q0, x)
                /\ tk' = [tk0 EXCEPT ![x].paused = FALSE, ![x].firstRun = FALSE]
                /\ gl' = [g0 EXCEPT ![to].state = "started"]
    IN  IF IsSwitchTrapped THEN Back(tk0, "Error")
        ELSE IF DiesUnstarted(tk0, x) THEN Back(DeadUnstarted(tk0, x), "ok")
        ELSE IF tk0[x].firstRun /\ tk0[x].exc = "Error"
             THEN Back([tk0 EXCEPT ![x].exc = "none", ![x].remove = TRUE], "Error")
        ELSE Go

(* Faulty: the reschedule mark of a tasklet is not looked at.              *)
CameBackWaiting(x) == IsBlocked(q, x) \/ tk[x].transfer \/ x = Main \/ tk[x].paused \/ tk[x].tagged

(* Tasklet::SwitchTo past PyGreenlet_Switch: an exception waiting for the  *)
(* current tasklet is raised; else the tasklet that was switched to is     *)
(* taken for finished unless one of its flags says why it came back.       *)
CameBackUnfinished(x) ==
    \/ IsBlocked(q, x) \/ tk[x].transfer \/ x = Main \/ tk[x].paused
    \/ q.reschedule[x] # "NONE" \/ tk[x].tagged

AfterSwitch(x, r) ==
    [tk EXCEPT ![x].alive = @ /\ CameBackUnfinished(x),
               ![x].paused = @ \/ tk[x].tagged,
               ![x].tagged = FALSE,
               ![x].remove = @ \/ r # "ok"]

(* Faulty: the exception of the tasklet that was switched to.              *)
ResumedIsTarget == Top.sw

(* Whose waiting exception is raised: the current tasklet's, not that of the *)
(* tasklet that was switched to.                                            *)
Resumed == q.current

SwitchReturns ==
    /\ ~q.nullDeref
    /\ stack[active] # <<>> /\ Top.k \in {"Run", "Yield"} /\ Top.pc = "in"
    /\ LET pending == tk[Resumed].exc
       IN  /\ tk' = IF pending # "none" THEN [tk EXCEPT ![Resumed].exc = "none"]
                    ELSE AfterSwitch(Top.sw, ret)
           /\ Continue(<<[Top EXCEPT !.pc = "out"]>> \o Tail(stack[active]),
                       IF pending # "none" THEN pending ELSE ret)
    /\ UNCHANGED <<q, gl, mgr, ch>>

--------------------------------------------------------------------------------
(* ScheduleManager::Run. *)

(* The head of the loop: out of work, or stopped, or arrived at the caller *)
(* itself, which would make it its own ancestor.                           *)
RunIsOver(f) ==
    \/ f.done
    \/ q.next[f.base] = NULL
    \/ mgr.stop /\ q.current = Main
    \/ q.next[f.base] = q.current

RunEnds ==
    /\ AtFrame("Run", "head")
    /\ RunIsOver(Top)
    /\ Return("ok")
    /\ UNCHANGED <<q, tk, gl, mgr, ch>>

RunCannotAdopt ==
    /\ AtFrame("Run", "head")
    /\ ~RunIsOver(Top)
    /\ RefusesParent(q.next[Top.base], q.current)
    /\ Return("Error")
    /\ UNCHANGED <<q, tk, gl, mgr, ch>>

(* Faulty: the stop comes when the limit is below zero.                    *)
LimitTestedLate(m, expired) ==
    IF q.current # Main \/ m.runType # "TASKLET_LIMITED" THEN m
    ELSE [m EXCEPT !.limit = IF @ > 0 THEN @ - 1 ELSE @, !.stop = @ \/ m.limit < 0]

(* Faulty: the limit is counted down for ever, and nothing stops.          *)
LimitTestedBelowZero(m, expired) ==
    IF q.current # Main \/ m.runType # "TASKLET_LIMITED" THEN m
    ELSE [m EXCEPT !.limit = @ - 1]

(* The limits count, or are tested, only when the main tasklet runs the    *)
(* loop.  A time limit is past, or not, whenever it is tested.             *)
LimitTested(m, expired) ==
    IF q.current # Main THEN m
    ELSE CASE m.runType = "STANDARD" -> m
           [] m.runType = "TASKLET_LIMITED" ->
                LET left == IF m.limit > 0 THEN m.limit - 1 ELSE m.limit
                IN  [m EXCEPT !.limit = left, !.stop = @ \/ left <= 0]
           [] m.runType = "TIME_LIMITED" ->
                [m EXCEPT !.stop = @ \/ (expired /\ m.firstTestSkipped),
                          !.firstTestSkipped = @ \/ expired]

RunSwitches ==
    /\ AtFrame("Run", "head")
    /\ ~RunIsOver(Top)
    /\ LET x == q.next[Top.base]
       IN  /\ ~RefusesParent(x, q.current)
           /\ \E expired \in BOOLEAN :
                /\ expired => mgr.runType = "TIME_LIMITED"
                /\ mgr' = LimitTested(mgr, expired)
           /\ SwitchTo(Top, x, q, Adopted(tk, x, q.current),
                       Parented(gl, x, q.current))
    /\ UNCHANGED ch

(* SwitchTo has returned true, or false because of a TaskletExit: x leaves *)
(* the queue, or goes back to where it asked to be.                        *)
RunContinues ==
    /\ AtFrame("Run", "out")
    /\ ret \in {"ok", "TaskletExit"}
    /\ LET x == Top.sw
           unblocked == Top.until /\ ~IsBlocked(q, Main)
       IN  /\ q' = ReturnToRunner(q, x, tk[x].parent)
           /\ tk' = [tk EXCEPT ![x].exc = IF ret = "TaskletExit" THEN "none" ELSE @,
                               ![x].parent = IF tk[x].alive THEN @ ELSE NULL]
           /\ gl' = IF tk[x].alive THEN gl ELSE Parented(gl, x, NULL)
           /\ Continue(<<[Top EXCEPT !.pc = "head", !.sw = NULL,
                                     !.done = unblocked \/ x = Top.end]>>
                         \o Tail(stack[active]), "none")
    /\ UNCHANGED <<mgr, ch>>

(* SwitchTo has failed: the exception goes on to the caller of Run.        *)
RunFails ==
    /\ AtFrame("Run", "out")
    /\ ret = "Error"
    /\ LET x == Top.sw
       IN  IF tk[x].remove
           THEN /\ q' = IF tk[x].parent = NULL THEN [q EXCEPT !.nullDeref = TRUE]
                        ELSE RemoveTasklet(SetCurrentTasklet(q, tk[x].parent), x)
                /\ tk' = IF IsLinked(q, x) THEN [tk EXCEPT ![x].parent = NULL] ELSE tk
                /\ gl' = IF IsLinked(q, x) THEN Parented(gl, x, NULL) ELSE gl
           ELSE /\ tk' = [tk EXCEPT ![x].parent = NULL]
                /\ gl' = Parented(gl, x, NULL)
                /\ q' = q
    /\ Return(ret)
    /\ UNCHANGED <<mgr, ch>>

--------------------------------------------------------------------------------
(* ScheduleManager::Yield and Schedule. *)

(* Enter Yield with conts left to do after it. The main tasklet runs the   *)
(* queue, any other switches to the tasklet that runs it.                  *)
Yield(q0, tk0, conts) ==
    /\ q' = q0
    /\ tk' = tk0
    /\ IF q0.current # Main THEN Push(<<YieldFrame(q0.current)>> \o conts)
       ELSE IF IsBlocked(q0, Main) /\ q0.next[Main] = NULL THEN Answer(conts, "Error")
       ELSE Push(<<RunFrame(Main, NULL, IsBlocked(q0, Main))>>
                 \o (IF IsBlocked(q0, Main) THEN <<Then("Yield.main", Main)>> ELSE <<>>)
                 \o conts)
    /\ UNCHANGED gl

YieldSwitches ==
    /\ AtFrame("Yield", "head")
    /\ LET p == tk[Top.t].parent
       IN  IF p = NULL
           THEN /\ q' = [q EXCEPT !.nullDeref = TRUE]
                /\ UNCHANGED <<tk, gl, stack, active, ret>>
           ELSE SwitchTo(Top, p, q, tk, gl)
    /\ UNCHANGED <<mgr, ch>>

(* The nearest ancestor that is not blocked, or the main tasklet. *)
UnblockedAncestor(t) ==
    LET up[n \in 0..Cardinality(Tasklets)] ==
            IF n = 0 THEN tk[t].parent
            ELSE IF up[n-1] = NULL \/ up[n-1] = Main THEN up[n-1]
            ELSE IF IsBlocked(q, up[n-1]) THEN tk[up[n-1]].parent ELSE up[n-1]
    IN  up[Cardinality(Tasklets)]

(* Faulty: a tasklet that is still blocked goes on.                        *)
YieldReturnsBlocked ==
    /\ AtFrame("Yield", "out")
    /\ Return(ret)
    /\ UNCHANGED <<q, tk, gl, mgr, ch>>

(* Someone has switched back to the tasklet.  It goes on, unless it is     *)
(* still blocked: then it gives control away again.                        *)
YieldReturns ==
    /\ AtFrame("Yield", "out")
    /\ ret # "ok" \/ ~IsBlocked(q, Top.t)
    /\ Return(ret)
    /\ UNCHANGED <<q, tk, gl, mgr, ch>>

YieldStaysBlocked ==
    /\ AtFrame("Yield", "out")
    /\ ret = "ok" /\ IsBlocked(q, Top.t)
    /\ LET p == UnblockedAncestor(Top.t)
       IN  IF p = NULL
           THEN /\ q' = [q EXCEPT !.nullDeref = TRUE]
                /\ UNCHANGED <<tk, gl, stack, active, ret>>
           ELSE SwitchTo(Top, p, q, tk, gl)
    /\ UNCHANGED <<mgr, ch>>

(* Faulty: a main tasklet still blocked goes on.                           *)
YieldMainUnchecked ==
    /\ AtThen("Yield.main")
    /\ Return(ret)
    /\ UNCHANGED <<q, tk, gl, mgr, ch>>

(* Faulty: a main tasklet still blocked runs the queue again.              *)
YieldMainRetries ==
    /\ AtThen("Yield.main")
    /\ IF ret = "ok" /\ IsBlocked(q, Main) THEN Push(<<RunFrame(Main, NULL, TRUE)>>) ELSE Return(ret)
    /\ UNCHANGED <<q, tk, gl, mgr, ch>>

(* Yield on the main tasklet, after the run of a main tasklet that was     *)
(* blocked: nothing is left that could unblock it.                         *)
YieldMainReturns ==
    /\ AtThen("Yield.main")
    /\ Return(IF ret = "ok" /\ IsBlocked(q, Main) THEN "Error" ELSE ret)
    /\ UNCHANGED <<q, tk, gl, mgr, ch>>

Schedule ==
    /\ Calls("schedule")
    /\ Yield(SetReschedule(q, q.current, "BACK"), tk, <<>>)
    /\ UNCHANGED <<mgr, ch>>

ScheduleRemove ==
    /\ Calls("schedule_remove")
    /\ Yield(q, [tk EXCEPT ![q.current].tagged = TRUE], <<>>)
    /\ UNCHANGED <<mgr, ch>>

--------------------------------------------------------------------------------
(* Tasklet methods. *)

(* What Kill and ThrowException do after Run: mark t blocked on c again if  *)
(* it was and the call has failed.                                         *)
RestoreBlocked(t, c) == [k |-> "Kill", t |-> t, c |-> c]

(* Tasklet::Run, called on t with conts left to do after it. *)
RunTasklet(t, q0, tk0, conts) ==
    IF ~tk0[t].alive \/ IsBlocked(q0, t)
    THEN /\ Answer(conts, "Error")
         /\ q' = q0 /\ tk' = tk0 /\ UNCHANGED gl
    ELSE IF Nested
    THEN LET q1 == IF q0.scheduled[t] THEN q0 ELSE InsertTasklet(q0, t)
         IN  /\ Push(<<RunFrame(q1.prev[t], q1.tail, FALSE)>> \o conts)
             /\ q' = q1 /\ tk' = tk0 /\ UNCHANGED gl
    ELSE Yield(MoveToRunNext(q0, t), tk0, conts)

Run(t) ==
    /\ Calls("run")
    /\ gl[t].state # "unborn" /\ t # Main
    /\ t = active => Nested
    /\ RunTasklet(t, q, tk, <<>>)
    /\ UNCHANGED <<mgr, ch>>

(* A greenlet new takes the place of t's. What still hangs under the dead  *)
(* one it replaces hangs under what that forwarded to.                     *)
Replaced(t, new) ==
    [g \in Tasklets |->
        IF g = t THEN new
        ELSE IF gl[g].parent = t THEN [gl[g] EXCEPT !.parent = Landing(gl, t)]
        ELSE gl[g]]

Unborn == [state |-> "unborn", parent |-> NULL]

(* The call operator, tasklet(callable)(args): Bind and Setup.  A new      *)
(* greenlet is born under the one that is running.                         *)
Rebirth(t) == Replaced(t, [state |-> "new", parent |-> active])

(* What has been killed with pending is bound again only on demand. *)
Rebindable(t) ==
    /\ ~tk[t].alive
    /\ tk[t].killPending => "rebind_killed" \in MainOps
    /\ gl[t].state = "unborn" \/ (gl[t].state # "started" /\ "rebind" \in MainOps)

Setup(t) ==
    /\ Calls("setup")
    /\ Rebindable(t)
    /\ IF IsBlocked(q, t)
       THEN /\ gl' = Replaced(t, Unborn)
            /\ tk' = [tk EXCEPT ![t].paused = TRUE, ![t].firstRun = TRUE]
            /\ Answer(<<>>, "Error")
            /\ q' = q
       ELSE /\ gl' = Rebirth(t)
            /\ tk' = [tk EXCEPT ![t].alive = TRUE, ![t].paused = FALSE, ![t].firstRun = TRUE]
            /\ q' = InsertTasklet(q, t)
            /\ Answer(<<>>, "ok")
    /\ UNCHANGED <<mgr, ch>>

(* bind(callable, args) on its own leaves the tasklet alive but not queued. *)
Bind(t) ==
    /\ Calls("bind")
    /\ Rebindable(t)
    /\ gl' = Rebirth(t)
    /\ tk' = [tk EXCEPT ![t].alive = TRUE, ![t].paused = TRUE, ![t].firstRun = TRUE]
    /\ Answer(<<>>, "ok")
    /\ UNCHANGED <<q, mgr, ch>>

(* Faulty: a queued tasklet can be unbound.                                *)
UnbindQueued(t) ==
    /\ Calls("unbind")
    /\ gl[t].state \in {"new", "dead"} /\ t # q.current
    /\ Answer(<<>>, "ok")
    /\ gl' = Replaced(t, Unborn)
    /\ tk' = [tk EXCEPT ![t].alive = FALSE]
    /\ UNCHANGED <<q, mgr, ch>>

(* Of a tasklet that has not started or has ended. *)
Unbind(t) ==
    /\ Calls("unbind")
    /\ gl[t].state \in {"new", "dead"}
    /\ IF t = q.current \/ q.scheduled[t]
       THEN Answer(<<>>, "Error") /\ UNCHANGED <<tk, gl>>
       ELSE /\ Answer(<<>>, "ok")
            /\ gl' = Replaced(t, Unborn)
            /\ tk' = [tk EXCEPT ![t].alive = FALSE]
    /\ UNCHANGED <<q, mgr, ch>>

Insert(t) ==
    /\ Calls(IF q.scheduled[t] THEN "insert_queued" ELSE "insert")
    /\ gl[t].state # "unborn"
    /\ IF IsBlocked(q, t) \/ ~tk[t].alive
       THEN Answer(<<>>, "Error") /\ UNCHANGED <<q, tk>>
       ELSE /\ q' = InsertTasklet(q, t)
            /\ tk' = [tk EXCEPT ![t].paused = FALSE]
            /\ Answer(<<>>, "ok")
    /\ UNCHANGED <<gl, mgr, ch>>

(* t is running, or waits in ScheduleManager::Run for one it has run. *)
InARun(t) == t = active \/ (stack[t] # <<>> /\ \E i \in DOMAIN stack[t] : stack[t][i].k = "Run")

(* Faulty: the tasklet is unmarked but not unlinked.                       *)
RemoveStaysLinked(t) ==
    /\ Calls("remove")
    /\ gl[t].state # "unborn" /\ ~InARun(t) /\ q.scheduled[t]
    /\ Answer(<<>>, "ok")
    /\ q' = [q EXCEPT !.scheduled = [@ EXCEPT ![t] = FALSE]]
    /\ tk' = [tk EXCEPT ![t].paused = TRUE]
    /\ UNCHANGED <<gl, mgr, ch>>

Remove(t) ==
    /\ Calls(IF InARun(t) THEN "remove_running" ELSE "remove")
    /\ gl[t].state # "unborn"
    /\ Answer(<<>>, "ok")
    /\ IF q.scheduled[t]
       THEN q' = RemoveTasklet(q, t) /\ tk' = [tk EXCEPT ![t].paused = TRUE]
       ELSE UNCHANGED <<q, tk>>
    /\ UNCHANGED <<gl, mgr, ch>>

(* Tasklet::SwitchImplementation: the caller is paused, not rescheduled.   *)
Switch(t) ==
    /\ Calls("switch")
    /\ gl[t].state # "unborn" /\ t # Main
    /\ LET paused == [tk EXCEPT ![q.current].paused = TRUE]
           q1 == IF q.scheduled[t] THEN q ELSE InsertTasklet(q, t)
       IN  IF ~tk[t].alive \/ IsBlocked(q, t)
           THEN Answer(<<>>, "Error") /\ UNCHANGED <<q, tk, gl>>
           ELSE /\ q' = q1 /\ tk' = paused /\ UNCHANGED gl
                /\ Push(<<RunFrame(q1.prev[t], q1.tail, FALSE),
                          Then(IF q.scheduled[t] THEN "Switch.yield" ELSE "Switch", t)>>)
    /\ UNCHANGED <<mgr, ch>>

SwitchYields ==
    /\ AtThen("Switch.yield")
    /\ ret = "ok"
    /\ LET rest == Tail(stack[active])
       IN  IF q.current # Main
           THEN stack' = [stack EXCEPT ![active] = <<YieldFrame(q.current)>> \o rest]
           ELSE stack' = [stack EXCEPT ![active] = <<RunFrame(Main, NULL, FALSE)>> \o rest]
    /\ ret' = "none" /\ active' = active
    /\ UNCHANGED <<q, tk, gl, mgr, ch>>

SwitchReturnsToCaller ==
    /\ AtThen("Switch") \/ (AtThen("Switch.yield") /\ ret # "ok")
    /\ tk' = [tk EXCEPT ![q.current].paused = FALSE]
    /\ Return(ret)
    /\ UNCHANGED <<q, gl, mgr, ch>>

(* What Tasklet::Kill does to t, for Kill and Channel::ClearBlocked. *)
KillTasklet(t, pending, conts) ==
    LET c == q.blockedOn[t]
        quiet == SetReschedule(Unblock(q, t), t, "NONE")
    IN  IF ~tk[t].alive \/ tk[t].killPending
        THEN Answer(conts, "ok") /\ UNCHANGED <<q, tk, gl, ch>>
        ELSE IF q.current = t
        THEN /\ Answer(conts, "TaskletExit")
             /\ q' = Unblock(q, t) /\ tk' = [tk EXCEPT ![t].exc = "none"] /\ UNCHANGED <<gl, ch>>
        ELSE IF pending
        THEN /\ Answer(conts, "ok")
             /\ q' = SetReschedule(InsertTasklet(Unblock(q, t), t), t, "NONE")
             /\ tk' = [tk EXCEPT ![t].exc = "TaskletExit", ![t].killPending = TRUE,
                                 ![t].dir = IF c = NULL THEN @ ELSE "NEITHER"]
             /\ ch' = IF c = NULL THEN ch
                      ELSE [ch EXCEPT ![c] = RemoveTaskletFromBlocked(@, t, tk[t].dir)]
             /\ UNCHANGED gl
        ELSE /\ RunTasklet(t, quiet, [tk EXCEPT ![t].exc = "TaskletExit"],
                           <<RestoreBlocked(t, c)>> \o conts)
             /\ UNCHANGED ch

(* Tasklet::Kill.  A pending kill only queues the tasklet, a blocked one is *)
(* taken off its channel.  Killing oneself raises TaskletExit here and now. *)
Kill(t, pending) ==
    /\ Calls(IF pending THEN "kill_pending" ELSE "kill")
    /\ gl[t].state # "unborn" /\ t # Main
    /\ KillTasklet(t, pending, <<>>)
    /\ UNCHANGED mgr

(* On failure the tasklet is marked blocked again. *)
KillReturns ==
    /\ AtThen("Kill")
    /\ q' = IF ret \in Errors /\ Top.c # NULL THEN Block(q, Top.t, Top.c) ELSE q
    /\ Return(ret)
    /\ UNCHANGED <<tk, gl, mgr, ch>>

(* Tasklet::ThrowException with an exception that is not TaskletExit; at a  *)
(* tasklet for which a kill is pending, on demand only.                    *)
Throw(t, pending) ==
    /\ Calls(IF ~pending THEN "throw" ELSE IF q.scheduled[t] THEN "throw_queued" ELSE "throw_pending")
    /\ tk[t].killPending => "throw_killed" \in MainOps
    /\ gl[t].state # "unborn" /\ t # Main
    /\ LET thrown == [tk EXCEPT ![t].exc = "Error"]
       IN  IF q.current = t
           THEN Answer(<<>>, "Error") /\ tk' = [tk EXCEPT ![t].exc = "none"] /\ UNCHANGED <<q, gl>>
           ELSE IF ~tk[t].alive /\ (pending \/ ~IsBlocked(q, t))
           THEN Answer(<<>>, "Error") /\ tk' = [tk EXCEPT ![t].exc = "none"] /\ UNCHANGED <<q, gl>>
           ELSE IF pending
           THEN /\ Answer(<<>>, "ok")
                /\ q' = InsertTasklet(q, t) /\ tk' = thrown /\ UNCHANGED gl
           ELSE RunTasklet(t, Unblock(q, t), thrown,
                           IF IsBlocked(q, t) THEN <<RestoreBlocked(t, q.blockedOn[t])>> ELSE <<>>)
    /\ UNCHANGED <<mgr, ch>>

--------------------------------------------------------------------------------
(* Module functions of SchedulerModule.cpp. *)

RunScheduler ==
    /\ Calls("run_scheduler")
    /\ Push(<<RunFrame(q.current, NULL, FALSE)>>)
    /\ UNCHANGED <<q, tk, gl, mgr, ch>>

RunNTasklets(n) ==
    /\ Calls("run_n_tasklets")
    /\ mgr' = [mgr EXCEPT !.limit = n, !.runType = "TASKLET_LIMITED"]
    /\ Push(<<RunFrame(q.current, NULL, FALSE), Then("RunNTasklets", NULL)>>)
    /\ UNCHANGED <<q, tk, gl, ch>>

RunTaskletsForTime ==
    /\ Calls("run_for_time")
    /\ mgr' = [mgr EXCEPT !.firstTestSkipped = FALSE, !.runType = "TIME_LIMITED"]
    /\ Push(<<RunFrame(q.current, NULL, FALSE), Then("RunTaskletsForTime", NULL)>>)
    /\ UNCHANGED <<q, tk, gl, ch>>

(* Faulty: the stop is not cleared.                                        *)
UnlimitedButStopped(m) == [m EXCEPT !.runType = "STANDARD", !.limit = -1]

(* Both wrappers put the same defaults back, whatever was set before them. *)
Unlimited(m) == [m EXCEPT !.runType = "STANDARD", !.stop = FALSE, !.limit = -1]

LimitedRunReturns ==
    /\ AtThen("RunNTasklets") \/ AtThen("RunTaskletsForTime")
    /\ mgr' = Unlimited(mgr)
    /\ Return(ret)
    /\ UNCHANGED <<q, tk, gl, ch>>

SwitchTrap(delta) ==
    /\ Calls("switch_trap")
    /\ mgr.trap + delta \in 0..1
    /\ mgr' = [mgr EXCEPT !.trap = @ + delta]
    /\ Answer(<<>>, "ok")
    /\ UNCHANGED <<q, tk, gl, ch>>

--------------------------------------------------------------------------------
(* Python code that ends, raises, or handles what was raised. *)

Dies(r) ==
    LET g == [gl EXCEPT ![active].state = "dead"]
    IN  /\ active # Main
        /\ gl' = g
        /\ active' = Landing(g, g[active].parent)
        /\ ret' = r
        /\ UNCHANGED <<q, tk, stack, mgr, ch>>

Finish == Running(active) /\ Dies("ok")

Raise == Calls("raise") /\ Dies("Error")

Propagate == Raising(active) /\ Dies(ret)

(* CallableWrapperCall, around the callable of a tasklet made with          *)
(* dont_raise: every exception but TaskletExit ends there.                 *)
Swallow == Raising(active) /\ ret = "Error" /\ "dont_raise" \in TaskletOps /\ Dies("ok")

Catch ==
    /\ Raising(active)
    /\ active = Main \/ "catch" \in TaskletOps
    /\ Answer(<<>>, "ok")
    /\ UNCHANGED <<q, tk, gl, mgr, ch>>

(* The main program has nothing more to call. *)
MainIdle == Running(Main) /\ UNCHANGED vars

Python ==
    \/ Schedule \/ ScheduleRemove
    \/ \E t \in Tasklets :
        \/ Run(t) \/ Setup(t) \/ Bind(t) \/ Unbind(t) \/ Insert(t) \/ Remove(t) \/ Switch(t)
        \/ \E pending \in BOOLEAN : Kill(t, pending) \/ Throw(t, pending)
    \/ RunScheduler \/ (\E n \in 1..MaxLimit : RunNTasklets(n)) \/ RunTaskletsForTime
    \/ \E delta \in {-1, 1} : SwitchTrap(delta)
    \/ Finish \/ Raise \/ Propagate \/ Swallow \/ Catch

Scheduler ==
    \/ SwitchReturns
    \/ RunEnds \/ RunCannotAdopt \/ RunSwitches \/ RunContinues \/ RunFails
    \/ YieldSwitches \/ YieldReturns \/ YieldStaysBlocked \/ YieldMainReturns
    \/ SwitchYields \/ SwitchReturnsToCaller \/ KillReturns \/ LimitedRunReturns

Next == Python \/ Scheduler \/ MainIdle

Spec == Init /\ [][Next]_vars

(* The C++ code between two switches always runs on, and a tasklet's Python *)
(* code in the end gives control away or ends.  Nothing is asked of main.   *)
GivesWay == active # Main /\ (Schedule \/ Finish)
FairSpec == Spec /\ WF_vars(Scheduler) /\ WF_vars(GivesWay) /\ WF_vars(Propagate)

--------------------------------------------------------------------------------
Queue == INSTANCE RunQueue

(* The scheduler implements the queue: whatever calls are interleaved, and  *)
(* however many of them are suspended half way through Run or Yield, the    *)
(* queue and the current tasklet change only by the steps of RunQueue.      *)
QueueSpec == Queue!Spec

(* Every variable keeps its type. *)
TypeOK ==
    /\ q \in QueueType
    /\ tk \in [Tasklets -> TaskletType]
    /\ gl \in [Tasklets -> GreenletType]
    /\ DOMAIN stack = Tasklets
    /\ active \in Tasklets
    /\ ret \in {"none", "ok"} \cup Errors
    /\ mgr \in ManagerType
    /\ \A c \in Channels : ch[c].preference \in Direction

--------------------------------------------------------------------------------
(* What holds whenever Python code runs. *)
InCode == Running(active)

(* scheduler.getcurrent() is the tasklet that asks: m_currentTasklet, set   *)
(* before every greenlet switch and again after it, never lags behind.      *)
CurrentIsActive == InCode => q.current = active

(* The queue holds no tasklet without a greenlet to switch to: none that    *)
(* has ended, and none that was unbound.                                    *)
QueuedCanRun == InCode =>
    \A t \in Tasklets : q.scheduled[t] => gl[t].state \in {"new", "started"}

(* A tasklet that can go on and that nobody has blocked, paused or marked   *)
(* for removal is in the queue: no interleaving of schedule, run, insert    *)
(* and kill drops a runnable tasklet.  One that has ended is not meant, even *)
(* where a stale flag has it alive still.  m_remove, which a failed switch  *)
(* sets, is never cleared: a tasklet once marked so is exempt for good, also *)
(* when it has been bound and queued again.                                 *)
NoLostTasklet == InCode => \A t \in Tasklets :
    /\ gl[t].state \in {"new", "started"} /\ tk[t].alive
    /\ ~IsBlocked(q, t) /\ ~tk[t].paused /\ ~tk[t].remove
    => q.scheduled[t]

(* A tasklet whose code has begun and not ended is alive.  The flag is      *)
(* guessed from other flags when a switch comes back (Tasklet.cpp:414).     *)
AliveWhileItRuns == InCode =>
    \A t \in Tasklets : gl[t].state = "started" => tk[t].alive

(* A tasklet whose code has ended is not alive.                             *)
DoneIsNotAlive == InCode =>
    \A t \in Tasklets : gl[t].state = "dead" => ~tk[t].alive

(* A tasklet is alive from the moment its code begins until it ends, and    *)
(* then no more.                                                            *)
AliveUntilDone == AliveWhileItRuns /\ DoneIsNotAlive

(* A greenlet suspended inside the switch of its Run loop is the recorded   *)
(* parent of the tasklet it runs, so that control comes back to it.         *)
RunnersWait ==
    \A t \in Tasklets \ {active} :
        stack[t] # <<>> /\ Head(stack[t]).k = "Run" /\ Head(stack[t]).pc = "in"
        => tk[Head(stack[t]).sw].parent = t

--------------------------------------------------------------------------------
(* Kill and throw. *)

(* The TaskletExit of a pending kill waits for its tasklet until it ends,   *)
(* so that a kill() that finds it pending may do nothing; and any other     *)
(* kill() that returns without an exception has ended the tasklet.          *)
KillIsDone ==
    /\ AtThen("Kill") /\ ret = "ok" => ~tk[Top.t].alive
    /\ InCode => \A t \in Tasklets :
          tk[t].alive /\ tk[t].killPending => tk[t].exc = "TaskletExit"

(* A tasklet killed with pending runs none of its Python code any more,     *)
(* whether its callable had begun or not; nor does any other that has a     *)
(* TaskletExit waiting for it.                                              *)
KilledRunsNoMore == InCode => ~tk[active].killPending /\ tk[active].exc # "TaskletExit"

(* A pending exception is raised on the tasklet it was thrown at, although  *)
(* SwitchTo takes it from whatever tasklet is current when a switch comes   *)
(* back.                                                                    *)
ThrownAtItsTarget ==
    [][\A t \in Tasklets :
          tk[t].exc # "none" /\ tk'[t].exc = "none" => active = t \/ tk[t].firstRun]_vars

(* While switch_trap is above zero, control leaves the running greenlet     *)
(* only when its code ends, whatever call was made.                         *)
TrapKeepsControl ==
    [][mgr.trap > 0 /\ active' # active => gl'[active].state = "dead"]_vars

--------------------------------------------------------------------------------
(* Limited runs, and progress. *)

Waiting(t, k) == \E i \in DOMAIN stack[t] : stack[t][i].k = k

(* The limits in the manager are those of the call that main is waiting in; *)
(* the wrappers put defaults back when they return, wherever they return.   *)
LimitsMatchTheCall ==
    /\ mgr.runType = "TASKLET_LIMITED" <=> Waiting(Main, "RunNTasklets")
    /\ mgr.runType = "TIME_LIMITED" <=> Waiting(Main, "RunTaskletsForTime")
    /\ mgr.stop => mgr.runType # "STANDARD"

(* run_n_tasklets comes back to main, even if the tasklets never end.       *)
LimitedRunEnds == Waiting(Main, "RunNTasklets") ~> InPython(Main)

(* No tasklet starves: one that is queued is switched to, or leaves the     *)
(* queue, or the run ends and main is back.                                 *)
QueuedGetsItsTurn ==
    \A t \in Tasklets \ {Main} :
        q.scheduled[t] ~> (active = t \/ ~q.scheduled[t] \/ InPython(Main))
================================================================================
