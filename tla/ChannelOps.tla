------------------------------- MODULE ChannelOps -------------------------------
(***************************************************************************)
(* One Channel: the tasklets blocked on it, first come first, its balance, *)
(* its preference and whether it is closing.  Each operator returns the    *)
(* record the method of Channel.cpp leaves behind.  The intrusive list     *)
(* through m_nextBlocked and m_previousBlocked is a sequence here.         *)
(***************************************************************************)
EXTENDS Integers, Sequences

Direction == {"RECEIVER", "NEITHER", "SENDER"}

ChannelType(T) ==
    [recv : Seq(T), send : Seq(T), balance : Int, preference : Direction,
     closing : BOOLEAN, closed : BOOLEAN]

InitChannel ==
    [recv |-> <<>>, send |-> <<>>, balance |-> 0, preference |-> "RECEIVER",
     closing |-> FALSE, closed |-> FALSE]

AddTaskletToWaitingToSend(c, t) ==
    [c EXCEPT !.send = Append(@, t), !.balance = @ + 1]

AddTaskletToWaitingToReceive(c, t) ==
    [c EXCEPT !.recv = Append(@, t), !.balance = @ - 1]

(* s without t, where it waits in s. *)
Unlinked(s, t) ==
    IF \A i \in DOMAIN s : s[i] # t THEN s
    ELSE LET k == CHOOSE i \in DOMAIN s : s[i] = t
         IN  [i \in 1..(Len(s) - 1) |-> IF i < k THEN s[i] ELSE s[i+1]]

(* Faulty: only the list of receivers is looked at.                        *)
RemoveFromReceivers(c, t, dir) ==
    [c EXCEPT !.recv = Unlinked(@, t),
              !.balance = CASE dir = "RECEIVER" -> @ + 1 [] OTHER -> @]

(* Faulty: whoever does not wait to send waits to receive.                 *)
CountedTwice(c, t, dir) ==
    [c EXCEPT !.recv = Unlinked(@, t),
              !.send = Unlinked(@, t),
              !.balance = IF dir = "SENDER" THEN @ - 1 ELSE @ + 1]

(* The balance follows dir, the direction t says it is blocked in, and not *)
(* the lists: taking a tasklet out twice changes it once.                  *)
RemoveTaskletFromBlocked(c, t, dir) ==
    [c EXCEPT !.recv = Unlinked(@, t),
              !.send = Unlinked(@, t),
              !.balance = CASE dir = "SENDER" -> @ - 1
                            [] dir = "RECEIVER" -> @ + 1
                            [] OTHER -> @]

(* Faulty: a channel that someone waits on is closed.                      *)
CloseAtOnce(c) == [c EXCEPT !.closed = @ \/ c.closing]

UpdateCloseState(c) == [c EXCEPT !.closed = @ \/ (c.closing /\ c.balance = 0)]
================================================================================
