------------------------------- MODULE QueueLine -------------------------------
(***************************************************************************)
(* What the run queue promises, without pointers: the queued tasklets      *)
(* stand in a line behind the main tasklet, in the order they will be run. *)
(* A tasklet joins the line at its end, or right behind the tasklet that   *)
(* is current; it leaves from wherever it stands; one that has just run    *)
(* may go back to the end, or behind the tasklet that is next.             *)
(* RunQueue implements this specification (LineSpec there).                *)
(***************************************************************************)
EXTENDS Naturals, Sequences

CONSTANTS Tasklets, Main

VARIABLES
    line,    \* the queued tasklets, the main tasklet first
    current  \* the tasklet whose code runs

vars == <<line, current>>

Init == line = <<Main>> /\ current = Main

InLine(t) == \E i \in DOMAIN line : line[i] = t

Place(s, t) == CHOOSE i \in DOMAIN s : s[i] = t

(* s without t, if it is there. *)
Others(s, t) ==
    IF \A i \in DOMAIN s : s[i] # t THEN s
    ELSE SubSeq(s, 1, Place(s, t) - 1) \o SubSeq(s, Place(s, t) + 1, Len(s))

(* s with t put behind the tasklet p and the n tasklets that follow it. *)
Behind(s, p, n, t) ==
    LET i == Place(s, p) + n
    IN  SubSeq(s, 1, i) \o <<t>> \o SubSeq(s, i + 1, Len(s))

(* t joins at the end. *)
Join(t) ==
    /\ UNCHANGED current
    /\ ~InLine(t)
    /\ line' = Append(line, t)

(* t, waiting anywhere or nowhere, is to run next. *)
JumpTheQueue(t) ==
    /\ t # current /\ UNCHANGED current
    /\ InLine(current)
    /\ line' = Behind(Others(line, t), current, 0, t)

(* t leaves, and p is current then. *)
Leave(t, p) ==
    /\ t # Main /\ current' = p
    /\ line' = Others(line, t)

(* t has run: it goes back to the end, or second behind its runner p. *)
GoBackToTheEnd(t, p) ==
    /\ t # Main /\ current' = p
    /\ InLine(t)
    /\ line' = Append(Others(line, t), t)

GoBackSecond(t, p) ==
    /\ t # Main /\ current' = p
    /\ InLine(t)
    /\ LET rest == Others(line, t)
       IN  /\ \E i \in 1..(Len(rest) - 1) : rest[i] = p
           /\ line' = Behind(rest, p, 1, t)

Switch(t) == current' = t /\ UNCHANGED line

Next ==
    \E t \in Tasklets :
        \/ Switch(t) \/ Join(t) \/ JumpTheQueue(t)
        \/ \E p \in Tasklets : Leave(t, p) \/ GoBackToTheEnd(t, p) \/ GoBackSecond(t, p)

Spec == Init /\ [][Next]_vars
================================================================================
