----------------------------- MODULE ThreadsProofs -----------------------------
(***************************************************************************)
(* Proofs about Threads, for any number of threads, tasklets and channels: *)
(* the channels are changed only as ChannelBook says, whoever is woken has *)
(* met its partner, every tasklet waits where it belongs, and a thread     *)
(* that has ended has left nothing behind; and then about QueueChannel:    *)
(* where the channels are used by one thread, what a method saw is still   *)
(* so when it acts.                                                        *)
(***************************************************************************)
EXTENDS QueueChannel, TLAPS

B == INSTANCE ChannelBookProofs

--------------------------------------------------------------------------------
(* The inductive invariant. M is the set of messages. *)

Resting == {"Send", "Send.delivered", "Receive", "Receive.taken"}

TaskletType(M) ==
    [at : {"unborn", "new", "code", "done"} \cup Resting, on : Channels \cup {NULL},
     alive : BOOLEAN, dir : Direction, blocked : BOOLEAN, transfer : BOOLEAN,
     again : BOOLEAN, exc : BOOLEAN, args : M \cup {NULL}]

TaskletsType(M) == [Tasklets -> TaskletType(M)]

QueuesType == [Threads -> Seq(Tasklets \ Threads)]

TypeOK(M) ==
    /\ queue \in QueuesType
    /\ cur \in [Threads -> Tasklets]
    /\ loop \in [Threads -> {"off", "on", "until", "last"}]
    /\ phase \in [Threads -> {"up", "ending", "over"}]
    /\ gil \in Threads \cup {NULL}
    /\ tk \in TaskletsType(M)

(* The notes a tasklet keeps on itself agree with one another: a direction  *)
(* is noted while it waits, and only then, and a message is there if and   *)
(* only if it should be.  It is blocked while it waits, unless killed.      *)
Sane(r) ==
    /\ r.dir = "SENDER" => r.at = "Send"
    /\ r.dir = "RECEIVER" => r.at = "Receive"
    /\ r.at = "Send" /\ r.dir = "NEITHER" => r.args = NULL
    /\ r.at = "Receive" /\ r.dir = "NEITHER" => r.args # NULL
    /\ r.dir # "NEITHER" => r.blocked \/ r.exc
    /\ r.blocked => r.dir # "NEITHER"
    /\ r.at \in Resting => r.on \in Channels
    /\ r.at \notin {"unborn", "done"} => r.alive
    /\ ~r.again

AllSane == \A t \in Tasklets : Sane(tk[t])

(* The direction noted, and the channel, say which list a tasklet is in.    *)
Places == \A c \in Channels, t \in Tasklets :
    /\ B!In(t, ch[c].send) <=> tk[t].dir = "SENDER" /\ tk[t].on = c
    /\ B!In(t, ch[c].recv) <=> tk[t].dir = "RECEIVER" /\ tk[t].on = c

(* What concerns the channels, on any schedule. *)
Meeting(M) == TypeOK(M) /\ AllSane /\ Places /\ B!Kept

(* The queues: nobody is in one twice, or in that of another thread, or     *)
(* dead, or blocked; and a tasklet that runs is the front of its queue.     *)
Queues == \A th \in Threads :
    /\ B!Once(queue[th])
    /\ \A u \in Tasklets : B!In(u, queue[th]) => Home[u] = th /\ tk[u].alive /\ ~tk[u].blocked
    /\ cur[th] # th => queue[th] # <<>> /\ Head(queue[th]) = cur[th]

(* Who can run is queued. *)
Runnable == \A t \in Tasklets \ Threads :
    tk[t].alive /\ tk[t].at # "done" /\ ~tk[t].blocked => B!In(t, queue[Home[t]])

(* A tasklet that was killed while it waited is still on its channel, but   *)
(* not blocked any more: it runs before anybody else can find it there.     *)
Killing == \A t \in Tasklets : tk[t].dir # "NEITHER" /\ ~tk[t].blocked =>
    /\ gil = Home[t]
    /\ queue[Home[t]] # <<>> /\ Head(queue[Home[t]]) = t
    /\ cur[Home[t]] = t \/ (cur[Home[t]] = Home[t] /\ loop[Home[t]] = "on")

(* A thread that has ended has left nothing. *)
Ended == \A t \in Tasklets :
    phase[Home[t]] = "over" => tk[t].dir = "NEITHER" /\ ~B!In(t, queue[Home[t]])

IInv(M) == Meeting(M) /\ Queues /\ Runnable /\ Killing /\ Ended

--------------------------------------------------------------------------------
(* One channel. ChannelOps goes by what a tasklet notes on itself and by    *)
(* the balance, ChannelBook by the lists.                                   *)

LEMMA SameOps ==
    /\ Direction = B!Direction
    /\ \A b : UpdateCloseState(b) = B!UpdateCloseState(b)
    /\ \A b, t : AddTaskletToWaitingToSend(b, t) = B!AddTaskletToWaitingToSend(b, t)
    /\ \A b, t : AddTaskletToWaitingToReceive(b, t) = B!AddTaskletToWaitingToReceive(b, t)
    /\ \A b, t, dir : RemoveTaskletFromBlocked(b, t, dir) = B!RemoveTaskletFromBlocked(b, t, dir)
    /\ \A s, t : Unlinked(s, t) = B!Unlinked(s, t)
BY DEF Direction, B!Direction, UpdateCloseState, B!UpdateCloseState, Unlinked, B!Unlinked,
       AddTaskletToWaitingToSend, B!AddTaskletToWaitingToSend,
       AddTaskletToWaitingToReceive, B!AddTaskletToWaitingToReceive,
       RemoveTaskletFromBlocked, B!RemoveTaskletFromBlocked

LEMMA ChannelFacts ==
    ASSUME B!Kept, NEW c \in Channels
    PROVE  /\ B!Orderly(ch[c]) /\ ch = [d \in Channels |-> ch[d]]
           /\ ch[c].send \in Seq(Tasklets) /\ ch[c].recv \in Seq(Tasklets)
           /\ B!Once(ch[c].send) /\ B!Once(ch[c].recv)
           /\ ch[c].closed \in BOOLEAN /\ ch[c].closing \in BOOLEAN
<1>1. B!Orderly(ch[c]) /\ ch = [d \in Channels |-> ch[d]]
  BY B!KeptByChannel
<1>. QED
  BY <1>1 DEF B!Orderly, B!ChannelType

(* Who waits at the front of a list notes it. *)
LEMMA FrontWaits ==
    ASSUME Places, B!Kept, NEW c \in Channels
    PROVE  /\ ch[c].send # <<>> =>
                /\ Head(ch[c].send) \in Tasklets /\ B!Waits(Head(ch[c].send), ch[c])
                /\ tk[Head(ch[c].send)].dir = "SENDER" /\ tk[Head(ch[c].send)].on = c
           /\ ch[c].recv # <<>> =>
                /\ Head(ch[c].recv) \in Tasklets /\ B!Waits(Head(ch[c].recv), ch[c])
                /\ tk[Head(ch[c].recv)].dir = "RECEIVER" /\ tk[Head(ch[c].recv)].on = c
<1>1. \A s \in Seq(Tasklets) : s # <<>> => Head(s) \in Tasklets /\ B!In(Head(s), s)
  BY DEF B!In
<1>. QED
  BY <1>1, ChannelFacts DEF Places, B!Waits

LEMMA WithoutOne ==
    ASSUME Places, B!Kept, NEW c \in Channels, NEW t \in Tasklets,
           tk[t].dir \in Direction, tk[t].dir # "NEITHER" => tk[t].on = c
    PROVE  /\ tk[t].dir # "NEITHER" =>
                B!Waits(t, ch[c]) /\ Without(c, t) = B!Settled(B!Left(ch[c], t))
           /\ tk[t].dir = "NEITHER" => Without(c, t) = B!Settled(ch[c])
<1>. DEFINE b == ch[c]
<1>1. B!Orderly(b)
  BY ChannelFacts
<1>2. /\ tk[t].dir = "SENDER" <=> B!In(t, b.send)
      /\ tk[t].dir = "RECEIVER" <=> B!In(t, b.recv)
  BY DEF Places
<1>3. RemoveTaskletFromBlocked(b, t, tk[t].dir) = IF B!Waits(t, b) THEN B!Left(b, t) ELSE b
  BY <1>1, <1>2, SameOps, B!CountedByDirection
<1>4. B!Waits(t, b) <=> tk[t].dir # "NEITHER"
  BY <1>2 DEF B!Waits, Direction
<1>5. \A r : B!Orderly(r) => UpdateCloseState(r) = B!Settled(r)
  BY SameOps, B!ClosedByBalance
<1>6. B!Waits(t, b) => B!Orderly(B!Left(b, t))
  BY <1>1, B!LeftOrderly
<1>. QED
  BY <1>1, <1>3, <1>4, <1>5, <1>6 DEF Without

--------------------------------------------------------------------------------
(* The places of a step. *)

LEMMA PlacesStay ==
    ASSUME Places,
           \A c \in Channels : ch'[c].send = ch[c].send /\ ch'[c].recv = ch[c].recv,
           \A u \in Tasklets : /\ tk'[u].dir = tk[u].dir
                               /\ tk[u].dir # "NEITHER" => tk'[u].on = tk[u].on
    PROVE  Places'
BY DEF Places, B!In

LEMMA PlacesLess ==
    ASSUME Places, B!Kept, NEW c \in Channels, NEW t \in Tasklets,
           tk[t].dir # "NEITHER", tk[t].on = c,
           ch' = [ch EXCEPT ![c] = B!Settled(B!Left(ch[c], t))],
           tk'[t].dir = "NEITHER",
           \A u \in Tasklets \ {t} : /\ tk'[u].dir = tk[u].dir
                                     /\ tk[u].dir # "NEITHER" => tk'[u].on = tk[u].on
    PROVE  Places'
<1>. DEFINE b == ch[c]
<1>1. B!Orderly(b) /\ ch = [d \in Channels |-> ch[d]]
  BY ChannelFacts
<1>2. B!Settled(B!Left(b, t)).send = B!Unlinked(b.send, t)
  BY <1>1 DEF B!Settled, B!Left, B!Orderly, B!ChannelType
<1>3. B!Settled(B!Left(b, t)).recv = B!Unlinked(b.recv, t)
  BY <1>1 DEF B!Settled, B!Left, B!Orderly, B!ChannelType
<1>4. \A u : /\ B!In(u, B!Unlinked(b.send, t)) <=> B!In(u, b.send) /\ u # t
             /\ B!In(u, B!Unlinked(b.recv, t)) <=> B!In(u, b.recv) /\ u # t
  BY ChannelFacts, B!UnlinkedKeeps
<1>5. /\ ch'[c].send = B!Unlinked(b.send, t) /\ ch'[c].recv = B!Unlinked(b.recv, t)
      /\ \A d \in Channels \ {c} : ch'[d] = ch[d]
  BY <1>1, <1>2, <1>3
<1>. SUFFICES ASSUME NEW d \in Channels, NEW u \in Tasklets
              PROVE  /\ B!In(u, ch'[d].send) <=> tk'[u].dir = "SENDER" /\ tk'[u].on = d
                     /\ B!In(u, ch'[d].recv) <=> tk'[u].dir = "RECEIVER" /\ tk'[u].on = d
  BY Zenon DEF Places, B!In
<1>6. /\ B!In(u, ch[d].send) <=> tk[u].dir = "SENDER" /\ tk[u].on = d
      /\ B!In(u, ch[d].recv) <=> tk[u].dir = "RECEIVER" /\ tk[u].on = d
  BY DEF Places
<1>7. CASE d = c
  BY <1>4, <1>5, <1>6, <1>7
<1>8. CASE d # c
  BY <1>5, <1>6, <1>8
<1>. QED
  BY <1>7, <1>8

LEMMA PlacesMore ==
    ASSUME Places, B!Kept, NEW c \in Channels, NEW t \in Tasklets, tk[t].dir = "NEITHER",
           \/ /\ ch' = [ch EXCEPT ![c] = AddTaskletToWaitingToSend(@, t)]
              /\ tk'[t].dir = "SENDER"
           \/ /\ ch' = [ch EXCEPT ![c] = AddTaskletToWaitingToReceive(@, t)]
              /\ tk'[t].dir = "RECEIVER",
           tk'[t].on = c,
           \A u \in Tasklets \ {t} : /\ tk'[u].dir = tk[u].dir
                                     /\ tk[u].dir # "NEITHER" => tk'[u].on = tk[u].on
    PROVE  Places'
<1>. DEFINE b == ch[c]
<1>1. B!Orderly(b) /\ ch = [d \in Channels |-> ch[d]]
  BY ChannelFacts
<1>2. ~B!In(t, b.send) /\ ~B!In(t, b.recv)
  BY DEF Places
<1>3. \A u : /\ B!In(u, Append(b.send, t)) <=> B!In(u, b.send) \/ u = t
             /\ B!In(u, Append(b.recv, t)) <=> B!In(u, b.recv) \/ u = t
  BY <1>2, ChannelFacts, B!AppendKeeps
<1>4. /\ AddTaskletToWaitingToSend(b, t).send = Append(b.send, t)
      /\ AddTaskletToWaitingToSend(b, t).recv = b.recv
      /\ AddTaskletToWaitingToReceive(b, t).send = b.send
      /\ AddTaskletToWaitingToReceive(b, t).recv = Append(b.recv, t)
  BY <1>1 DEF AddTaskletToWaitingToSend, AddTaskletToWaitingToReceive, B!Orderly, B!ChannelType
<1>5. /\ \/ /\ ch'[c].send = Append(b.send, t) /\ ch'[c].recv = b.recv
            /\ tk'[t].dir = "SENDER"
         \/ /\ ch'[c].send = b.send /\ ch'[c].recv = Append(b.recv, t)
            /\ tk'[t].dir = "RECEIVER"
      /\ \A d \in Channels \ {c} : ch'[d] = ch[d]
  BY <1>1, <1>4
<1>. SUFFICES ASSUME NEW d \in Channels, NEW u \in Tasklets
              PROVE  /\ B!In(u, ch'[d].send) <=> tk'[u].dir = "SENDER" /\ tk'[u].on = d
                     /\ B!In(u, ch'[d].recv) <=> tk'[u].dir = "RECEIVER" /\ tk'[u].on = d
  BY Zenon DEF Places, B!In
<1>6. /\ B!In(u, ch[d].send) <=> tk[u].dir = "SENDER" /\ tk[u].on = d
      /\ B!In(u, ch[d].recv) <=> tk[u].dir = "RECEIVER" /\ tk[u].on = d
  BY DEF Places
<1>7. CASE d = c /\ u = t
  BY <1>2, <1>3, <1>5, <1>7
<1>8. CASE d = c /\ u # t
  BY <1>3, <1>5, <1>6, <1>8
<1>9. CASE d # c /\ u = t
  BY <1>5, <1>6, <1>9
<1>10. CASE d # c /\ u # t
  BY <1>5, <1>6, <1>10
<1>. QED
  BY <1>7, <1>8, <1>9, <1>10

(* When the lists of the channels stay as they are. *)
LEMMA SettledLists ==
    ASSUME B!Kept, NEW c \in Channels,
           \/ ch' = ch
           \/ ch' = [ch EXCEPT ![c] = B!Settled(ch[c])]
           \/ ch' = [ch EXCEPT ![c] = B!Settled([ch[c] EXCEPT !.closing = TRUE])]
           \/ \E p : ch' = [ch EXCEPT ![c].preference = p]
    PROVE  \A d \in Channels : ch'[d].send = ch[d].send /\ ch'[d].recv = ch[d].recv
<1>1. B!Orderly(ch[c]) /\ ch = [d \in Channels |-> ch[d]]
  BY ChannelFacts
<1>2. /\ B!Settled(ch[c]).send = ch[c].send /\ B!Settled(ch[c]).recv = ch[c].recv
      /\ B!Settled([ch[c] EXCEPT !.closing = TRUE]).send = ch[c].send
      /\ B!Settled([ch[c] EXCEPT !.closing = TRUE]).recv = ch[c].recv
      /\ \A p : /\ [ch[c] EXCEPT !.preference = p].send = ch[c].send
                /\ [ch[c] EXCEPT !.preference = p].recv = ch[c].recv
  BY <1>1 DEF B!Settled, B!Orderly, B!ChannelType
<1>. QED
  BY ZenonT(30), <1>1, <1>2

--------------------------------------------------------------------------------
(* Giving control away. *)

Unmarked(r) == [r EXCEPT !.again = FALSE]

LEMMA YieldsFacts ==
    ASSUME NEW M, TypeOK(M), NEW th \in Threads,
           NEW q0 \in QueuesType,
           NEW tk0 \in TaskletsType(M),
           cur[th] # th => q0[th] # <<>> /\ cur[th] \notin Threads,
           \A u \in Tasklets : tk0[u].again => u = cur[th] /\ u # th,
           Yields(th, q0, tk0)
    PROVE  /\ queue' \in QueuesType
           /\ cur' \in [Threads -> Tasklets]
           /\ loop' \in [Threads -> {"off", "on", "until", "last"}]
           /\ phase' = phase /\ gil' = th
           /\ tk' \in TaskletsType(M)
           /\ \A u \in Tasklets : tk'[u] = Unmarked(tk0[u])
<1>1. cur \in [Threads -> Tasklets] /\ loop \in [Threads -> {"off", "on", "until", "last"}]
  BY DEF TypeOK
<1>2. ASSUME NEW r \in TaskletType(M)
      PROVE  Unmarked(r) \in TaskletType(M) /\ (~r.again => Unmarked(r) = r)
  BY DEF Unmarked, TaskletType
<1>3. CASE cur[th] = th
  <2>1. /\ queue' = q0 /\ tk' = tk0 /\ cur' = cur /\ phase' = phase /\ gil' = th
        /\ \E l \in {"on", "until"} : loop' = [loop EXCEPT ![th] = l]
    BY <1>3 DEF Yields
  <2>. QED
    BY <1>1, <1>2, <1>3, <2>1 DEF TaskletsType, QueuesType
<1>4. CASE cur[th] # th
  <2>. DEFINE t == cur[th]
  <2>1. t \in Tasklets \ Threads /\ q0[th] # <<>> /\ th \in Tasklets
    BY <1>1, <1>4, ThreadsAssumption
  <2>2. /\ Tail(q0[th]) \in Seq(Tasklets \ Threads)
        /\ Append(Tail(q0[th]), t) \in Seq(Tasklets \ Threads)
    BY <2>1 DEF QueuesType
  <2>3. queue' \in QueuesType
    BY <1>4, <2>2 DEF Yields, QueuesType
  <2>4. tk' = [tk0 EXCEPT ![t] = Unmarked(tk0[t])]
    BY <1>4 DEF Yields, Unmarked
  <2>5. tk' \in TaskletsType(M) /\ \A u \in Tasklets : tk'[u] = Unmarked(tk0[u])
    BY <1>2, <2>1, <2>4 DEF TaskletsType
  <2>6. cur' = [cur EXCEPT ![th] = th] /\ phase' = phase /\ gil' = th
    BY <1>4 DEF Yields
  <2>7. \E l \in {loop[th], "last"} : loop' = [loop EXCEPT ![th] = l]
    BY <1>4 DEF Yields
  <2>8. cur' \in [Threads -> Tasklets] /\ loop' \in [Threads -> {"off", "on", "until", "last"}]
    BY <1>1, <2>1, <2>6, <2>7
  <2>. QED
    BY <2>3, <2>5, <2>6, <2>8
<1>. QED
  BY <1>3, <1>4

(* The tasklets of a step: one or two change, by records that are right.    *)
LEMMA OneTasklet ==
    ASSUME NEW M, TypeOK(M), AllSane, NEW t \in Tasklets,
           NEW r \in TaskletType(M), Sane(r), tk' = [tk EXCEPT ![t] = r]
    PROVE  /\ tk' \in TaskletsType(M) /\ AllSane'
           /\ tk'[t] = r /\ \A u \in Tasklets \ {t} : tk'[u] = tk[u]
BY DEF TypeOK, AllSane, TaskletsType

(* The tasklets of a step that makes t, or t and p, what r and x say.       *)
Becomes(M, t, r) ==
    /\ TypeOK(M)' /\ AllSane'
    /\ tk'[t] = r /\ \A u \in Tasklets \ {t} : tk'[u] = tk[u]

BothBecome(M, t, r, p, x) ==
    /\ TypeOK(M)' /\ AllSane'
    /\ tk'[t] = r /\ tk'[p] = x /\ \A u \in Tasklets \ {t, p} : tk'[u] = tk[u]

(* The tasklet t is changed when th gives control away. *)
LEMMA YieldsOne ==
    ASSUME NEW M, TypeOK(M), AllSane, Queues, NEW th \in Threads, NEW t \in Tasklets,
           NEW r \in TaskletType(M), Sane(Unmarked(r)), r.again => t = cur[th] /\ t # th,
           NEW q0 \in QueuesType, cur[th] # th => q0[th] # <<>>,
           Yields(th, q0, [tk EXCEPT ![t] = r]), cur[th] # th => cur[th] \notin Threads
    PROVE  Becomes(M, t, Unmarked(r)) /\ phase' = phase /\ gil' = th
<1>. DEFINE tk0 == [tk EXCEPT ![t] = r]
<1>1. tk0 \in TaskletsType(M) /\ tk0[t] = r /\ \A u \in Tasklets \ {t} : tk0[u] = tk[u]
  BY DEF TypeOK, TaskletsType
<1>2. \A u \in Tasklets : tk0[u].again => u = cur[th] /\ u # th
  BY <1>1 DEF AllSane, Sane
<1>3. cur[th] \in Tasklets
  BY DEF TypeOK
<1>. HIDE DEF tk0
<1>4. /\ queue' \in QueuesType
      /\ cur' \in [Threads -> Tasklets]
      /\ loop' \in [Threads -> {"off", "on", "until", "last"}]
      /\ phase' = phase /\ gil' = th
      /\ tk' \in TaskletsType(M)
      /\ \A u \in Tasklets : tk'[u] = Unmarked(tk0[u])
  <2>1. Yields(th, q0, tk0)
    BY DEF tk0
  <2>2. cur[th] # th => q0[th] # <<>> /\ cur[th] \notin Threads
    OBVIOUS
  <2>. QED
    BY <1>1, <1>2, <2>1, <2>2, YieldsFacts
<1>5. \A u \in Tasklets \ {t} : tk'[u] = tk[u]
  <2>1. \A x \in TaskletType(M) : ~x.again => Unmarked(x) = x
    BY DEF Unmarked, TaskletType
  <2>. QED
    BY <1>1, <1>4, <2>1 DEF AllSane, Sane, TypeOK, TaskletsType
<1>6. tk'[t] = Unmarked(r)
  BY <1>1, <1>4
<1>7. AllSane'
  BY <1>5, <1>6 DEF AllSane
<1>8. TypeOK(M)'
  BY <1>4 DEF TypeOK
<1>. QED
  BY <1>4, <1>5, <1>6, <1>7, <1>8 DEF Becomes

(* The same of two tasklets, of which t is current. *)
LEMMA YieldsTwo ==
    ASSUME NEW M, TypeOK(M), AllSane, Queues, NEW th \in Threads,
           NEW t \in Tasklets, NEW p \in Tasklets, p # t, cur[th] = t, t # th => t \notin Threads,
           NEW r \in TaskletType(M), Sane(Unmarked(r)), r.again => t # th,
           NEW x \in TaskletType(M), Sane(x),
           NEW q0 \in QueuesType, t # th => q0[th] # <<>>,
           Yields(th, q0, [tk EXCEPT ![p] = x, ![t] = r])
    PROVE  BothBecome(M, t, Unmarked(r), p, x) /\ phase' = phase /\ gil' = th
<1>. DEFINE tk0 == [tk EXCEPT ![p] = x, ![t] = r]
<1>1. /\ tk0 \in TaskletsType(M) /\ tk0[t] = r /\ tk0[p] = x
      /\ \A u \in Tasklets \ {t, p} : tk0[u] = tk[u]
  BY DEF TypeOK, TaskletsType
<1>2. \A u \in Tasklets : tk0[u].again => u = cur[th] /\ u # th
  BY <1>1 DEF AllSane, Sane
<1>. HIDE DEF tk0
<1>4. /\ queue' \in QueuesType
      /\ cur' \in [Threads -> Tasklets]
      /\ loop' \in [Threads -> {"off", "on", "until", "last"}]
      /\ phase' = phase /\ gil' = th
      /\ tk' \in TaskletsType(M)
      /\ \A u \in Tasklets : tk'[u] = Unmarked(tk0[u])
  <2>1. Yields(th, q0, tk0)
    BY DEF tk0
  <2>2. cur[th] # th => q0[th] # <<>> /\ cur[th] \notin Threads
    OBVIOUS
  <2>. QED
    BY <1>1, <1>2, <2>1, <2>2, YieldsFacts
<1>5. (\A u \in Tasklets \ {t, p} : tk'[u] = tk[u]) /\ tk'[p] = x
  <2>1. \A y \in TaskletType(M) : ~y.again => Unmarked(y) = y
    BY DEF Unmarked, TaskletType
  <2>2. ~x.again
    BY DEF Sane
  <2>. QED
    BY <1>1, <1>4, <2>1, <2>2 DEF AllSane, Sane, TypeOK, TaskletsType
<1>6. tk'[t] = Unmarked(r)
  BY <1>1, <1>4
<1>7. AllSane'
  BY <1>5, <1>6 DEF AllSane
<1>8. TypeOK(M)'
  BY <1>4 DEF TypeOK
<1>. QED
  BY <1>4, <1>5, <1>6, <1>7, <1>8 DEF BothBecome

(* A step of the tasklets, and one that the book allows.                    *)
Meets(M) == Meeting(M)' /\ [B!Next]_ch

Keeps(M) == IInv(M)' /\ [B!Next]_ch

(* A step of the tasklets and one of the book make a step of the whole.     *)
LEMMA MeetingKept ==
    ASSUME NEW M, Meeting(M), TypeOK(M)', AllSane', Places', [B!Next]_ch
    PROVE  Meets(M)
BY B!NextKeeps DEF Meets, Meeting

--------------------------------------------------------------------------------
(* Sequences that have nobody twice. *)

LEMMA TailKeeps ==
    ASSUME NEW T, NEW s \in Seq(T), s # <<>>, B!Once(s)
    PROVE  /\ Tail(s) \in Seq(T) /\ B!Once(Tail(s)) /\ Head(s) \in T
           /\ \A u : B!In(u, Tail(s)) <=> B!In(u, s) /\ u # Head(s)
<1>. DEFINE a == Tail(s)
<1>1. /\ a \in Seq(T) /\ Len(s) \in Nat /\ Len(s) # 0 /\ DOMAIN s = 1..Len(s)
      /\ DOMAIN a = 1..(Len(s) - 1) /\ Head(s) = s[1] /\ Head(s) \in T
      /\ \A i \in 1..(Len(s) - 1) : a[i] = s[i + 1]
  OBVIOUS
<1>. HIDE DEF a
<1>2. B!Once(a)
  <2>. SUFFICES ASSUME NEW i \in 1..(Len(s) - 1), NEW j \in 1..(Len(s) - 1), a[i] = a[j]
                PROVE  i = j
    BY <1>1 DEF B!Once
  <2>1. i + 1 \in DOMAIN s /\ j + 1 \in DOMAIN s /\ s[i + 1] = s[j + 1]
    BY <1>1
  <2>. QED
    BY SMTT(30), <1>1, <2>1 DEF B!Once
<1>3. ASSUME NEW u, B!In(u, a) PROVE B!In(u, s) /\ u # Head(s)
  <2>1. PICK i \in 1..(Len(s) - 1) : a[i] = u
    BY <1>1, <1>3 DEF B!In
  <2>2. i + 1 \in DOMAIN s /\ s[i + 1] = u /\ i + 1 # 1 /\ 1 \in DOMAIN s
    BY <1>1, <2>1
  <2>. QED
    BY <1>1, <2>2 DEF B!In, B!Once
<1>4. ASSUME NEW u, B!In(u, s), u # Head(s) PROVE B!In(u, a)
  <2>1. PICK i \in 1..Len(s) : s[i] = u
    BY <1>1, <1>4 DEF B!In
  <2>2. i - 1 \in 1..(Len(s) - 1) /\ a[i - 1] = u
    BY <1>1, <1>4, <2>1
  <2>. QED
    BY <1>1, <2>2 DEF B!In
<1>. QED
  BY <1>1, <1>2, <1>3, <1>4 DEF a

LEMMA FrontKeeps ==
    ASSUME NEW T, NEW s \in Seq(T), NEW t \in T, B!Once(s), ~B!In(t, s)
    PROVE  /\ <<t>> \o s \in Seq(T) /\ <<t>> \o s # <<>> /\ Head(<<t>> \o s) = t
           /\ B!Once(<<t>> \o s)
           /\ \A u : B!In(u, <<t>> \o s) <=> B!In(u, s) \/ u = t
<1>. DEFINE a == <<t>> \o s
<1>1. /\ a \in Seq(T) /\ Len(s) \in Nat /\ DOMAIN s = 1..Len(s)
      /\ DOMAIN a = 1..(Len(s) + 1) /\ a[1] = t /\ a # <<>> /\ Head(a) = t
      /\ \A i \in 1..Len(s) : a[i + 1] = s[i]
  OBVIOUS
<1>. HIDE DEF a
<1>2. \A i \in 1..(Len(s) + 1) : i # 1 => i - 1 \in DOMAIN s /\ a[i] = s[i - 1]
  <2>. SUFFICES ASSUME NEW i \in 1..(Len(s) + 1), i # 1
                PROVE  i - 1 \in DOMAIN s /\ a[i] = s[i - 1]
    OBVIOUS
  <2>1. i - 1 \in 1..Len(s) /\ (i - 1) + 1 = i
    BY <1>1
  <2>. QED
    BY <1>1, <2>1
<1>3. B!Once(a)
  <2>. SUFFICES ASSUME NEW i \in 1..(Len(s) + 1), NEW j \in 1..(Len(s) + 1), a[i] = a[j]
                PROVE  i = j
    BY <1>1 DEF B!Once
  <2>1. CASE i # 1 /\ j # 1
    <3>1. i - 1 = j - 1
      BY <1>2, <2>1 DEF B!Once
    <3>. QED
      BY <1>1, <3>1
  <2>2. CASE i = 1 \/ j = 1
    BY <1>1, <1>2, <2>2 DEF B!In
  <2>. QED
    BY <2>1, <2>2
<1>4. ASSUME NEW u, B!In(u, a) PROVE B!In(u, s) \/ u = t
  <2>1. PICK i \in 1..(Len(s) + 1) : a[i] = u
    BY <1>1, <1>4 DEF B!In
  <2>. QED
    BY <1>1, <1>2, <2>1 DEF B!In
<1>5. ASSUME NEW u, B!In(u, s) \/ u = t PROVE B!In(u, a)
  <2>1. CASE u = t
    BY <1>1, <2>1 DEF B!In
  <2>2. ASSUME NEW i \in 1..Len(s), s[i] = u PROVE B!In(u, a)
    <3>1. i + 1 \in DOMAIN a /\ a[i + 1] = u
      BY <1>1, <2>2
    <3>. QED
      BY <3>1 DEF B!In
  <2>. QED
    BY <1>1, <1>5, <2>1, <2>2 DEF B!In
<1>. QED
  BY <1>1, <1>3, <1>4, <1>5 DEF a

LEMMA SecondKeeps ==
    ASSUME NEW T, NEW s \in Seq(T), s # <<>>, NEW t \in T, B!Once(s), ~B!In(t, s)
    PROVE  LET a == <<Head(s), t>> \o Tail(s)
           IN  /\ a \in Seq(T) /\ a # <<>> /\ Head(a) = Head(s)
               /\ B!Once(a) /\ \A u : B!In(u, a) <=> B!In(u, s) \/ u = t
<1>1. /\ Tail(s) \in Seq(T) /\ B!Once(Tail(s)) /\ Head(s) \in T
      /\ \A u : B!In(u, Tail(s)) <=> B!In(u, s) /\ u # Head(s)
  BY TailKeeps
<1>2. B!In(Head(s), s)
  BY DEF B!In
<1>. DEFINE r == <<t>> \o Tail(s)
<1>3. /\ r \in Seq(T) /\ B!Once(r)
      /\ \A u : B!In(u, r) <=> B!In(u, Tail(s)) \/ u = t
  BY <1>1, FrontKeeps
<1>4. ~B!In(Head(s), r)
  BY <1>1, <1>2, <1>3
<1>5. <<Head(s), t>> \o Tail(s) = <<Head(s)>> \o r
  BY <1>1
<1>6. /\ <<Head(s)>> \o r \in Seq(T) /\ <<Head(s)>> \o r # <<>> /\ Head(<<Head(s)>> \o r) = Head(s)
      /\ B!Once(<<Head(s)>> \o r)
      /\ \A u : B!In(u, <<Head(s)>> \o r) <=> B!In(u, r) \/ u = Head(s)
  <2>. HIDE DEF r
  <2>. QED
    BY <1>1, <1>3, <1>4, FrontKeeps
<1>. DEFINE a == <<Head(s), t>> \o Tail(s)
<1>7. /\ a \in Seq(T) /\ a # <<>> /\ Head(a) = Head(s)
      /\ B!Once(a) /\ \A u : B!In(u, a) <=> B!In(u, r) \/ u = Head(s)
  BY <1>5, <1>6, Zenon
<1>8. \A u : B!In(u, a) <=> B!In(u, s) \/ u = t
  <2>. HIDE DEF a, r
  <2>. QED
    BY <1>1, <1>2, <1>3, <1>7
<1>. QED
  BY <1>7, <1>8, Zenon

--------------------------------------------------------------------------------
(* The queues with p among them. A main tasklet is never in one. *)
Joined(q, p) ==
    /\ q \in QueuesType
    /\ \A h \in Threads :
          /\ B!Once(q[h])
          /\ \A u : B!In(u, q[h]) <=> B!In(u, queue[h]) \/ (u = p /\ h = Home[p] /\ p \notin Threads)
          /\ cur[h] # h => q[h] # <<>> /\ Head(q[h]) = cur[h]

LEMMA JoinedBy ==
    ASSUME NEW M, TypeOK(M), Queues, NEW p \in Tasklets \ Threads,
           NEW s \in Seq(Tasklets \ Threads), B!Once(s),
           \A u : B!In(u, s) <=> B!In(u, queue[Home[p]]) \/ u = p,
           cur[Home[p]] # Home[p] => s # <<>> /\ Head(s) = cur[Home[p]]
    PROVE  Joined([queue EXCEPT ![Home[p]] = s], p)
<1>. DEFINE q == [queue EXCEPT ![Home[p]] = s]
<1>1. Home[p] \in Threads
  BY ThreadsAssumption
<1>2. queue \in [Threads -> Seq(Tasklets \ Threads)]
  BY DEF TypeOK, QueuesType
<1>3. q \in [Threads -> Seq(Tasklets \ Threads)] /\ q[Home[p]] = s
      /\ \A h \in Threads \ {Home[p]} : q[h] = queue[h]
  BY <1>1, <1>2
<1>. HIDE DEF q
<1>4. ASSUME NEW h \in Threads
      PROVE  /\ B!Once(q[h])
             /\ \A u : B!In(u, q[h]) <=> B!In(u, queue[h]) \/ (u = p /\ h = Home[p])
             /\ cur[h] # h => q[h] # <<>> /\ Head(q[h]) = cur[h]
  <2>1. CASE h = Home[p]
    BY <1>3, <2>1
  <2>2. CASE h # Home[p]
    BY <1>3, <2>2 DEF Queues
  <2>. QED
    BY <2>1, <2>2
<1>5. Joined(q, p)
  BY <1>3, <1>4, Zenon DEF Joined, QueuesType
<1>. QED
  BY <1>5 DEF q

LEMMA JoinedStays ==
    ASSUME NEW M, TypeOK(M), Queues, NEW p \in Tasklets,
           p \in Threads \/ B!In(p, queue[Home[p]])
    PROVE  Joined(queue, p)
BY Zenon DEF Joined, Queues, TypeOK

LEMMA JoinedLast ==
    ASSUME NEW M, TypeOK(M), Queues, NEW p \in Tasklets
    PROVE  /\ Joined(Inserted(p), p)
           /\ \A h \in Threads : queue[h] # <<>> => Inserted(p)[h] # <<>> /\ Head(Inserted(p)[h]) = Head(queue[h])
<1>1. Home[p] \in Threads
  BY ThreadsAssumption
<1>2. queue \in [Threads -> Seq(Tasklets \ Threads)]
  BY DEF TypeOK, QueuesType
<1>3. InQueue(p) <=> B!In(p, queue[Home[p]])
  BY DEF InQueue, B!In
<1>4. CASE p \in Threads \/ B!In(p, queue[Home[p]])
  BY <1>3, <1>4, JoinedStays DEF Inserted
<1>5. CASE p \notin Threads /\ ~B!In(p, queue[Home[p]])
  <2>. DEFINE s == queue[Home[p]]
              a == Append(s, p)
  <2>1. s \in Seq(Tasklets \ Threads) /\ p \in Tasklets \ Threads /\ B!Once(s)
    BY <1>1, <1>2, <1>5 DEF Queues
  <2>2. /\ a \in Seq(Tasklets \ Threads) /\ B!Once(a)
        /\ \A u : B!In(u, a) <=> B!In(u, s) \/ u = p
    BY <1>5, <2>1, B!AppendKeeps
  <2>3. s # <<>> => a # <<>> /\ Head(a) = Head(s)
    BY <2>1
  <2>4. Inserted(p) = [queue EXCEPT ![Home[p]] = a]
    BY <1>3, <1>5 DEF Inserted
  <2>5. cur[Home[p]] # Home[p] => s # <<>> /\ Head(s) = cur[Home[p]]
    BY <1>1 DEF Queues
  <2>6. cur[Home[p]] # Home[p] => a # <<>> /\ Head(a) = cur[Home[p]]
    BY <2>3, <2>5
  <2>7. \A h \in Threads : Inserted(p)[h] = IF h = Home[p] THEN a ELSE queue[h]
    BY <1>1, <1>2, <2>4
  <2>8. Joined([queue EXCEPT ![Home[p]] = a], p)
    <3>. HIDE DEF a
    <3>. QED
      BY <1>5, <2>1, <2>2, <2>6, JoinedBy
  <2>. HIDE DEF a
  <2>. QED
    BY <2>3, <2>4, <2>7, <2>8
<1>. QED
  BY <1>4, <1>5

LEMMA JoinedNext ==
    ASSUME NEW M, TypeOK(M), Queues, NEW p \in Tasklets,
           p \in Threads \/ ~B!In(p, queue[Home[p]])
    PROVE  Joined(InsertedToRunNext(p), p)
<1>1. Home[p] \in Threads
  BY ThreadsAssumption
<1>2. CASE p \in Threads
  BY <1>2, JoinedStays DEF InsertedToRunNext
<1>3. CASE p \notin Threads
  <2>. DEFINE h == Home[p]
              s == queue[h]
              a == IF cur[h] = h THEN <<p>> \o s ELSE <<Head(s), p>> \o Tail(s)
  <2>1. s \in Seq(Tasklets \ Threads) /\ p \in Tasklets \ Threads /\ B!Once(s) /\ ~B!In(p, s)
    BY <1>1, <1>3 DEF Queues, TypeOK, QueuesType
  <2>2. cur[h] # h => s # <<>> /\ Head(s) = cur[h]
    BY <1>1 DEF Queues
  <2>3. /\ a \in Seq(Tasklets \ Threads) /\ B!Once(a)
        /\ \A u : B!In(u, a) <=> B!In(u, s) \/ u = p
        /\ cur[h] # h => a # <<>> /\ Head(a) = cur[h]
    <3>1. CASE cur[h] = h
      <4>. HIDE DEF h, s
      <4>. QED
        BY <2>1, <3>1, FrontKeeps
    <3>2. CASE cur[h] # h
      <4>. HIDE DEF h, s
      <4>. QED
        BY <2>1, <2>2, <3>2, SecondKeeps
    <3>. QED
      BY <3>1, <3>2
  <2>4. InsertedToRunNext(p) = [queue EXCEPT ![h] = a]
    BY <1>3 DEF InsertedToRunNext
  <2>5. Joined([queue EXCEPT ![h] = a], p)
    <3>. HIDE DEF a
    <3>. QED
      BY <2>1, <2>3, JoinedBy
  <2>. QED
    BY <2>4, <2>5, Zenon
<1>. QED
  BY <1>2, <1>3

LEMMA JoinedFirst ==
    ASSUME NEW M, TypeOK(M), Queues, NEW p \in Tasklets \ Threads, cur[Home[p]] = Home[p]
    PROVE  LET q == [queue EXCEPT ![Home[p]] = <<p>> \o Unlinked(@, p)]
           IN  Joined(q, p) /\ q[Home[p]] # <<>> /\ Head(q[Home[p]]) = p
<1>. DEFINE h == Home[p]
            s == Unlinked(queue[h], p)
            a == <<p>> \o s
            q == [queue EXCEPT ![h] = a]
<1>1. h \in Threads
  BY ThreadsAssumption
<1>2. queue \in [Threads -> Seq(Tasklets \ Threads)] /\ B!Once(queue[h])
  BY <1>1 DEF TypeOK, QueuesType, Queues
<1>3. /\ s \in Seq(Tasklets \ Threads) /\ B!Once(s)
      /\ \A u : B!In(u, s) <=> B!In(u, queue[h]) /\ u # p
  BY <1>1, <1>2, SameOps, B!UnlinkedKeeps
<1>4. /\ a \in Seq(Tasklets \ Threads) /\ B!Once(a) /\ a # <<>> /\ Head(a) = p
      /\ \A u : B!In(u, a) <=> B!In(u, s) \/ u = p
  <2>. HIDE DEF s
  <2>. QED
    BY <1>3, FrontKeeps
<1>5. \A u : B!In(u, a) <=> B!In(u, queue[h]) \/ u = p
  <2>. HIDE DEF a, s
  <2>. QED
    BY <1>3, <1>4
<1>6. Joined(q, p)
  <2>. HIDE DEF a
  <2>. QED
    BY <1>4, <1>5, JoinedBy
<1>7. q[h] = a
  BY <1>1, <1>2
<1>. QED
  BY <1>4, <1>6, <1>7, Zenon

(* The queues after t, the current tasklet of th, has given control away    *)
(* with the queues q0: nobody else is taken out of one.                     *)
AfterYield(th, t, q0, again) ==
    /\ \A h \in Threads :
          /\ B!Once(queue'[h])
          /\ \A u : B!In(u, queue'[h]) <=>
                IF u = t THEN h = th /\ t # th /\ again ELSE B!In(u, q0[h])
    /\ cur'[th] = th /\ \A h \in Threads \ {th} : cur'[h] = cur[h]
    /\ \A h \in Threads : cur'[h] # h => queue'[h] # <<>> /\ Head(queue'[h]) = cur'[h]

LEMMA YieldsQueues ==
    ASSUME NEW M, TypeOK(M), NEW th \in Threads, NEW t \in Tasklets, cur[th] = t,
           t \in Threads => t = th,
           NEW p \in Tasklets, NEW q0, Joined(q0, p), NEW tk0, Yields(th, q0, tk0),
           \A h \in Threads : h # th => ~B!In(t, q0[h])
    PROVE  AfterYield(th, t, q0, tk0[t].again)
<1>1. /\ q0 \in [Threads -> Seq(Tasklets \ Threads)]
      /\ \A h \in Threads : B!Once(q0[h]) /\ (cur[h] # h => q0[h] # <<>> /\ Head(q0[h]) = cur[h])
  BY DEF Joined, QueuesType
<1>2. cur \in [Threads -> Tasklets] /\ th \in Tasklets
  BY ThreadsAssumption DEF TypeOK
<1>3. ASSUME NEW h \in Threads, NEW u \in Threads PROVE ~B!In(u, q0[h])
  BY <1>1, <1>3 DEF B!In
<1>4. CASE t = th
  <2>1. queue' = q0 /\ cur' = cur
    BY <1>4 DEF Yields
  <2>. QED
    BY <1>1, <1>2, <1>3, <1>4, <2>1 DEF AfterYield
<1>5. CASE t # th
  <2>. DEFINE s == q0[th]
              z == Tail(s)
              a == IF tk0[t].again THEN Append(z, t) ELSE z
  <2>1. t \in Tasklets \ Threads
    BY <1>5
  <2>2. s \in Seq(Tasklets \ Threads) /\ B!Once(s) /\ s # <<>> /\ Head(s) = t
    BY <1>1, <1>5
  <2>3. z \in Seq(Tasklets \ Threads) /\ B!Once(z) /\ \A u : B!In(u, z) <=> B!In(u, s) /\ u # t
    <3>. HIDE DEF s
    <3>. QED
      BY <2>2, TailKeeps
  <2>4. /\ Append(z, t) \in Seq(Tasklets \ Threads) /\ B!Once(Append(z, t))
        /\ \A u : B!In(u, Append(z, t)) <=> B!In(u, z) \/ u = t
    <3>. HIDE DEF z
    <3>. QED
      BY <2>1, <2>3, B!AppendKeeps
  <2>5. /\ B!Once(a) /\ \A u : B!In(u, a) <=> IF u = t THEN tk0[t].again ELSE B!In(u, s)
    <3>. HIDE DEF z, s
    <3>. QED
      BY <2>3, <2>4
  <2>6. queue' = [q0 EXCEPT ![th] = a] /\ cur' = [cur EXCEPT ![th] = th]
    BY <1>5 DEF Yields
  <2>7. queue'[th] = a /\ \A h \in Threads \ {th} : queue'[h] = q0[h]
    <3>. HIDE DEF a
    <3>. QED
      BY <1>1, <2>6
  <2>8. cur' \in [Threads -> Tasklets] /\ cur'[th] = th /\ \A h \in Threads \ {th} : cur'[h] = cur[h]
    BY <1>2, <2>6
  <2>9. ASSUME NEW h \in Threads
        PROVE  /\ B!Once(queue'[h])
               /\ \A u : B!In(u, queue'[h]) <=>
                     IF u = t THEN h = th /\ t # th /\ tk0[t].again ELSE B!In(u, q0[h])
               /\ cur'[h] # h => queue'[h] # <<>> /\ Head(queue'[h]) = cur'[h]
    <3>1. CASE h = th
      <4>. HIDE DEF a
      <4>. QED
        BY <1>5, <2>5, <2>7, <2>8, <3>1
    <3>2. CASE h # th
      BY <1>1, <2>7, <2>8, <3>2
    <3>. QED
      BY <3>1, <3>2
  <2>. QED
    BY <2>8, <2>9, Zenon DEF AfterYield
<1>. QED
  BY <1>4, <1>5

LEMMA CurrentIn ==
    ASSUME NEW M, TypeOK(M), Queues, NEW h \in Threads, cur[h] # h
    PROVE  B!In(cur[h], queue[h])
<1>1. \A s \in Seq(Tasklets \ Threads) : s # <<>> => B!In(Head(s), s)
  BY DEF B!In
<1>. QED
  BY <1>1 DEF Queues, TypeOK, QueuesType

LEMMA YieldsKeeps ==
    ASSUME NEW M, TypeOK(M), Queues, Runnable,
           NEW t \in Tasklets, NEW th \in Threads, th = Home[t], cur[th] = t,
           NEW p \in Tasklets, NEW q0, Joined(q0, p), NEW tk0, Yields(th, q0, tk0),
           p # t => tk'[p].alive /\ ~tk'[p].blocked,
           \A u \in Tasklets \ {t, p} : tk'[u] = tk[u],
           t \notin Threads /\ tk0[t].again => tk'[t].alive /\ ~tk'[t].blocked,
           t \notin Threads /\ tk'[t].alive /\ tk'[t].at # "done" /\ ~tk'[t].blocked => tk0[t].again
    PROVE  /\ Queues' /\ Runnable'
           /\ \A h \in Threads, u \in Tasklets :
                 B!In(u, queue'[h]) => B!In(u, queue[h]) \/ h \in {th, Home[p]}
<1>1. th \in Tasklets /\ Home[p] \in Threads /\ (t \in Threads => t = th)
  BY ThreadsAssumption
<1>2. \A h \in Threads : \A u \in Tasklets : B!In(u, q0[h]) =>
         /\ B!In(u, queue[h]) \/ (u = p /\ h = Home[p])
         /\ u \notin Threads /\ Home[u] = h
  <2>. SUFFICES ASSUME NEW h \in Threads, NEW u \in Tasklets, B!In(u, q0[h])
                PROVE  /\ B!In(u, queue[h]) \/ (u = p /\ h = Home[p])
                       /\ u \notin Threads /\ Home[u] = h
    OBVIOUS
  <2>1. B!In(u, queue[h]) \/ (u = p /\ h = Home[p])
    BY DEF Joined
  <2>2. u \notin Threads
    BY DEF Joined, QueuesType, B!In
  <2>. QED
    BY <2>1, <2>2 DEF Queues
<1>3. \A h \in Threads : h # th => ~B!In(t, q0[h])
  BY <1>2
<1>4. /\ \A h \in Threads :
           /\ B!Once(queue'[h])
           /\ \A u : B!In(u, queue'[h]) <=>
                 IF u = t THEN h = th /\ t # th /\ tk0[t].again ELSE B!In(u, q0[h])
      /\ \A h \in Threads : cur'[h] # h => queue'[h] # <<>> /\ Head(queue'[h]) = cur'[h]
  <2>1. AfterYield(th, t, q0, tk0[t].again)
    BY <1>1, <1>3, YieldsQueues
  <2>. QED
    BY <2>1 DEF AfterYield
<1>5. ASSUME NEW h \in Threads, NEW u \in Tasklets, B!In(u, queue'[h])
      PROVE  /\ Home[u] = h /\ tk'[u].alive /\ ~tk'[u].blocked
             /\ B!In(u, queue[h]) \/ h \in {th, Home[p]}
  <2>1. CASE u = t
    <3>1. h = th /\ t # th /\ tk0[t].again
      BY <1>4, <1>5, <2>1
    <3>2. t \notin Threads
      BY <1>1, <3>1
    <3>. QED
      BY <2>1, <3>1, <3>2
  <2>2. CASE u # t
    <3>1. B!In(u, q0[h])
      BY <1>4, <1>5, <2>2
    <3>2. /\ B!In(u, queue[h]) \/ (u = p /\ h = Home[p])
          /\ Home[u] = h
      BY <1>2, <3>1
    <3>3. CASE u = p
      BY <2>2, <3>2, <3>3
    <3>4. CASE u # p
      <4>1. tk'[u] = tk[u] /\ B!In(u, queue[h])
        BY <2>2, <3>2, <3>4
      <4>. QED
        BY <3>2, <4>1 DEF Queues
    <3>. QED
      BY <3>3, <3>4
  <2>. QED
    BY <2>1, <2>2
<1>6. Queues'
  BY <1>4, <1>5, Zenon DEF Queues
<1>7. Runnable'
  <2>. SUFFICES ASSUME NEW u \in Tasklets \ Threads,
                       tk'[u].alive, tk'[u].at # "done", ~tk'[u].blocked
                PROVE  B!In(u, queue'[Home[u]])
    BY DEF Runnable
  <2>1. Home[u] \in Threads
    BY ThreadsAssumption
  <2>2. CASE u = t
    <3>1. tk0[t].again /\ t # th
      BY <1>1, <2>2
    <3>. QED
      BY <1>1, <1>4, <2>2, <3>1
  <2>3. CASE u # t /\ u = p
    <3>1. B!In(u, q0[Home[u]])
      BY <2>1, <2>3 DEF Joined
    <3>. QED
      BY <1>4, <2>1, <2>3, <3>1
  <2>4. CASE u # t /\ u # p
    <3>1. B!In(u, queue[Home[u]])
      BY <2>4 DEF Runnable
    <3>2. B!In(u, q0[Home[u]])
      BY <2>1, <3>1 DEF Joined
    <3>. QED
      BY <1>4, <2>1, <2>4, <3>2
  <2>. QED
    BY <2>2, <2>3, <2>4
<1>. QED
  BY <1>5, <1>6, <1>7

(* The same when t goes on, with q the queues. *)
LEMMA StaysKeeps ==
    ASSUME NEW M, TypeOK(M), Queues, Runnable,
           NEW t \in Tasklets, cur[Home[t]] = t,
           NEW p \in Tasklets, Joined(queue', p), cur' = cur,
           p # t => tk'[p].alive /\ ~tk'[p].blocked,
           \A u \in Tasklets \ {t, p} : tk'[u] = tk[u],
           t \notin Threads => tk'[t].alive /\ ~tk'[t].blocked
    PROVE  /\ Queues' /\ Runnable'
           /\ \A h \in Threads, u \in Tasklets :
                 B!In(u, queue'[h]) => B!In(u, queue[h]) \/ h = Home[p]
<1>1. Home[t] \in Threads /\ (t \notin Threads => t # Home[t])
  BY ThreadsAssumption
<1>2. t \notin Threads => B!In(t, queue[Home[t]])
  BY <1>1, CurrentIn
<1>3. ASSUME NEW h \in Threads, NEW u \in Tasklets, B!In(u, queue'[h])
      PROVE  /\ Home[u] = h /\ tk'[u].alive /\ ~tk'[u].blocked
             /\ B!In(u, queue[h]) \/ h = Home[p]
  <2>1. B!In(u, queue[h]) \/ (u = p /\ h = Home[p])
    BY <1>3 DEF Joined
  <2>2. Home[u] = h
    BY <2>1 DEF Queues
  <2>3. u \notin Threads
    BY <1>3 DEF Joined, QueuesType, B!In
  <2>4. CASE u \in {t, p}
    BY <2>1, <2>2, <2>3, <2>4
  <2>5. CASE u \notin {t, p}
    BY <2>1, <2>2, <2>5 DEF Queues
  <2>. QED
    BY <2>4, <2>5
<1>4. Queues'
  BY <1>3 DEF Queues, Joined
<1>5. Runnable'
  <2>. SUFFICES ASSUME NEW u \in Tasklets \ Threads,
                       tk'[u].alive, tk'[u].at # "done", ~tk'[u].blocked
                PROVE  B!In(u, queue'[Home[u]])
    BY DEF Runnable
  <2>1. Home[u] \in Threads
    BY ThreadsAssumption
  <2>2. u # p => B!In(u, queue[Home[u]])
    BY <1>2 DEF Runnable
  <2>. QED
    BY <2>1, <2>2 DEF Joined
<1>. QED
  BY <1>3, <1>4, <1>5

--------------------------------------------------------------------------------
(* Who can be half killed while somebody runs. *)

NoneKilled == \A u \in Tasklets : tk[u].dir # "NEITHER" => tk[u].blocked

LEMMA Homes ==
    ASSUME NEW t \in Tasklets
    PROVE  Home[t] \in Threads /\ Home[t] \in Tasklets /\ (t \in Threads <=> Home[t] = t)
BY ThreadsAssumption

(* t is in Python code. *)
Running(t) ==
    /\ cur[Home[t]] = t /\ phase[Home[t]] # "over"
    /\ tk[t].at = "code" /\ tk[t].dir = "NEITHER" /\ ~tk[t].blocked /\ tk[t].alive
    /\ NoneKilled
    /\ t \notin Threads => B!In(t, queue[Home[t]])

LEMMA InPythonRuns ==
    ASSUME NEW M, IInv(M), NEW t \in Tasklets, InPython(t)
    PROVE  Running(t)
<1>1. /\ Turn(Home[t]) /\ cur[Home[t]] = t /\ tk[t].at = "code"
      /\ t = Home[t] => loop[Home[t]] = "off"
  BY DEF InPython
<1>2. tk[t] \in TaskletType(M) /\ Sane(tk[t])
  BY DEF IInv, Meeting, TypeOK, TaskletsType, AllSane
<1>3. tk[t].dir = "NEITHER" /\ ~tk[t].blocked /\ tk[t].alive
  BY <1>1, <1>2 DEF TaskletType, Sane, Direction
<1>4. NoneKilled
  <2>. SUFFICES ASSUME NEW u \in Tasklets, tk[u].dir # "NEITHER", ~tk[u].blocked
                PROVE  FALSE
    BY DEF NoneKilled
  <2>1. /\ gil = Home[u]
        /\ cur[Home[u]] = u \/ (cur[Home[u]] = Home[u] /\ loop[Home[u]] = "on")
    BY DEF IInv, Killing
  <2>2. Home[u] \in Tasklets /\ Home[u] # NULL
    BY Homes, ThreadsAssumption
  <2>3. Home[u] = Home[t]
    BY <1>1, <2>1, <2>2 DEF Turn
  <2>. QED
    BY <1>1, <1>3, <2>1, <2>3
<1>5. t \notin Threads => B!In(t, queue[Home[t]])
  BY <1>1, Homes, CurrentIn DEF IInv, Meeting
<1>. QED
  BY <1>1, <1>3, <1>4, <1>5 DEF Running, Turn

(* t goes on with the rest of a call. *)
Resuming(t) ==
    /\ cur[Home[t]] = t /\ phase[Home[t]] # "over"
    /\ tk[t].alive /\ tk[t].on \in Channels
    /\ \A u \in Tasklets \ {t} : tk[u].dir # "NEITHER" => tk[u].blocked
    /\ t \notin Threads => B!In(t, queue[Home[t]]) /\ ~tk[t].blocked

LEMMA ResumesRuns ==
    ASSUME NEW M, IInv(M), NEW t \in Tasklets, NEW rest \in Resting, Resumes(t, rest)
    PROVE  Resuming(t)
<1>1. /\ Turn(Home[t]) /\ cur[Home[t]] = t /\ tk[t].at = rest
      /\ t \in Threads => loop[t] = "off"
  BY DEF Resumes
<1>2. tk[t] \in TaskletType(M) /\ Sane(tk[t])
  BY DEF IInv, Meeting, TypeOK, TaskletsType, AllSane
<1>3. tk[t].alive /\ tk[t].on \in Channels
  BY <1>1, <1>2 DEF TaskletType, Sane, Resting
<1>4. ASSUME NEW u \in Tasklets \ {t}, tk[u].dir # "NEITHER", ~tk[u].blocked
      PROVE  FALSE
  <2>1. /\ gil = Home[u]
        /\ cur[Home[u]] = u \/ (cur[Home[u]] = Home[u] /\ loop[Home[u]] = "on")
    BY <1>4 DEF IInv, Killing
  <2>2. Home[u] \in Tasklets /\ Home[u] # NULL
    BY Homes, ThreadsAssumption
  <2>3. Home[u] = Home[t]
    BY <1>1, <2>1, <2>2 DEF Turn
  <2>4. t = Home[t]
    BY <1>1, <1>4, <2>1, <2>3
  <2>5. t \in Threads
    BY <2>4, Homes
  <2>. QED
    BY <1>1, <1>4, <2>1, <2>3, <2>4, <2>5
<1>5. t \notin Threads => B!In(t, queue[Home[t]])
  BY <1>1, Homes, CurrentIn DEF IInv, Meeting
<1>6. t \notin Threads => ~tk[t].blocked
  BY <1>5, Homes DEF IInv, Queues
<1>. QED
  BY <1>1, <1>3, <1>4, <1>5, <1>6 DEF Resuming, Turn

LEMMA LoopingFacts ==
    ASSUME NEW M, IInv(M), NEW th \in Threads, LoopRuns(th)
    PROVE  /\ phase[th] # "over" /\ cur[th] = th /\ loop[th] # "off" /\ Home[th] = th
           /\ \A u \in Tasklets : tk[u].dir # "NEITHER" /\ ~tk[u].blocked =>
                 /\ Home[u] = th /\ gil = th /\ loop[th] = "on"
                 /\ queue[th] # <<>> /\ Head(queue[th]) = u
<1>1. Turn(th) /\ cur[th] = th /\ loop[th] # "off" /\ Home[th] = th
  BY ThreadsAssumption DEF LoopRuns
<1>2. ASSUME NEW u \in Tasklets, tk[u].dir # "NEITHER", ~tk[u].blocked
      PROVE  /\ Home[u] = th /\ gil = th /\ loop[th] = "on"
             /\ queue[th] # <<>> /\ Head(queue[th]) = u
  <2>1. /\ gil = Home[u] /\ queue[Home[u]] # <<>> /\ Head(queue[Home[u]]) = u
        /\ cur[Home[u]] = u \/ (cur[Home[u]] = Home[u] /\ loop[Home[u]] = "on")
    BY <1>2 DEF IInv, Killing
  <2>2. Home[u] \in Tasklets /\ Home[u] # NULL
    BY Homes, ThreadsAssumption
  <2>3. Home[u] = th
    BY <1>1, <2>1, <2>2 DEF Turn
  <2>4. u # th
    <3>1. \A s \in Seq(Tasklets \ Threads) : s # <<>> => Head(s) \notin Threads
      OBVIOUS
    <3>. QED
      BY <2>1, <2>3, <3>1 DEF IInv, Meeting, TypeOK, QueuesType
  <2>. QED
    BY <1>1, <2>1, <2>3, <2>4
<1>. QED
  BY <1>1, <1>2 DEF Turn

--------------------------------------------------------------------------------
(* The kinds of step that a running tasklet makes. What concerns the        *)
(* channels is left to whoever uses these lemmas.                           *)

LEMMA EndedKept ==
    ASSUME Ended, phase' = phase,
           \A u \in Tasklets : phase[Home[u]] = "over" =>
              /\ tk'[u].dir = tk[u].dir \/ tk'[u].dir = "NEITHER"
              /\ B!In(u, queue'[Home[u]]) => B!In(u, queue[Home[u]])
    PROVE  Ended'
BY DEF Ended

LEMMA YieldStep ==
    ASSUME NEW M, IInv(M), Meets(M), phase' = phase,
           NEW t \in Tasklets, NEW th \in Threads, th = Home[t], cur[th] = t, phase[th] # "over",
           NEW p \in Tasklets, phase[Home[p]] # "over",
           NEW q0, Joined(q0, p), NEW tk0, Yields(th, q0, tk0),
           p # t => tk'[p].alive /\ ~tk'[p].blocked,
           \A u \in Tasklets \ {t, p} : tk'[u] = tk[u],
           t \notin Threads /\ tk0[t].again => tk'[t].alive /\ ~tk'[t].blocked,
           t \notin Threads /\ tk'[t].alive /\ tk'[t].at # "done" /\ ~tk'[t].blocked => tk0[t].again,
           NoneKilled'
    PROVE  Keeps(M)
<1>1. /\ Queues' /\ Runnable'
      /\ \A h \in Threads, u \in Tasklets :
            B!In(u, queue'[h]) => B!In(u, queue[h]) \/ h \in {th, Home[p]}
  BY YieldsKeeps DEF IInv, Meeting
<1>2. \A u \in Tasklets : phase[Home[u]] = "over" =>
         /\ tk'[u].dir = tk[u].dir
         /\ B!In(u, queue'[Home[u]]) => B!In(u, queue[Home[u]])
  BY <1>1, Homes
<1>3. Ended'
  BY <1>2, EndedKept DEF IInv
<1>4. Killing'
  BY DEF NoneKilled, Killing
<1>. QED
  BY <1>1, <1>3, <1>4 DEF IInv, Meets, Keeps

LEMMA StayStep ==
    ASSUME NEW M, IInv(M), Meets(M), phase' = phase, cur' = cur,
           NEW t \in Tasklets, cur[Home[t]] = t, phase[Home[t]] # "over",
           NEW p \in Tasklets, phase[Home[p]] # "over", Joined(queue', p),
           p # t => tk'[p].alive /\ ~tk'[p].blocked,
           \A u \in Tasklets \ {t, p} : tk'[u] = tk[u],
           t \notin Threads => tk'[t].alive /\ ~tk'[t].blocked,
           NoneKilled'
    PROVE  Keeps(M)
<1>1. /\ Queues' /\ Runnable'
      /\ \A h \in Threads, u \in Tasklets :
            B!In(u, queue'[h]) => B!In(u, queue[h]) \/ h = Home[p]
  BY StaysKeeps DEF IInv, Meeting
<1>2. \A u \in Tasklets : phase[Home[u]] = "over" =>
         /\ tk'[u].dir = tk[u].dir
         /\ B!In(u, queue'[Home[u]]) => B!In(u, queue[Home[u]])
  BY <1>1, Homes
<1>3. Ended'
  BY <1>2, EndedKept DEF IInv
<1>4. Killing'
  BY DEF NoneKilled, Killing
<1>. QED
  BY <1>1, <1>3, <1>4 DEF IInv, Meets, Keeps

(* t goes on in Python code, and nothing else changes but its channel. *)
LEMMA GoesOnStep ==
    ASSUME NEW M, IInv(M), Meets(M), GoesOn,
           NEW t \in Tasklets, cur[Home[t]] = t, phase[Home[t]] # "over",
           t \notin Threads => B!In(t, queue[Home[t]]),
           \A u \in Tasklets \ {t} : tk'[u] = tk[u],
           t \notin Threads => tk'[t].alive /\ ~tk'[t].blocked,
           NoneKilled'
    PROVE  Keeps(M)
<1>1. queue' = queue /\ cur' = cur /\ phase' = phase
  BY DEF GoesOn
<1>2. Joined(queue, t)
  BY JoinedStays DEF IInv, Meeting
<1>. QED
  BY <1>1, <1>2, StayStep

LEMMA SameChannels ==
    ASSUME NEW M, Meeting(M), TypeOK(M)', AllSane', ch' = ch,
           \A u \in Tasklets : /\ tk'[u].dir = tk[u].dir
                               /\ tk[u].dir # "NEITHER" => tk'[u].on = tk[u].on
    PROVE  Meets(M)
<1>1. Places'
  BY PlacesStay DEF Meeting
<1>. QED
  BY <1>1, MeetingKept

(* The tasklet t that runs becomes r and gives control away. *)
LEMMA YieldOneStep ==
    ASSUME NEW M, IInv(M), NEW t \in Tasklets, Running(t), NEW th \in Threads, th = Home[t],
           NEW r \in TaskletType(M), Sane(Unmarked(r)), Yields(th, queue, [tk EXCEPT ![t] = r]),
           r.again => t \notin Threads /\ r.alive /\ ~r.blocked,
           t \notin Threads /\ r.alive /\ r.at # "done" /\ ~r.blocked => r.again,
           r.dir # "NEITHER" => r.blocked
    PROVE  Becomes(M, t, Unmarked(r)) /\ (Meets(M) => Keeps(M))
<1>1. /\ cur[th] = t /\ (cur[th] # th => queue[th] # <<>> /\ cur[th] \notin Threads)
      /\ t \in Threads <=> t = th
  BY Homes DEF Running, IInv, Queues
<1>2. queue \in QueuesType /\ TypeOK(M) /\ AllSane /\ Queues
  BY DEF IInv, Meeting, TypeOK
<1>3. Becomes(M, t, Unmarked(r)) /\ phase' = phase
  BY <1>1, <1>2, YieldsOne
<1>4. Joined(queue, t)
  BY <1>2, JoinedStays DEF Running
<1>5. /\ tk'[t] = Unmarked(r) /\ \A u \in Tasklets \ {t} : tk'[u] = tk[u]
  BY <1>3 DEF Becomes
<1>6. [tk EXCEPT ![t] = r][t] = r
  BY <1>2 DEF TypeOK, TaskletsType
<1>7. /\ Unmarked(r).alive = r.alive /\ Unmarked(r).blocked = r.blocked
      /\ Unmarked(r).at = r.at /\ Unmarked(r).dir = r.dir
  BY DEF Unmarked, TaskletType
<1>8. NoneKilled'
  BY <1>5, <1>7 DEF NoneKilled, Running
<1>9. ASSUME Meets(M) PROVE Keeps(M)
  <2>. DEFINE tk0 == [tk EXCEPT ![t] = r]
  <2>1. Yields(th, queue, tk0) /\ tk0[t] = r
    BY <1>6
  <2>. HIDE DEF tk0
  <2>2. phase[th] # "over"
    BY DEF Running
  <2>. QED
    BY <1>1, <1>3, <1>4, <1>5, <1>7, <1>8, <1>9, <2>1, <2>2, YieldStep
<1>. QED
  BY <1>3, <1>9

--------------------------------------------------------------------------------
(* Steps that leave the channels alone. *)

LEMMA ScheduleKeeps ==
    ASSUME NEW M, IInv(M), NEW t \in Tasklets, Schedule(t)
    PROVE  Keeps(M)
<1>. DEFINE r == [tk[t] EXCEPT !.again = t \notin Threads]
<1>1. Running(t)
  BY InPythonRuns DEF Schedule, Calls
<1>2. PICK th \in Threads : th = Home[t]
  BY Homes
<1>3. tk[t] \in TaskletType(M) /\ Sane(tk[t]) /\ tk = [u \in Tasklets |-> tk[u]]
  BY DEF IInv, Meeting, TypeOK, TaskletsType, AllSane
<1>4. /\ r \in TaskletType(M) /\ Unmarked(r) = tk[t] /\ (r.again <=> t \notin Threads)
      /\ r.alive = tk[t].alive /\ r.blocked = tk[t].blocked /\ r.dir = tk[t].dir
  BY <1>3 DEF TaskletType, Unmarked, Sane
<1>5. Marked(tk, t) = [tk EXCEPT ![t] = r]
  BY <1>3 DEF Marked
<1>6. Yields(th, queue, [tk EXCEPT ![t] = r]) /\ ch' = ch
  BY <1>2, <1>5, Zenon DEF Schedule
<1>. HIDE DEF r
<1>7. Becomes(M, t, tk[t]) /\ (Meets(M) => Keeps(M))
  BY <1>1, <1>2, <1>3, <1>4, <1>6, YieldOneStep DEF Running
<1>8. Meets(M)
  BY <1>6, <1>7, SameChannels DEF Becomes, IInv
<1>. QED
  BY <1>7, <1>8

LEMMA EndsKeeps ==
    ASSUME NEW M, IInv(M), NEW t \in Tasklets, Ends(t)
    PROVE  Keeps(M)
<1>. DEFINE r == [tk[t] EXCEPT !.at = "done", !.exc = FALSE, !.alive = @ /\ tk[t].transfer]
<1>1. Running(t)
  BY InPythonRuns DEF Ends
<1>2. PICK th \in Threads : th = Home[t]
  BY Homes
<1>3. tk[t] \in TaskletType(M) /\ Sane(tk[t]) /\ tk = [u \in Tasklets |-> tk[u]]
  BY DEF IInv, Meeting, TypeOK, TaskletsType, AllSane
<1>4. /\ r \in TaskletType(M) /\ Unmarked(r) = r /\ ~r.again /\ Sane(r)
      /\ r.at = "done" /\ r.dir = "NEITHER" /\ ~r.blocked
  BY <1>1, <1>3 DEF TaskletType, Unmarked, Sane, Running, Resting
<1>5. [tk EXCEPT ![t].at = "done", ![t].exc = FALSE, ![t].alive = @ /\ tk[t].transfer]
        = [tk EXCEPT ![t] = r]
  BY <1>3
<1>6. Yields(th, queue, [tk EXCEPT ![t] = r]) /\ ch' = ch
  BY <1>2, <1>5, Zenon DEF Ends
<1>. HIDE DEF r
<1>7. Becomes(M, t, r) /\ (Meets(M) => Keeps(M))
  BY <1>1, <1>2, <1>3, <1>4, <1>6, YieldOneStep
<1>8. Meets(M)
  BY <1>1, <1>4, <1>6, <1>7, SameChannels DEF Becomes, IInv, Running
<1>. QED
  BY <1>7, <1>8

(* Whoever is killed leaves no list, and is the next of its thread to run.  *)
LEMMA KilledKeeps ==
    ASSUME NEW M, IInv(M), NEW th \in Threads, Running(th), NEW t \in Tasklets \ Threads,
           Home[t] = th, tk[t].alive, Killed(th, t), ch' = ch
    PROVE  Keeps(M)
<1>. DEFINE x == [tk[t] EXCEPT !.blocked = FALSE, !.exc = TRUE, !.again = FALSE]
            q0 == [queue EXCEPT ![Home[t]] = <<t>> \o Unlinked(@, t)]
            tk0 == [tk EXCEPT ![t] = x]
<1>1. th \in Tasklets /\ Home[th] = th /\ th # t
  BY ThreadsAssumption
<1>2. tk[t] \in TaskletType(M) /\ Sane(tk[t]) /\ tk = [u \in Tasklets |-> tk[u]]
  BY DEF IInv, Meeting, TypeOK, TaskletsType, AllSane
<1>3. /\ x \in TaskletType(M) /\ Unmarked(x) = x /\ ~x.again /\ Sane(x)
      /\ x.alive /\ ~x.blocked /\ x.dir = tk[t].dir /\ x.on = tk[t].on
  BY <1>2 DEF TaskletType, Unmarked, Sane
<1>4. [tk EXCEPT ![t].blocked = FALSE, ![t].exc = TRUE, ![t].again = FALSE] = tk0
  BY <1>2
<1>5. Yields(th, q0, tk0)
  BY <1>4, Zenon DEF Killed
<1>6. cur[th] = th /\ TypeOK(M) /\ AllSane /\ Queues /\ Runnable /\ Meeting(M)
  BY <1>1 DEF Running, IInv, Meeting
<1>7. Joined(q0, t) /\ q0[th] # <<>> /\ Head(q0[th]) = t
  BY <1>6, JoinedFirst
<1>8. tk0[th] = tk[th] /\ ~tk[th].blocked
  BY <1>1, <1>2 DEF Running
<1>9. Becomes(M, t, Unmarked(x)) /\ phase' = phase /\ gil' = th
  <2>1. q0 \in QueuesType
    BY <1>7 DEF Joined
  <2>. HIDE DEF q0, x
  <2>. QED
    BY <1>3, <1>5, <1>6, <2>1, YieldsOne
<1>10. /\ queue' = q0 /\ cur' = cur /\ loop' = [loop EXCEPT ![th] = "on"]
  BY <1>5, <1>6, <1>8 DEF Yields
<1>. HIDE DEF q0, tk0, x
<1>11. /\ TypeOK(M)' /\ AllSane'
       /\ tk'[t] = x /\ \A u \in Tasklets \ {t} : tk'[u] = tk[u]
  BY <1>3, <1>9 DEF Becomes
<1>12. tk0[th].again = FALSE
  BY <1>1, <1>6, <1>8 DEF AllSane, Sane
<1>13. /\ Queues' /\ Runnable'
       /\ \A h \in Threads, u \in Tasklets :
             B!In(u, queue'[h]) => B!In(u, queue[h]) \/ h \in {th, Home[t]}
  BY ZenonT(30), <1>1, <1>3, <1>5, <1>6, <1>7, <1>11, YieldsKeeps
<1>14. \A u \in Tasklets : phase[Home[u]] = "over" =>
          /\ tk'[u].dir = tk[u].dir
          /\ B!In(u, queue'[Home[u]]) => B!In(u, queue[Home[u]])
  BY <1>1, <1>3, <1>11, <1>13, Homes DEF Running
<1>15. Ended'
  BY <1>9, <1>14, EndedKept DEF IInv
<1>16. Killing'
  <2>. SUFFICES ASSUME NEW u \in Tasklets, tk'[u].dir # "NEITHER", ~tk'[u].blocked
                PROVE  /\ gil' = Home[u]
                       /\ queue'[Home[u]] # <<>> /\ Head(queue'[Home[u]]) = u
                       /\ cur'[Home[u]] = u \/ (cur'[Home[u]] = Home[u] /\ loop'[Home[u]] = "on")
    BY DEF Killing
  <2>1. u = t
    BY <1>11 DEF Running, NoneKilled
  <2>2. loop'[th] = "on"
    BY <1>6, <1>10 DEF TypeOK
  <2>. QED
    BY <1>6, <1>7, <1>9, <1>10, <2>1, <2>2
<1>17. Meets(M)
  BY <1>3, <1>6, <1>11, SameChannels
<1>. QED
  BY <1>13, <1>15, <1>16, <1>17 DEF IInv, Meets, Keeps

LEMMA KillKeeps ==
    ASSUME NEW M, IInv(M), NEW th, NEW t \in Tasklets, Kill(th, t)
    PROVE  Keeps(M)
<1>1. th \in Threads /\ th \in Tasklets
  BY ThreadsAssumption DEF Kill
<1>. QED
  BY <1>1, InPythonRuns, KilledKeeps DEF Kill, Calls

LEMMA ClearKillsKeeps ==
    ASSUME NEW M, IInv(M), NEW th \in Threads, NEW t, ClearKills(th, t)
    PROVE  Keeps(M)
<1>1. th \in Tasklets
  BY ThreadsAssumption
<1>2. Running(th) /\ t \in Tasklets \ Threads /\ Home[t] = th /\ tk[t].alive
  BY <1>1, InPythonRuns DEF ClearKills, Clearing, Left
<1>. QED
  BY <1>2, KilledKeeps DEF ClearKills

LEMMA GoesOnBecomes ==
    ASSUME NEW M, TypeOK(M), AllSane, GoesOn, NEW t \in Tasklets,
           NEW r \in TaskletType(M), Sane(r), tk' = [tk EXCEPT ![t] = r]
    PROVE  Becomes(M, t, r)
<1>1. /\ tk' \in TaskletsType(M) /\ AllSane'
      /\ tk'[t] = r /\ \A u \in Tasklets \ {t} : tk'[u] = tk[u]
  BY OneTasklet
<1>2. /\ queue' = queue /\ cur' = cur /\ loop' = loop /\ phase' = phase /\ gil' = NULL
  BY DEF GoesOn
<1>. QED
  BY <1>1, <1>2 DEF Becomes, TypeOK

(* The running t becomes r and goes on. *)
LEMMA RunsOn ==
    ASSUME NEW M, IInv(M), GoesOn, NEW t \in Tasklets, Running(t),
           NEW r \in TaskletType(M), Sane(r), tk' = [tk EXCEPT ![t] = r],
           r.alive, ~r.blocked, r.dir = "NEITHER"
    PROVE  Becomes(M, t, r) /\ (Meets(M) => Keeps(M))
<1>1. Becomes(M, t, r)
  BY GoesOnBecomes DEF IInv, Meeting
<1>2. tk'[t] = r /\ \A u \in Tasklets \ {t} : tk'[u] = tk[u]
  BY <1>1 DEF Becomes
<1>3. NoneKilled'
  BY <1>2 DEF NoneKilled, Running
<1>. QED
  BY <1>1, <1>2, <1>3, GoesOnStep DEF Running

LEMMA CatchKeeps ==
    ASSUME NEW M, IInv(M), NEW t \in Tasklets, Catch(t)
    PROVE  Keeps(M)
<1>. DEFINE r == [tk[t] EXCEPT !.exc = FALSE]
<1>1. Running(t) /\ GoesOn /\ ch' = ch
  BY InPythonRuns DEF Catch
<1>2. tk[t] \in TaskletType(M) /\ Sane(tk[t]) /\ tk = [u \in Tasklets |-> tk[u]]
  BY DEF IInv, Meeting, TypeOK, TaskletsType, AllSane
<1>3. /\ r \in TaskletType(M) /\ Sane(r)
      /\ r.alive /\ ~r.blocked /\ r.dir = "NEITHER"
  BY <1>1, <1>2 DEF TaskletType, Sane, Running
<1>4. tk' = [tk EXCEPT ![t] = r]
  BY <1>2 DEF Catch
<1>. HIDE DEF r
<1>5. Becomes(M, t, r) /\ (Meets(M) => Keeps(M))
  BY <1>1, <1>3, <1>4, RunsOn
<1>6. Meets(M)
  BY <1>1, <1>3, <1>5, SameChannels DEF Becomes, IInv, Running
<1>. QED
  BY <1>5, <1>6

(* A call that a closed channel refuses. *)
LEMMA RefusedKeeps ==
    ASSUME NEW M, IInv(M), NEW t \in Tasklets, InPython(t),
           NEW c, SendRefused(t, c) \/ ReceiveRefused(t, c)
    PROVE  Keeps(M)
<1>1. Running(t) /\ GoesOn /\ ch' = ch
  BY InPythonRuns DEF SendRefused, ReceiveRefused
<1>2. tk[t] \in TaskletType(M) /\ Sane(tk[t]) /\ tk = [u \in Tasklets |-> tk[u]]
  BY DEF IInv, Meeting, TypeOK, TaskletsType, AllSane
<1>3. PICK b \in BOOLEAN : tk' = [tk EXCEPT ![t] = [tk[t] EXCEPT !.transfer = b]]
  BY <1>2 DEF SendRefused, ReceiveRefused
<1>. DEFINE r == [tk[t] EXCEPT !.transfer = b]
<1>4. /\ r \in TaskletType(M) /\ Sane(r)
      /\ r.alive /\ ~r.blocked /\ r.dir = "NEITHER"
  BY <1>1, <1>2 DEF TaskletType, Sane, Running
<1>5. tk' = [tk EXCEPT ![t] = r]
  BY <1>3
<1>. HIDE DEF r
<1>6. Becomes(M, t, r) /\ (Meets(M) => Keeps(M))
  BY <1>1, <1>4, <1>5, RunsOn
<1>7. Meets(M)
  BY <1>1, <1>4, <1>6, SameChannels DEF Becomes, IInv, Running
<1>. QED
  BY <1>6, <1>7

LEMMA SetupKeeps ==
    ASSUME NEW M, IInv(M), NEW t \in Tasklets, NEW u \in Tasklets, Setup(t, u)
    PROVE  Keeps(M)
<1>. DEFINE r == [tk[u] EXCEPT !.at = "new", !.alive = TRUE]
<1>1. /\ Running(t) /\ tk[u].at = "unborn" /\ Home[u] = Home[t]
      /\ queue' = Inserted(u) /\ cur' = cur /\ loop' = loop /\ phase' = phase /\ gil' = NULL
      /\ ch' = ch
  BY InPythonRuns DEF Setup, Calls
<1>2. tk[u] \in TaskletType(M) /\ Sane(tk[u]) /\ tk = [w \in Tasklets |-> tk[w]]
  BY DEF IInv, Meeting, TypeOK, TaskletsType, AllSane
<1>3. /\ r \in TaskletType(M) /\ Sane(r)
      /\ r.alive /\ ~r.blocked /\ r.dir = "NEITHER" /\ tk[u].dir = "NEITHER"
  BY <1>1, <1>2 DEF TaskletType, Sane, Direction, Resting
<1>4. tk' = [tk EXCEPT ![u] = r]
  BY <1>2 DEF Setup
<1>. HIDE DEF r
<1>5. Meeting(M) /\ TypeOK(M) /\ AllSane /\ Queues
  BY DEF IInv, Meeting
<1>6. /\ tk' \in TaskletsType(M) /\ AllSane'
      /\ tk'[u] = r /\ \A w \in Tasklets \ {u} : tk'[w] = tk[w]
  BY <1>3, <1>4, <1>5, OneTasklet
<1>7. Joined(queue', u)
  BY <1>1, <1>5, JoinedLast
<1>8. TypeOK(M)'
  BY <1>1, <1>5, <1>6, <1>7 DEF TypeOK, Joined
<1>9. Meets(M)
  BY <1>1, <1>3, <1>5, <1>6, <1>8, SameChannels
<1>10. NoneKilled'
  BY <1>1, <1>3, <1>6 DEF NoneKilled, Running
<1>11. u # t
  BY <1>1 DEF Running
<1>. QED
  BY <1>1, <1>3, <1>6, <1>7, <1>9, <1>10, <1>11, StayStep DEF Running

--------------------------------------------------------------------------------
(* The loop of Run, and the end of a thread. *)

(* The front of the queue. *)
LEMMA FrontOfQueue ==
    ASSUME NEW M, IInv(M), NEW th \in Threads, queue[th] # <<>>
    PROVE  /\ Head(queue[th]) \in Tasklets \ Threads /\ Home[Head(queue[th])] = th
           /\ tk[Head(queue[th])].alive /\ ~tk[Head(queue[th])].blocked
           /\ Tail(queue[th]) \in Seq(Tasklets \ Threads) /\ B!Once(Tail(queue[th]))
           /\ \A u : B!In(u, Tail(queue[th])) <=> B!In(u, queue[th]) /\ u # Head(queue[th])
<1>1. queue[th] \in Seq(Tasklets \ Threads) /\ B!Once(queue[th])
  BY DEF IInv, Meeting, TypeOK, QueuesType, Queues
<1>2. /\ Tail(queue[th]) \in Seq(Tasklets \ Threads) /\ B!Once(Tail(queue[th]))
      /\ Head(queue[th]) \in Tasklets \ Threads
      /\ \A u : B!In(u, Tail(queue[th])) <=> B!In(u, queue[th]) /\ u # Head(queue[th])
  BY <1>1, TailKeeps
<1>3. B!In(Head(queue[th]), queue[th])
  BY <1>1 DEF B!In
<1>. QED
  BY <1>2, <1>3 DEF IInv, Queues

LEMMA LoopSkipsKeeps ==
    ASSUME NEW M, IInv(M), NEW th \in Threads, LoopSkips(th)
    PROVE  Keeps(M)
<1>. DEFINE t == Head(queue[th])
            q == Tail(queue[th])
            r == [tk[t] EXCEPT !.exc = FALSE, !.at = "done", !.alive = @ /\ tk[t].at = "done"]
<1>1. /\ LoopRuns(th) /\ queue[th] # <<>>
      /\ tk[t].at \in {"done", "new"}
      /\ queue' = [queue EXCEPT ![th] = q]
      /\ gil' = th /\ cur' = cur /\ loop' = loop /\ phase' = phase /\ ch' = ch
  BY DEF LoopSkips
<1>2. /\ t \in Tasklets \ Threads /\ Home[t] = th
      /\ tk[t].alive /\ ~tk[t].blocked
      /\ q \in Seq(Tasklets \ Threads) /\ B!Once(q)
      /\ \A u : B!In(u, q) <=> B!In(u, queue[th]) /\ u # t
  BY <1>1, FrontOfQueue
<1>3. tk[t] \in TaskletType(M) /\ Sane(tk[t]) /\ tk = [u \in Tasklets |-> tk[u]]
  BY <1>2 DEF IInv, Meeting, TypeOK, TaskletsType, AllSane
<1>4. tk' = [tk EXCEPT ![t] = r]
  BY <1>3 DEF LoopSkips
<1>. HIDE DEF t, q
<1>5. /\ r \in TaskletType(M) /\ Sane(r)
      /\ r.at = "done" /\ r.dir = tk[t].dir /\ r.dir = "NEITHER" /\ ~r.blocked
  BY <1>1, <1>2, <1>3 DEF TaskletType, Sane, Direction, Resting
<1>. HIDE DEF r
<1>6. Meeting(M) /\ TypeOK(M) /\ AllSane /\ Queues /\ Runnable /\ Ended
  BY DEF IInv, Meeting
<1>7. /\ tk' \in TaskletsType(M) /\ AllSane'
      /\ tk'[t] = r /\ \A u \in Tasklets \ {t} : tk'[u] = tk[u]
  BY <1>2, <1>4, <1>5, <1>6, OneTasklet
<1>8. /\ queue' \in QueuesType
      /\ queue'[th] = q /\ \A h \in Threads \ {th} : queue'[h] = queue[h]
  BY <1>1, <1>2, <1>6 DEF TypeOK, QueuesType
<1>9. TypeOK(M)'
  BY <1>1, <1>6, <1>7, <1>8 DEF TypeOK
<1>10. Meets(M)
  BY <1>1, <1>2, <1>5, <1>6, <1>7, <1>9, SameChannels
<1>11. cur[th] = th /\ phase[th] # "over" /\ NoneKilled
  <2>1. \A u \in Tasklets : tk[u].dir # "NEITHER" /\ ~tk[u].blocked => u = t
    BY <1>1, LoopingFacts DEF t
  <2>2. cur[th] = th /\ phase[th] # "over"
    BY <1>1, LoopingFacts
  <2>. QED
    BY <1>5, <2>1, <2>2 DEF NoneKilled
<1>12. Queues'
  <2>. SUFFICES ASSUME NEW h \in Threads
                PROVE  /\ B!Once(queue'[h])
                       /\ \A u \in Tasklets : B!In(u, queue'[h]) =>
                             Home[u] = h /\ tk'[u].alive /\ ~tk'[u].blocked
                       /\ cur'[h] # h => queue'[h] # <<>> /\ Head(queue'[h]) = cur'[h]
    BY Zenon DEF Queues
  <2>1. CASE h = th
    BY <1>1, <1>2, <1>6, <1>7, <1>8, <1>11, <2>1 DEF Queues
  <2>2. CASE h # th
    BY <1>1, <1>2, <1>6, <1>7, <1>8, <2>2 DEF Queues
  <2>. QED
    BY <2>1, <2>2
<1>13. Runnable'
  <2>. SUFFICES ASSUME NEW u \in Tasklets \ Threads,
                       tk'[u].alive, tk'[u].at # "done", ~tk'[u].blocked
                PROVE  B!In(u, queue'[Home[u]])
    BY DEF Runnable
  <2>1. u # t /\ Home[u] \in Threads
    BY <1>5, <1>7, Homes
  <2>2. B!In(u, queue[Home[u]])
    BY <1>6, <1>7, <2>1 DEF Runnable
  <2>. QED
    BY <1>2, <1>8, <2>1, <2>2
<1>14. Killing'
  BY <1>5, <1>7, <1>11 DEF Killing, NoneKilled
<1>15. Ended'
  <2>1. \A u \in Tasklets : phase[Home[u]] = "over" =>
           /\ tk'[u].dir = tk[u].dir
           /\ B!In(u, queue'[Home[u]]) => B!In(u, queue[Home[u]])
    BY <1>2, <1>7, <1>8, <1>11, Homes
  <2>. QED
    BY <1>1, <1>6, <2>1, EndedKept
<1>. QED
  BY <1>10, <1>12, <1>13, <1>14, <1>15 DEF IInv, Meets, Keeps

LEMMA LoopSwitchesKeeps ==
    ASSUME NEW M, IInv(M), NEW th \in Threads, LoopSwitches(th)
    PROVE  Keeps(M)
<1>. DEFINE t == Head(queue[th])
            r == [tk[t] EXCEPT !.at = IF @ = "new" THEN "code" ELSE @]
<1>1. /\ LoopRuns(th) /\ queue[th] # <<>> /\ tk[t].at # "done"
      /\ cur' = [cur EXCEPT ![th] = t]
      /\ gil' = IF tk[t].at \in {"new", "code"} THEN NULL ELSE th
      /\ queue' = queue /\ loop' = loop /\ phase' = phase /\ ch' = ch
  BY DEF LoopSwitches
<1>2. /\ t \in Tasklets \ Threads /\ Home[t] = th
      /\ tk[t].alive /\ ~tk[t].blocked
  BY <1>1, FrontOfQueue
<1>3. tk[t] \in TaskletType(M) /\ Sane(tk[t]) /\ tk = [u \in Tasklets |-> tk[u]]
  BY <1>2 DEF IInv, Meeting, TypeOK, TaskletsType, AllSane
<1>4. tk' = [tk EXCEPT ![t] = r]
  BY <1>3 DEF LoopSwitches
<1>5. queue[th] # <<>> /\ Head(queue[th]) = t
  BY <1>1
<1>. HIDE DEF t
<1>6. /\ r \in TaskletType(M) /\ Sane(r) /\ r.at # "done"
      /\ r.dir = tk[t].dir /\ r.on = tk[t].on /\ r.alive = tk[t].alive /\ r.blocked = tk[t].blocked
  BY <1>1, <1>2, <1>3 DEF TaskletType, Sane, Direction, Resting
<1>. HIDE DEF r
<1>7. Meeting(M) /\ TypeOK(M) /\ AllSane /\ Queues /\ Runnable /\ Ended
  BY DEF IInv, Meeting
<1>8. /\ tk' \in TaskletsType(M) /\ AllSane'
      /\ tk'[t] = r /\ \A u \in Tasklets \ {t} : tk'[u] = tk[u]
  BY <1>2, <1>4, <1>6, <1>7, OneTasklet
<1>9. /\ cur' \in [Threads -> Tasklets]
      /\ cur'[th] = t /\ \A h \in Threads \ {th} : cur'[h] = cur[h]
  BY <1>1, <1>2, <1>7 DEF TypeOK
<1>10. TypeOK(M)'
  BY <1>1, <1>7, <1>8, <1>9 DEF TypeOK
<1>11. \A u \in Tasklets : /\ tk'[u].dir = tk[u].dir /\ tk'[u].on = tk[u].on
                           /\ tk'[u].alive = tk[u].alive /\ tk'[u].blocked = tk[u].blocked
                           /\ tk'[u].at # "done" => tk[u].at # "done"
  BY <1>1, <1>2, <1>6, <1>8
<1>12. Meets(M)
  BY <1>1, <1>7, <1>8, <1>10, <1>11, SameChannels
<1>13. Queues'
  <2>. SUFFICES ASSUME NEW h \in Threads
                PROVE  /\ B!Once(queue'[h])
                       /\ \A u \in Tasklets : B!In(u, queue'[h]) =>
                             Home[u] = h /\ tk'[u].alive /\ ~tk'[u].blocked
                       /\ cur'[h] # h => queue'[h] # <<>> /\ Head(queue'[h]) = cur'[h]
    BY Zenon DEF Queues
  <2>. QED
    BY <1>1, <1>5, <1>7, <1>9, <1>11 DEF Queues
<1>14. Runnable'
  BY <1>1, <1>7, <1>11 DEF Runnable
<1>15. Killing'
  <2>. SUFFICES ASSUME NEW u \in Tasklets, tk'[u].dir # "NEITHER", ~tk'[u].blocked
                PROVE  /\ gil' = Home[u]
                       /\ queue'[Home[u]] # <<>> /\ Head(queue'[Home[u]]) = u
                       /\ cur'[Home[u]] = u \/ (cur'[Home[u]] = Home[u] /\ loop'[Home[u]] = "on")
    BY DEF Killing
  <2>1. Home[u] = th /\ u = t
    BY <1>1, <1>5, <1>11, LoopingFacts
  <2>2. tk[t].at \notin {"new", "code"}
    BY <1>3, <1>11, <2>1 DEF Sane, TaskletType, Direction
  <2>. QED
    BY <1>1, <1>5, <1>9, <2>1, <2>2
<1>16. Ended'
  BY <1>1, <1>7, <1>11 DEF Ended
<1>. QED
  BY <1>12, <1>13, <1>14, <1>15, <1>16 DEF IInv, Meets, Keeps

(* Only the thread goes on, or it comes to another phase. *)
LEMMA ThreadGoesOn ==
    ASSUME NEW M, IInv(M), NEW th \in Threads,
           loop' \in {loop, [loop EXCEPT ![th] = "off"]},
           phase' \in {phase, [phase EXCEPT ![th] = "ending"], [phase EXCEPT ![th] = "over"]},
           gil' \in Threads \cup {NULL}, queue' = queue, cur' = cur, tk' = tk, ch' = ch,
           NoneKilled, Ended'
    PROVE  Keeps(M)
<1>1. TypeOK(M)'
  BY DEF IInv, Meeting, TypeOK
<1>2. Meets(M)
  BY <1>1, SameChannels DEF IInv, Meeting, AllSane
<1>3. Queues' /\ Runnable' /\ Killing'
  BY DEF IInv, Queues, Runnable, Killing, NoneKilled
<1>. QED
  BY <1>2, <1>3 DEF IInv, Meets, Keeps

LEMMA LoopEndsKeeps ==
    ASSUME NEW M, IInv(M), NEW th \in Threads, LoopEnds(th)
    PROVE  Keeps(M)
<1>1. /\ LoopRuns(th)
      /\ queue[th] = <<>> \/ loop[th] = "last"
      /\ loop' = [loop EXCEPT ![th] = "off"] /\ gil' \in {NULL, th}
      /\ queue' = queue /\ cur' = cur /\ phase' = phase /\ tk' = tk /\ ch' = ch
  BY DEF LoopEnds
<1>2. NoneKilled
  BY <1>1, LoopingFacts DEF NoneKilled
<1>3. Ended'
  BY <1>1 DEF IInv, Ended
<1>. QED
  BY <1>1, <1>2, <1>3, ThreadGoesOn

LEMMA EndThreadKeeps ==
    ASSUME NEW M, IInv(M), NEW th \in Threads, EndThread(th)
    PROVE  Keeps(M)
<1>1. /\ Running(th) /\ phase' = [phase EXCEPT ![th] = "ending"] /\ gil' = th
      /\ queue' = queue /\ cur' = cur /\ loop' = loop /\ tk' = tk /\ ch' = ch
  BY InPythonRuns, ThreadsAssumption DEF EndThread, Calls
<1>2. Ended'
  BY <1>1, Homes DEF IInv, Meeting, TypeOK, Ended
<1>. QED
  BY <1>1, <1>2, ThreadGoesOn DEF Running

LEMMA ClearEndsKeeps ==
    ASSUME NEW M, IInv(M), NEW th \in Threads, ClearEnds(th)
    PROVE  Keeps(M)
<1>1. /\ Running(th) /\ phase' = [phase EXCEPT ![th] = "over"] /\ gil' = NULL
      /\ queue' = queue /\ cur' = cur /\ loop' = loop /\ tk' = tk /\ ch' = ch
      /\ Left(th) = {}
  BY InPythonRuns, ThreadsAssumption DEF ClearEnds, Clearing
<1>2. Ended'
  <2>. SUFFICES ASSUME NEW u \in Tasklets, phase'[Home[u]] = "over"
                PROVE  tk[u].dir = "NEITHER" /\ ~B!In(u, queue[Home[u]])
    BY <1>1 DEF Ended
  <2>1. CASE Home[u] # th
    BY <1>1, <2>1, Homes DEF IInv, Meeting, TypeOK, Ended
  <2>2. CASE Home[u] = th /\ u \in Threads
    <3>1. u = th
      BY <2>2, Homes
    <3>2. \A s \in Seq(Tasklets \ Threads) : ~B!In(u, s)
      BY <2>2 DEF B!In
    <3>. QED
      BY <1>1, <2>2, <3>1, <3>2 DEF Running, IInv, Meeting, TypeOK, QueuesType
  <2>3. CASE Home[u] = th /\ u \notin Threads
    <3>1. ~tk[u].alive
      BY <1>1, <2>3 DEF Left
    <3>2. ~B!In(u, queue[Home[u]])
      BY <2>3, <3>1 DEF IInv, Queues
    <3>3. tk[u] \in TaskletType(M) /\ Sane(tk[u])
      BY DEF IInv, Meeting, TypeOK, TaskletsType, AllSane
    <3>. QED
      BY <3>1, <3>2, <3>3 DEF Sane, TaskletType, Direction
  <2>. QED
    BY <2>1, <2>2, <2>3
<1>. QED
  BY <1>1, <1>2, ThreadGoesOn DEF Running

--------------------------------------------------------------------------------
(* Steps that change a channel. *)

LEMMA UpdateSettles ==
    ASSUME NEW b, B!Orderly(b)
    PROVE  UpdateCloseState(b) = B!Settled(b)
BY SameOps, B!ClosedByBalance

(* t begins to wait on the open channel c. *)
LEMMA WaitsBook ==
    ASSUME NEW M, Meeting(M), TypeOK(M)', AllSane',
           NEW c \in Channels, NEW t \in Tasklets, tk[t].dir = "NEITHER", ~Closed(c),
           \/ /\ ch[c].recv = <<>> /\ tk'[t].dir = "SENDER"
              /\ ch' = [ch EXCEPT ![c] = UpdateCloseState(AddTaskletToWaitingToSend(ch[c], t))]
           \/ /\ ch[c].send = <<>> /\ tk'[t].dir = "RECEIVER"
              /\ ch' = [ch EXCEPT ![c] = UpdateCloseState(AddTaskletToWaitingToReceive(ch[c], t))],
           tk'[t].on = c, \A u \in Tasklets \ {t} : tk'[u] = tk[u]
    PROVE  Meets(M)
<1>1. B!Orderly(ch[c]) /\ ch[c] \in B!ChannelType(Tasklets) /\ ~ch[c].closed /\ ~ch[c].closing
  BY ChannelFacts DEF Meeting, B!Orderly, Closed
<1>2. \A d \in Channels : ~B!Listed(d, t)
  BY DEF Meeting, Places, B!Listed
<1>3. /\ ch[c].recv = <<>> => B!Orderly(AddTaskletToWaitingToSend(ch[c], t))
      /\ ch[c].send = <<>> => B!Orderly(AddTaskletToWaitingToReceive(ch[c], t))
  <2>1. ~B!Waits(t, ch[c])
    BY <1>2 DEF B!Listed, B!Waits
  <2>. QED
    BY <1>1, <2>1, SameOps, B!AddedOrderly
<1>4. \A b : B!Orderly(b) /\ ~b.closing /\ ~b.closed => UpdateCloseState(b) = b
  BY DEF UpdateCloseState, B!Orderly, B!ChannelType
<1>5. /\ ~AddTaskletToWaitingToSend(ch[c], t).closing
      /\ ~AddTaskletToWaitingToSend(ch[c], t).closed
      /\ ~AddTaskletToWaitingToReceive(ch[c], t).closing
      /\ ~AddTaskletToWaitingToReceive(ch[c], t).closed
  BY <1>1 DEF AddTaskletToWaitingToSend, AddTaskletToWaitingToReceive, B!ChannelType
<1>6. \/ /\ ch[c].recv = <<>> /\ tk'[t].dir = "SENDER"
         /\ ch' = [ch EXCEPT ![c] = AddTaskletToWaitingToSend(ch[c], t)]
      \/ /\ ch[c].send = <<>> /\ tk'[t].dir = "RECEIVER"
         /\ ch' = [ch EXCEPT ![c] = AddTaskletToWaitingToReceive(ch[c], t)]
  BY <1>3, <1>4, <1>5
<1>7. Places'
  <2>1. \A u \in Tasklets \ {t} : /\ tk'[u].dir = tk[u].dir
                                  /\ tk[u].dir # "NEITHER" => tk'[u].on = tk[u].on
    OBVIOUS
  <2>2. \/ /\ ch' = [ch EXCEPT ![c] = AddTaskletToWaitingToSend(@, t)]
           /\ tk'[t].dir = "SENDER"
        \/ /\ ch' = [ch EXCEPT ![c] = AddTaskletToWaitingToReceive(@, t)]
           /\ tk'[t].dir = "RECEIVER"
    BY <1>6
  <2>. QED
    BY <2>1, <2>2, PlacesMore DEF Meeting
<1>8. B!WaitToSend(c, t) \/ B!WaitToReceive(c, t)
  BY <1>1, <1>2, <1>6, SameOps DEF B!WaitToSend, B!WaitToReceive, B!IsOpen
<1>9. B!Next
  BY <1>8 DEF B!Next
<1>. QED
  BY <1>7, <1>9, MeetingKept

(* t, which waits on c, leaves it. *)
LEMMA LeavesBook ==
    ASSUME NEW M, Meeting(M), TypeOK(M)', AllSane',
           NEW c \in Channels, NEW t \in Tasklets, tk[t].dir # "NEITHER", tk[t].on = c,
           ch' = [ch EXCEPT ![c] = Without(c, t)], tk'[t].dir = "NEITHER",
           \A u \in Tasklets \ {t} : /\ tk'[u].dir = tk[u].dir
                                     /\ tk[u].dir # "NEITHER" => tk'[u].on = tk[u].on
    PROVE  Meets(M)
<1>1. tk[t].dir \in Direction
  BY DEF Meeting, TypeOK, TaskletsType, TaskletType
<1>2. B!Waits(t, ch[c]) /\ Without(c, t) = B!Settled(B!Left(ch[c], t))
  BY <1>1, WithoutOne DEF Meeting
<1>3. ch' = [ch EXCEPT ![c] = B!Settled(B!Left(ch[c], t))]
  BY <1>2
<1>4. Places'
  BY <1>3, PlacesLess DEF Meeting
<1>5. B!Leave(c, t)
  BY <1>2, <1>3 DEF B!Leave, B!Listed, B!Waits
<1>6. B!Next
  BY <1>5 DEF B!Next
<1>. QED
  BY <1>4, <1>6, MeetingKept

(* It is looked whether c is drained. *)
LEMMA SettlesBook ==
    ASSUME NEW M, Meeting(M), TypeOK(M)', AllSane', NEW c \in Channels,
           ch' = [ch EXCEPT ![c] = B!Settled(ch[c])],
           \A u \in Tasklets : /\ tk'[u].dir = tk[u].dir
                               /\ tk[u].dir # "NEITHER" => tk'[u].on = tk[u].on
    PROVE  Meets(M)
<1>1. \A d \in Channels : ch'[d].send = ch[d].send /\ ch'[d].recv = ch[d].recv
  BY SettledLists DEF Meeting
<1>2. Places'
  BY <1>1, PlacesStay DEF Meeting
<1>3. B!Next
  BY DEF B!Next, B!Settle
<1>. QED
  BY <1>2, <1>3, MeetingKept

(* The call of t is over, and t has left its channel. *)
LEMMA ReturnsKeep ==
    ASSUME NEW M, IInv(M), NEW t \in Tasklets, Resuming(t), GoesOn,
           NEW r \in TaskletType(M), Sane(r), r.dir = "NEITHER", r.alive, ~r.blocked,
           tk' = [tk EXCEPT ![t] = r],
           NEW c \in Channels, c = tk[t].on,
           \/ ch' = ch /\ tk[t].dir = "NEITHER"
           \/ ch' = [ch EXCEPT ![c] = UpdateCloseState(ch[c])] /\ tk[t].dir = "NEITHER"
           \/ ch' = [ch EXCEPT ![c] = Without(c, t)]
    PROVE  Keeps(M)
<1>1. Becomes(M, t, r)
  BY GoesOnBecomes DEF IInv, Meeting
<1>2. /\ TypeOK(M)' /\ AllSane'
      /\ tk'[t] = r /\ \A u \in Tasklets \ {t} : tk'[u] = tk[u]
  BY <1>1 DEF Becomes
<1>3. Meets(M)
  <2>1. CASE tk[t].dir # "NEITHER"
    BY <1>2, <2>1, LeavesBook DEF IInv
  <2>2. CASE tk[t].dir = "NEITHER" /\ ch' = ch
    BY <1>2, <2>2, SameChannels DEF IInv
  <2>3. CASE tk[t].dir = "NEITHER" /\ ch' # ch
    <3>1. Without(c, t) = B!Settled(ch[c])
      BY <2>3, WithoutOne DEF IInv, Meeting, Direction
    <3>2. UpdateCloseState(ch[c]) = B!Settled(ch[c])
      BY UpdateSettles, ChannelFacts DEF IInv, Meeting
    <3>3. ch' = [ch EXCEPT ![c] = B!Settled(ch[c])]
      BY <2>3, <3>1, <3>2
    <3>. QED
      BY ZenonT(30), <1>2, <2>3, <3>3, SettlesBook DEF IInv
  <2>. QED
    BY <2>1, <2>2, <2>3
<1>4. NoneKilled'
  BY <1>2 DEF NoneKilled, Resuming
<1>. QED
  BY <1>2, <1>3, <1>4, GoesOnStep DEF Resuming

LEMMA SendReturnsKeeps ==
    ASSUME NEW M, IInv(M), NEW t \in Tasklets, SendReturns(t)
    PROVE  Keeps(M)
<1>. DEFINE r == [Back(t) EXCEPT !.transfer = FALSE, !.dir = "NEITHER", !.args = NULL]
            c == tk[t].on
<1>1. Resuming(t) /\ GoesOn
  BY ResumesRuns DEF SendReturns, Resumes, Resting
<1>2. tk[t] \in TaskletType(M) /\ Sane(tk[t])
  BY DEF IInv, Meeting, TypeOK, TaskletsType, AllSane
<1>3. r \in TaskletType(M) /\ Sane(r) /\ r.dir = "NEITHER" /\ r.alive /\ ~r.blocked
  BY <1>1, <1>2 DEF Resuming, Back, TaskletType, Sane, Direction, Resting
<1>4. ~Fails(t) => tk[t].dir = "NEITHER"
  BY <1>2 DEF Fails, Sane
<1>5. tk' = [tk EXCEPT ![t] = r] /\ c \in Channels
  BY <1>1 DEF SendReturns, Resuming
<1>6. \/ ch' = [ch EXCEPT ![c] = Without(c, t)]
      \/ ~Fails(t) /\ ch' = [ch EXCEPT ![c] = UpdateCloseState(ch[c])]
  BY DEF SendReturns
<1>. HIDE DEF r
<1>. QED
  BY <1>1, <1>3, <1>4, <1>5, <1>6, ReturnsKeep

LEMMA SendDeliveredReturnsKeeps ==
    ASSUME NEW M, IInv(M), NEW t \in Tasklets, SendDeliveredReturns(t)
    PROVE  Keeps(M)
<1>. DEFINE r == [Back(t) EXCEPT !.transfer = tk[t].exc]
            c == tk[t].on
<1>1. Resuming(t) /\ GoesOn /\ tk[t].at = "Send.delivered"
  BY ResumesRuns DEF SendDeliveredReturns, Resumes, Resting
<1>2. tk[t] \in TaskletType(M) /\ Sane(tk[t])
  BY DEF IInv, Meeting, TypeOK, TaskletsType, AllSane
<1>3. tk[t].dir = "NEITHER"
  BY <1>1, <1>2 DEF Sane, TaskletType, Direction
<1>4. r \in TaskletType(M) /\ Sane(r) /\ r.dir = "NEITHER" /\ r.alive /\ ~r.blocked
  BY <1>1, <1>2, <1>3 DEF Resuming, Back, TaskletType, Sane, Direction, Resting
<1>5. tk' = [tk EXCEPT ![t] = r] /\ c \in Channels
  BY <1>1 DEF SendDeliveredReturns, Resuming
<1>6. ch' = [ch EXCEPT ![c] = UpdateCloseState(ch[c])]
  BY DEF SendDeliveredReturns
<1>. HIDE DEF r
<1>. QED
  BY <1>1, <1>3, <1>4, <1>5, <1>6, ReturnsKeep

LEMMA ReceiveReturnsKeeps ==
    ASSUME NEW M, IInv(M), NEW t \in Tasklets, ReceiveReturns(t)
    PROVE  Keeps(M)
<1>. DEFINE r == [Back(t) EXCEPT !.transfer = FALSE, !.dir = "NEITHER", !.args = NULL]
            c == tk[t].on
<1>1. Resuming(t) /\ GoesOn
  BY ResumesRuns DEF ReceiveReturns, Resumes, Resting
<1>2. tk[t] \in TaskletType(M) /\ Sane(tk[t])
  BY DEF IInv, Meeting, TypeOK, TaskletsType, AllSane
<1>3. r \in TaskletType(M) /\ Sane(r) /\ r.dir = "NEITHER" /\ r.alive /\ ~r.blocked
  BY <1>1, <1>2 DEF Resuming, Back, TaskletType, Sane, Direction, Resting
<1>4. ~Fails(t) => tk[t].dir = "NEITHER"
  BY <1>2 DEF Fails, Sane
<1>5. tk' = [tk EXCEPT ![t] = r] /\ c \in Channels
  BY <1>1 DEF ReceiveReturns, Resuming
<1>6. \/ ch' = [ch EXCEPT ![c] = Without(c, t)]
      \/ ~Fails(t) /\ ch' = ch
  BY DEF ReceiveReturns
<1>. HIDE DEF r
<1>. QED
  BY <1>1, <1>3, <1>4, <1>5, <1>6, ReturnsKeep

LEMMA ReceiveTakenReturnsKeeps ==
    ASSUME NEW M, IInv(M), NEW t \in Tasklets, ReceiveTakenReturns(t)
    PROVE  Keeps(M)
<1>. DEFINE r == IF Fails(t) THEN Back(t) ELSE [Back(t) EXCEPT !.transfer = FALSE, !.args = NULL]
            c == tk[t].on
<1>1. Resuming(t) /\ GoesOn /\ tk[t].at = "Receive.taken"
  BY ResumesRuns DEF ReceiveTakenReturns, Resumes, Resting
<1>2. tk[t] \in TaskletType(M) /\ Sane(tk[t])
  BY DEF IInv, Meeting, TypeOK, TaskletsType, AllSane
<1>3. tk[t].dir = "NEITHER"
  BY <1>1, <1>2 DEF Sane, TaskletType, Direction
<1>4. r \in TaskletType(M) /\ Sane(r) /\ r.dir = "NEITHER" /\ r.alive /\ ~r.blocked
  BY <1>1, <1>2, <1>3 DEF Resuming, Back, TaskletType, Sane, Direction, Resting
<1>5. tk' = [tk EXCEPT ![t] = r] /\ c \in Channels
  BY <1>1 DEF ReceiveTakenReturns, Resuming
<1>6. \/ ch' = [ch EXCEPT ![c] = UpdateCloseState(ch[c])]
      \/ ch' = ch
  BY DEF ReceiveTakenReturns
<1>. HIDE DEF r
<1>. QED
  BY <1>1, <1>3, <1>4, <1>5, <1>6, ReturnsKeep

(* Python code changes what the channel is. *)
LEMMA OwnerStep ==
    ASSUME NEW M, IInv(M), NEW t \in Tasklets, Running(t), GoesOn, tk' = tk, B!Next,
           \A c \in Channels : ch'[c].send = ch[c].send /\ ch'[c].recv = ch[c].recv
    PROVE  Keeps(M)
<1>1. TypeOK(M)' /\ AllSane'
  BY DEF IInv, Meeting, TypeOK, AllSane, GoesOn
<1>2. Places'
  BY PlacesStay DEF IInv, Meeting
<1>3. Meets(M)
  BY <1>1, <1>2, MeetingKept DEF IInv
<1>4. NoneKilled'
  BY DEF Running, NoneKilled
<1>. QED
  BY <1>3, <1>4, GoesOnStep DEF Running

LEMMA CloseKeeps ==
    ASSUME NEW M, IInv(M), NEW t \in Tasklets, NEW c \in Channels, Close(t, c)
    PROVE  Keeps(M)
<1>. DEFINE b == [ch[c] EXCEPT !.closing = TRUE]
<1>1. Running(t) /\ GoesOn /\ tk' = tk /\ ch' = [ch EXCEPT ![c] = UpdateCloseState(b)]
  BY InPythonRuns DEF Close, Calls
<1>2. UpdateCloseState(b) = B!Settled(b)
  <2>1. B!Orderly(ch[c])
    BY ChannelFacts DEF IInv, Meeting
  <2>2. B!Orderly(b)
    BY <2>1 DEF B!Orderly, B!ChannelType
  <2>. QED
    BY <2>2, UpdateSettles
<1>3. ch' = [ch EXCEPT ![c] = B!Settled([ch[c] EXCEPT !.closing = TRUE])]
  BY <1>1, <1>2
<1>4. B!Next
  BY <1>3 DEF B!Next, B!Close
<1>5. \A d \in Channels : ch'[d].send = ch[d].send /\ ch'[d].recv = ch[d].recv
  BY <1>3, SettledLists DEF IInv, Meeting
<1>. QED
  BY <1>1, <1>4, <1>5, OwnerStep

LEMMA SetPreferenceKeeps ==
    ASSUME NEW M, IInv(M), NEW t \in Tasklets, NEW c \in Channels, NEW p \in Preferences,
           SetPreference(t, c, p)
    PROVE  Keeps(M)
<1>1. Running(t) /\ GoesOn /\ tk' = tk /\ ch' = [ch EXCEPT ![c].preference = p]
  BY InPythonRuns DEF SetPreference, Calls
<1>2. p \in B!Direction
  BY ThreadsAssumption, SameOps
<1>3. B!Next
  BY <1>1, <1>2 DEF B!Next, B!Prefer
<1>4. \A d \in Channels : ch'[d].send = ch[d].send /\ ch'[d].recv = ch[d].recv
  BY <1>1, SettledLists DEF IInv, Meeting
<1>. QED
  BY <1>1, <1>3, <1>4, OwnerStep

LEMMA BlocksKeeps ==
    ASSUME NEW M, IInv(M), NEW t \in Tasklets, InPython(t), NEW c \in Channels,
           (\E m \in M : SendBlocks(t, c, m)) \/ ReceiveBlocks(t, c)
    PROVE  Keeps(M)
<1>1. Running(t)
  BY InPythonRuns
<1>2. PICK th \in Threads : th = Home[t]
  BY Homes
<1>3. tk[t] \in TaskletType(M) /\ Sane(tk[t]) /\ tk = [u \in Tasklets |-> tk[u]]
  BY DEF IInv, Meeting, TypeOK, TaskletsType, AllSane
<1>4. PICK d \in {"SENDER", "RECEIVER"}, a \in {"Send", "Receive"}, m \in M \cup {NULL} :
         /\ a = "Send" <=> d = "SENDER"
         /\ d = "SENDER" =>
               /\ ch[c].recv = <<>>
               /\ ch' = [ch EXCEPT ![c] = UpdateCloseState(AddTaskletToWaitingToSend(ch[c], t))]
         /\ d = "RECEIVER" =>
               /\ ch[c].send = <<>>
               /\ ch' = [ch EXCEPT ![c] = UpdateCloseState(AddTaskletToWaitingToReceive(ch[c], t))]
         /\ ~Closed(c)
         /\ Yields(th, queue, [tk EXCEPT ![t] = [tk[t] EXCEPT !.at = a, !.on = c, !.dir = d,
                                           !.blocked = TRUE, !.transfer = TRUE, !.args = m]])
  <2>1. ASSUME NEW m \in M, SendBlocks(t, c, m)
        PROVE  /\ ch[c].recv = <<>>
               /\ ch' = [ch EXCEPT ![c] = UpdateCloseState(AddTaskletToWaitingToSend(ch[c], t))]
               /\ ~Closed(c)
               /\ Yields(th, queue, [tk EXCEPT ![t] = [tk[t] EXCEPT !.at = "Send", !.on = c,
                           !.dir = "SENDER", !.blocked = TRUE, !.transfer = TRUE, !.args = m]])
    <3>1. [tk EXCEPT ![t].at = "Send", ![t].on = c, ![t].dir = "SENDER",
                     ![t].blocked = TRUE, ![t].transfer = TRUE, ![t].args = m]
            = [tk EXCEPT ![t] = [tk[t] EXCEPT !.at = "Send", !.on = c,
                           !.dir = "SENDER", !.blocked = TRUE, !.transfer = TRUE, !.args = m]]
      BY <1>3
    <3>2. Yields(th, queue, [tk EXCEPT ![t].at = "Send", ![t].on = c, ![t].dir = "SENDER",
                     ![t].blocked = TRUE, ![t].transfer = TRUE, ![t].args = m])
      BY <1>2, <2>1, Zenon DEF SendBlocks
    <3>3. /\ ch[c].recv = <<>> /\ ~Closed(c)
          /\ ch' = [ch EXCEPT ![c] = UpdateCloseState(AddTaskletToWaitingToSend(ch[c], t))]
      BY <2>1 DEF SendBlocks
    <3>. QED
      BY <3>1, <3>2, <3>3, Zenon
  <2>2. ASSUME ReceiveBlocks(t, c)
        PROVE  /\ ch[c].send = <<>>
               /\ ch' = [ch EXCEPT ![c] = UpdateCloseState(AddTaskletToWaitingToReceive(ch[c], t))]
               /\ ~Closed(c)
               /\ Yields(th, queue, [tk EXCEPT ![t] = [tk[t] EXCEPT !.at = "Receive", !.on = c,
                           !.dir = "RECEIVER", !.blocked = TRUE, !.transfer = TRUE, !.args = tk[t].args]])
    <3>1. [tk EXCEPT ![t].at = "Receive", ![t].on = c, ![t].dir = "RECEIVER",
                     ![t].blocked = TRUE, ![t].transfer = TRUE]
            = [tk EXCEPT ![t] = [tk[t] EXCEPT !.at = "Receive", !.on = c,
                           !.dir = "RECEIVER", !.blocked = TRUE, !.transfer = TRUE, !.args = tk[t].args]]
      BY <1>3 DEF TaskletType
    <3>2. Yields(th, queue, [tk EXCEPT ![t].at = "Receive", ![t].on = c, ![t].dir = "RECEIVER",
                     ![t].blocked = TRUE, ![t].transfer = TRUE])
      BY <1>2, <2>2, Zenon DEF ReceiveBlocks
    <3>3. /\ ch[c].send = <<>> /\ ~Closed(c)
          /\ ch' = [ch EXCEPT ![c] = UpdateCloseState(AddTaskletToWaitingToReceive(ch[c], t))]
      BY <2>2 DEF ReceiveBlocks
    <3>. QED
      BY <3>1, <3>2, <3>3, Zenon
  <2>3. tk[t].args \in M \cup {NULL}
    BY <1>3 DEF TaskletType
  <2>4. CASE \E m \in M : SendBlocks(t, c, m)
    BY <2>1, <2>4, Zenon
  <2>5. CASE ReceiveBlocks(t, c)
    BY <2>2, <2>3, <2>5, Zenon
  <2>. QED
    BY <2>4, <2>5
<1>. DEFINE r == [tk[t] EXCEPT !.at = a, !.on = c, !.dir = d,
                               !.blocked = TRUE, !.transfer = TRUE, !.args = m]
<1>5. /\ r \in TaskletType(M) /\ Unmarked(r) = r /\ ~r.again /\ Sane(r)
      /\ r.blocked /\ r.dir = d /\ r.on = c
  BY <1>1, <1>3, <1>4 DEF TaskletType, Unmarked, Sane, Running, Resting, Direction
<1>6. Yields(th, queue, [tk EXCEPT ![t] = r])
  BY <1>4
<1>. HIDE DEF r
<1>7. Becomes(M, t, r) /\ (Meets(M) => Keeps(M))
  BY <1>1, <1>2, <1>5, <1>6, YieldOneStep
<1>8. Meets(M)
  BY <1>1, <1>4, <1>5, <1>7, WaitsBook DEF Becomes, IInv, Running
<1>. QED
  BY <1>7, <1>8

(* The partner p of t is woken, to run next or later. *)
LEMMA WakesKeeps ==
    ASSUME NEW M, IInv(M), NEW t \in Tasklets, Running(t), NEW c \in Channels,
           NEW p \in Tasklets, tk[p].dir # "NEITHER", tk[p].on = c,
           ch' = [ch EXCEPT ![c] = Without(c, p)],
           NEW x \in TaskletType(M), Sane(x), x.dir = "NEITHER", x.alive, ~x.blocked,
           NEW y \in TaskletType(M), Sane(Unmarked(y)), y.dir = "NEITHER", y.alive, ~y.blocked,
           \/ /\ Yields(Home[t], InsertedToRunNext(p), [tk EXCEPT ![p] = x, ![t] = y])
              /\ y.again <=> t \notin Threads
           \/ /\ gil' = NULL /\ queue' = Inserted(p) /\ tk' = [tk EXCEPT ![p] = x, ![t] = y]
              /\ UNCHANGED <<cur, loop, phase>>
              /\ ~y.again
    PROVE  Keeps(M)
<1>1. PICK th \in Threads : th = Home[t]
  BY Homes
<1>2. p # t /\ tk[p].blocked /\ phase[Home[p]] # "over"
  BY DEF Running, NoneKilled, IInv, Ended
<1>3. p \in Threads \/ ~B!In(p, queue[Home[p]])
  BY <1>2, Homes DEF IInv, Queues
<1>4. /\ cur[th] = t /\ phase[th] # "over"
      /\ t \in Threads <=> t = th
      /\ t # th => queue[th] # <<>>
  BY <1>1, Homes DEF Running, IInv, Queues
<1>5. TypeOK(M) /\ AllSane /\ Queues /\ Meeting(M)
  BY DEF IInv, Meeting
<1>. DEFINE tk0 == [tk EXCEPT ![p] = x, ![t] = y]
<1>6. tk0[t] = y /\ tk0[p] = x /\ tk0 \in TaskletsType(M) /\ \A u \in Tasklets \ {t, p} : tk0[u] = tk[u]
  BY <1>2, <1>5 DEF TypeOK, TaskletsType
<1>7. /\ Unmarked(y).alive /\ ~Unmarked(y).blocked /\ Unmarked(y).dir = "NEITHER"
      /\ ~y.again => Unmarked(y) = y
  BY DEF Unmarked, TaskletType
<1>8. ASSUME BothBecome(M, t, Unmarked(y), p, x)
      PROVE  /\ Meets(M) /\ NoneKilled'
             /\ tk'[t] = Unmarked(y) /\ tk'[p] = x /\ \A u \in Tasklets \ {t, p} : tk'[u] = tk[u]
  <2>1. /\ TypeOK(M)' /\ AllSane'
        /\ tk'[t] = Unmarked(y) /\ tk'[p] = x /\ \A u \in Tasklets \ {t, p} : tk'[u] = tk[u]
    BY <1>8 DEF BothBecome
  <2>2. \A u \in Tasklets \ {p} : /\ tk'[u].dir = tk[u].dir
                                  /\ tk[u].dir # "NEITHER" => tk'[u].on = tk[u].on
    BY <1>7, <2>1 DEF Running
  <2>3. Meets(M)
    BY <1>5, <2>1, <2>2, LeavesBook
  <2>4. NoneKilled'
    BY <1>7, <2>1 DEF NoneKilled, Running
  <2>. QED
    BY <2>1, <2>3, <2>4
<1>9. CASE /\ Yields(th, InsertedToRunNext(p), tk0)
           /\ y.again <=> t \notin Threads
  <2>1. Joined(InsertedToRunNext(p), p)
    BY <1>3, <1>5, JoinedNext
  <2>. DEFINE q0 == InsertedToRunNext(p)
  <2>2. q0 \in QueuesType /\ (t # th => q0[th] # <<>>)
    BY <1>4, <2>1 DEF Joined
  <2>3. Yields(th, q0, tk0)
    BY <1>9
  <2>4. Joined(q0, p)
    BY <2>1
  <2>. HIDE DEF q0
  <2>5. BothBecome(M, t, Unmarked(y), p, x) /\ phase' = phase
    BY <1>2, <1>4, <1>5, <1>9, <2>2, <2>3, YieldsTwo
  <2>. HIDE DEF tk0
  <2>. QED
    BY <1>1, <1>2, <1>4, <1>6, <1>7, <1>8, <1>9, <2>3, <2>4, <2>5, YieldStep
<1>10. CASE /\ gil' = NULL /\ queue' = Inserted(p) /\ tk' = tk0
            /\ UNCHANGED <<cur, loop, phase>>
            /\ ~y.again
  <2>1. Joined(queue', p)
    BY <1>5, <1>10, JoinedLast
  <2>2. Unmarked(y) = y
    BY <1>7, <1>10
  <2>3. AllSane'
    BY <1>5, <1>6, <1>10, <2>2 DEF AllSane
  <2>4. TypeOK(M)'
    BY <1>5, <1>6, <1>10, <2>1 DEF TypeOK, Joined
  <2>5. BothBecome(M, t, Unmarked(y), p, x)
    BY <1>6, <1>10, <2>2, <2>3, <2>4 DEF BothBecome
  <2>. QED
    BY <1>1, <1>2, <1>4, <1>7, <1>8, <1>10, <2>1, <2>5, StayStep
<1>. QED
  BY <1>1, <1>9, <1>10

(* t meets its partner p, of which x is left, and is y itself if it goes on. *)
LEMMA MeetsKeeps ==
    ASSUME NEW M, IInv(M), NEW t \in Tasklets, Running(t), NEW c \in Channels,
           NEW p \in Tasklets, p # t, tk[p].dir # "NEITHER", tk[p].on = c,
           ch' = [ch EXCEPT ![c] = Without(c, p)],
           NEW x \in TaskletType(M), Sane(x), x.dir = "NEITHER", x.alive, ~x.blocked,
           NEW y \in TaskletType(M), y.dir = "NEITHER", y.alive, ~y.blocked, ~y.again,
           y.at = "code",
           NEW next \in BOOLEAN, next => y.on = c,
           NEW rest \in {"Send.delivered", "Receive.taken"},
           NEW tk0, tk0 = [tk EXCEPT ![p] = x, ![t] = y], Wakes(p, t, tk0, next, rest)
    PROVE  Keeps(M)
<1>1. tk = [u \in Tasklets |-> tk[u]]
  BY DEF IInv, Meeting, TypeOK, TaskletsType
<1>2. CASE next
  <2>. DEFINE z == [y EXCEPT !.at = rest, !.again = t \notin Threads]
  <2>1. /\ z \in TaskletType(M) /\ Sane(Unmarked(z)) /\ z.dir = "NEITHER" /\ z.alive /\ ~z.blocked
        /\ z.again <=> t \notin Threads
    BY <1>2 DEF TaskletType, Sane, Unmarked, Resting
  <2>2. Marked([tk0 EXCEPT ![t].at = rest], t) = [tk EXCEPT ![p] = x, ![t] = z]
    BY <1>1 DEF Marked, TaskletType
  <2>3. Yields(Home[t], InsertedToRunNext(p), [tk EXCEPT ![p] = x, ![t] = z])
    BY <1>2, <2>2, Zenon DEF Wakes
  <2>. HIDE DEF z
  <2>. QED
    BY <2>1, <2>3, WakesKeeps
<1>3. CASE ~next
  <2>1. Sane(Unmarked(y))
    BY DEF TaskletType, Sane, Unmarked, Resting
  <2>2. /\ gil' = NULL /\ queue' = Inserted(p) /\ tk' = [tk EXCEPT ![p] = x, ![t] = y]
        /\ UNCHANGED <<cur, loop, phase>>
    BY <1>3 DEF Wakes
  <2>. QED
    BY <2>1, <2>2, WakesKeeps
<1>. QED
  BY <1>2, <1>3

LEMMA SendDeliversKeeps ==
    ASSUME NEW M, IInv(M), NEW t \in Tasklets, InPython(t), NEW c \in Channels,
           NEW m \in M, m # NULL, SendDelivers(t, c, m)
    PROVE  Keeps(M)
<1>. DEFINE p == Head(ch[c].recv)
            next == ch[c].preference = "RECEIVER"
            x == [tk[p] EXCEPT !.blocked = FALSE, !.dir = "NEITHER", !.args = m]
            y == [tk[t] EXCEPT !.on = IF next THEN c ELSE NULL, !.transfer = next]
            tk0 == [tk EXCEPT ![p].blocked = FALSE, ![p].dir = "NEITHER", ![p].args = m,
                              ![t].on = IF next THEN c ELSE NULL, ![t].transfer = next]
<1>1. Running(t)
  BY InPythonRuns
<1>2. p \in Tasklets /\ tk[p].dir = "RECEIVER" /\ tk[p].on = c
  BY FrontWaits DEF SendDelivers, IInv, Meeting
<1>3. /\ ch' = [ch EXCEPT ![c] = Without(c, p)]
      /\ Wakes(p, t, tk0, next, "Send.delivered")
  BY DEF SendDelivers
<1>. HIDE DEF p
<1>4. p # t
  BY <1>1, <1>2 DEF Running
<1>5. /\ tk = [u \in Tasklets |-> tk[u]]
      /\ tk[p] \in TaskletType(M) /\ Sane(tk[p]) /\ tk[t] \in TaskletType(M) /\ Sane(tk[t])
  BY <1>2 DEF IInv, Meeting, TypeOK, TaskletsType, AllSane
<1>6. x \in TaskletType(M) /\ Sane(x) /\ x.dir = "NEITHER" /\ x.alive /\ ~x.blocked
  BY <1>2, <1>5 DEF TaskletType, Sane, Direction, Resting
<1>7. next \in BOOLEAN
  OBVIOUS
<1>. HIDE DEF next
<1>8. /\ y \in TaskletType(M) /\ y.dir = "NEITHER" /\ y.alive /\ ~y.blocked /\ ~y.again
      /\ y.at = "code" /\ (next => y.on = c)
  BY <1>1, <1>5, <1>7 DEF Running, TaskletType, Sane
<1>9. tk0 = [tk EXCEPT ![p] = x, ![t] = y]
  BY <1>2, <1>4, <1>5
<1>. HIDE DEF tk0, x, y
<1>. QED
  BY <1>1, <1>2, <1>3, <1>4, <1>6, <1>7, <1>8, <1>9, MeetsKeeps

LEMMA ReceiveTakesKeeps ==
    ASSUME NEW M, IInv(M), NEW t \in Tasklets, InPython(t), NEW c \in Channels,
           ReceiveTakes(t, c)
    PROVE  Keeps(M)
<1>. DEFINE p == Head(ch[c].send)
            next == ch[c].preference = "SENDER"
            x == [tk[p] EXCEPT !.blocked = FALSE, !.dir = "NEITHER", !.args = NULL, !.transfer = FALSE]
            y == [tk[t] EXCEPT !.on = IF next THEN c ELSE NULL, !.transfer = next,
                               !.args = IF next THEN tk[p].args ELSE NULL]
            tk0 == [tk EXCEPT ![p].blocked = FALSE, ![p].dir = "NEITHER", ![p].args = NULL,
                              ![p].transfer = FALSE,
                              ![t].on = IF next THEN c ELSE NULL, ![t].transfer = next,
                              ![t].args = IF next THEN tk[p].args ELSE NULL]
<1>1. Running(t)
  BY InPythonRuns
<1>2. p \in Tasklets /\ tk[p].dir = "SENDER" /\ tk[p].on = c
  BY FrontWaits DEF ReceiveTakes, IInv, Meeting
<1>3. /\ ch' = [ch EXCEPT ![c] = Without(c, p)]
      /\ Wakes(p, t, tk0, next, "Receive.taken")
  BY DEF ReceiveTakes
<1>. HIDE DEF p
<1>4. p # t
  BY <1>1, <1>2 DEF Running
<1>5. /\ tk = [u \in Tasklets |-> tk[u]]
      /\ tk[p] \in TaskletType(M) /\ Sane(tk[p]) /\ tk[t] \in TaskletType(M) /\ Sane(tk[t])
  BY <1>2 DEF IInv, Meeting, TypeOK, TaskletsType, AllSane
<1>6. x \in TaskletType(M) /\ Sane(x) /\ x.dir = "NEITHER" /\ x.alive /\ ~x.blocked
  BY <1>2, <1>5 DEF TaskletType, Sane, Direction, Resting
<1>7. next \in BOOLEAN
  OBVIOUS
<1>. HIDE DEF next
<1>8. /\ y \in TaskletType(M) /\ y.dir = "NEITHER" /\ y.alive /\ ~y.blocked /\ ~y.again
      /\ y.at = "code" /\ (next => y.on = c)
  BY <1>1, <1>5, <1>7 DEF Running, TaskletType, Sane
<1>9. tk0 = [tk EXCEPT ![p] = x, ![t] = y]
  BY <1>2, <1>4, <1>5
<1>. HIDE DEF tk0, x, y
<1>. QED
  BY <1>1, <1>2, <1>3, <1>4, <1>6, <1>7, <1>8, <1>9, MeetsKeeps

--------------------------------------------------------------------------------
(* The invariant. *)

LEMMA InitKeeps ==
    ASSUME NEW M, NEW b, B!Orderly(b), b.send = <<>>, b.recv = <<>>, InitWith(b)
    PROVE  IInv(M)
<1>1. ch = [c \in Channels |-> b]
  BY DEF InitWith
<1>2. B!Kept
  <2>1. B!WaitsOnOne
    BY <1>1, B!EmptyList DEF B!WaitsOnOne, B!Listed
  <2>. QED
    BY <1>1, <2>1, B!KeptByChannel
<1>3. TypeOK(M)
  <2>1. \A t \in Tasklets : tk[t] \in TaskletType(M)
    BY DEF InitWith, TaskletType, Direction
  <2>. QED
    BY <2>1, ThreadsAssumption DEF InitWith, TypeOK, QueuesType, TaskletsType
<1>4. AllSane
  BY DEF AllSane, Sane, InitWith, Resting
<1>5. Places
  BY <1>1, <1>4, B!EmptyList DEF Places, InitWith
<1>6. Queues
  BY B!EmptyList DEF Queues, InitWith
<1>7. Runnable /\ Killing /\ Ended
  BY Homes DEF Runnable, Killing, Ended, InitWith
<1>. QED
  BY <1>2, <1>3, <1>4, <1>5, <1>6, <1>7 DEF IInv, Meeting

(* A call on a channel, by whoever is in Python code. *)
LEMMA SendKeeps ==
    ASSUME NEW M, IInv(M), NEW t \in Tasklets, InPython(t), NEW c \in Channels,
           NEW m \in M, m # NULL, Send(t, c, m)
    PROVE  Keeps(M)
BY RefusedKeeps, BlocksKeeps, SendDeliversKeeps DEF Send

LEMMA ReceiveKeeps ==
    ASSUME NEW M, IInv(M), NEW t \in Tasklets, InPython(t), NEW c \in Channels, Receive(t, c)
    PROVE  Keeps(M)
BY RefusedKeeps, BlocksKeeps, ReceiveTakesKeeps DEF Receive

LEMMA PythonKeeps ==
    ASSUME NEW M, IInv(M), NEW t \in Tasklets, Python(t)
    PROVE  Keeps(M)
<1>1. CASE \E u \in Tasklets : Setup(t, u) \/ Kill(t, u)
  BY <1>1, SetupKeeps, KillKeeps
<1>2. CASE Schedule(t) \/ Ends(t) \/ Catch(t)
  BY <1>2, ScheduleKeeps, EndsKeeps, CatchKeeps
<1>3. CASE \E c \in Channels : Close(t, c) \/ \E p \in Preferences : SetPreference(t, c, p)
  BY <1>3, CloseKeeps, SetPreferenceKeeps
<1>4. CASE t \in Threads /\ EndThread(t)
  BY <1>4, EndThreadKeeps
<1>. QED
  BY <1>1, <1>2, <1>3, <1>4 DEF Python

LEMMA CppKeeps ==
    ASSUME NEW M, IInv(M), Cpp
    PROVE  Keeps(M)
<1>1. ASSUME NEW th \in Threads, Loop(th) PROVE Keeps(M)
  BY <1>1, LoopSkipsKeeps, LoopSwitchesKeeps, LoopEndsKeeps DEF Loop
<1>2. ASSUME NEW th \in Threads, Clear(th) PROVE Keeps(M)
  BY <1>2, ClearKillsKeeps, ClearEndsKeeps DEF Clear
<1>3. ASSUME NEW t \in Tasklets, Rest(t) PROVE Keeps(M)
  BY <1>3, SendReturnsKeeps, SendDeliveredReturnsKeeps, ReceiveReturnsKeeps,
     ReceiveTakenReturnsKeeps DEF Rest
<1>. QED
  BY <1>1, <1>2, <1>3 DEF Cpp

LEMMA StutterKeeps ==
    ASSUME NEW M, IInv(M), UNCHANGED vars
    PROVE  Keeps(M)
<1>1. Meets(M)
  <2>1. TypeOK(M)' /\ AllSane'
    BY DEF vars, IInv, Meeting, TypeOK, AllSane
  <2>. QED
    BY <2>1, SameChannels DEF vars, IInv
<1>. QED
  BY <1>1 DEF vars, IInv, Meets, Keeps, Queues, Runnable, Killing, Ended

LEMMA NextKeeps ==
    ASSUME IInv(Tasklets), [Next]_vars
    PROVE  Keeps(Tasklets)
<1>1. ASSUME NEW t \in Tasklets, ChannelCalls(t) PROVE Keeps(Tasklets)
  <2>1. t # NULL
    BY ThreadsAssumption
  <2>. QED
    BY <1>1, <2>1, SendKeeps, ReceiveKeeps DEF ChannelCalls, Calls
<1>. QED
  BY <1>1, PythonKeeps, CppKeeps, StutterKeeps DEF Next, AllOver

(* The invariant, whatever the threads do: at every moment, all threads     *)
(* agree with one another about who waits where.                            *)
THEOREM ThreadsInvariant == Spec => []IInv(Tasklets)
<1>1. Init => IInv(Tasklets)
  <2>1. InitChannel = B!InitChannel /\ InitChannel.send = <<>> /\ InitChannel.recv = <<>>
    BY DEF InitChannel, B!InitChannel
  <2>. QED
    BY <2>1, B!InitChannelOrderly, InitKeeps DEF Init
<1>2. IInv(Tasklets) /\ [Next]_vars => IInv(Tasklets)'
  BY NextKeeps DEF Keeps
<1>. QED
  BY <1>1, <1>2, PTL DEF Spec

(* Every variable has its type. *)
THEOREM ThreadsTyped == Spec => []TypeOK(Tasklets)
<1>1. IInv(Tasklets) => TypeOK(Tasklets)
  BY DEF IInv, Meeting
<1>. QED
  BY <1>1, ThreadsInvariant, PTL

--------------------------------------------------------------------------------
(* What follows from it. *)

(* Nobody comes back from send or receive without an error unless a partner *)
(* has taken, or left, a message: whichever thread the partner ran on, and  *)
(* whoever was killed or closed the channel meanwhile.                      *)
THEOREM PartnersMeet == Spec => []WokenByItsPartner
<1>1. ASSUME IInv(Tasklets) PROVE WokenByItsPartner
  <2>. SUFFICES ASSUME NEW t \in Tasklets, ~tk[t].blocked, ~tk[t].exc
                PROVE  /\ tk[t].at = "Send" => tk[t].args = NULL
                       /\ tk[t].at = "Receive" => tk[t].args # NULL
    BY DEF WokenByItsPartner
  <2>1. Sane(tk[t])
    BY <1>1 DEF IInv, Meeting, AllSane
  <2>. QED
    BY <2>1 DEF Sane
<1>. QED
  BY <1>1, ThreadsInvariant, PTL

(* A tasklet that can run waits in the queue of its own thread, and there   *)
(* once, and one that cannot is on the list of the channel it notes: none   *)
(* is lost between the channels and the queues of several threads.          *)
THEOREM NobodyAstray == Spec => []QueuedAtHome
<1>1. ASSUME IInv(Tasklets) PROVE QueuedAtHome
  <2>1. ASSUME NEW th \in Threads, NEW i \in DOMAIN queue[th], NEW j \in DOMAIN queue[th]
        PROVE  Home[queue[th][i]] = th /\ (i # j => queue[th][i] # queue[th][j])
    <3>1. queue[th][i] \in Tasklets /\ B!In(queue[th][i], queue[th])
      BY <1>1 DEF IInv, Meeting, TypeOK, QueuesType, B!In
    <3>. QED
      BY <1>1, <3>1 DEF IInv, Queues, B!Once
  <2>2. ASSUME NEW t \in Tasklets \ Threads, tk[t].alive, tk[t].at # "done"
        PROVE  IF tk[t].blocked THEN ~InQueue(t) /\ Book!Listed(tk[t].on, t) ELSE InQueue(t)
    <3>1. InQueue(t) <=> B!In(t, queue[Home[t]])
      BY DEF InQueue, B!In
    <3>2. Sane(tk[t]) /\ tk[t] \in TaskletType(Tasklets)
      BY <1>1 DEF IInv, Meeting, AllSane, TypeOK, TaskletsType
    <3>3. CASE tk[t].blocked
      <4>1. ~InQueue(t)
        BY <1>1, <3>1, <3>3, Homes DEF IInv, Queues
      <4>2. tk[t].on \in Channels /\ tk[t].dir \in {"SENDER", "RECEIVER"}
        BY <3>2, <3>3 DEF Sane, TaskletType, Direction, Resting
      <4>3. B!In(t, ch[tk[t].on].send) \/ B!In(t, ch[tk[t].on].recv)
        BY <1>1, <4>2 DEF IInv, Meeting, Places
      <4>. QED
        BY <3>3, <4>1, <4>3 DEF Book!Listed, Book!In, B!In
    <3>4. CASE ~tk[t].blocked
      BY <1>1, <2>2, <3>1, <3>4 DEF IInv, Runnable
    <3>. QED
      BY <3>3, <3>4
  <2>. QED
    BY <2>1, <2>2 DEF QueuedAtHome
<1>. QED
  BY <1>1, ThreadsInvariant, PTL

(* A thread that has ended has left no tasklet in its queue, and none on a  *)
(* channel, though its tasklets were killed one by one while other threads  *)
(* went on to use the channels that they waited on.                         *)
THEOREM NothingIsLeft == Spec => []NothingLeft
<1>1. ASSUME IInv(Tasklets) PROVE NothingLeft
  <2>. SUFFICES ASSUME NEW th \in Threads, phase[th] = "over"
                PROVE  /\ queue[th] = <<>>
                       /\ \A t \in Tasklets : Home[t] = th =>
                             \A c \in Channels : ~Book!Listed(c, t)
    BY DEF NothingLeft
  <2>1. queue[th] = <<>>
    <3>. SUFFICES ASSUME queue[th] # <<>> PROVE FALSE
      OBVIOUS
    <3>1. /\ Head(queue[th]) \in Tasklets /\ Home[Head(queue[th])] = th
          /\ B!In(Head(queue[th]), queue[th])
      <4>1. \A s \in Seq(Tasklets \ Threads) : s # <<>> => B!In(Head(s), s)
        BY DEF B!In
      <4>. QED
        BY <1>1, <4>1, FrontOfQueue DEF IInv, Meeting, TypeOK, QueuesType
    <3>. QED
      BY <1>1, <3>1 DEF IInv, Ended
  <2>2. ASSUME NEW t \in Tasklets, Home[t] = th, NEW c \in Channels
        PROVE  ~Book!Listed(c, t)
    <3>1. tk[t].dir = "NEITHER"
      BY <1>1, <2>2 DEF IInv, Ended
    <3>2. ~B!In(t, ch[c].send) /\ ~B!In(t, ch[c].recv)
      BY <1>1, <3>1 DEF IInv, Meeting, Places
    <3>. QED
      BY <3>2 DEF Book!Listed, Book!In, B!In
  <2>. QED
    BY <2>1, <2>2
<1>. QED
  BY <1>1, ThreadsInvariant, PTL

--------------------------------------------------------------------------------
(* The channels of Threads are those of ChannelBook. *)

LEMMA SameBook ==
    /\ Book!Init <=> B!Init
    /\ Book!Next <=> B!Next
<1>1. Book!Init <=> B!Init
  BY DEF Book!Init, B!Init, B!InitChannel, Book!InitChannel
<1>2. B!Direction = Book!Direction
  BY DEF B!Direction, Book!Direction
<1>3. \A b, t : B!Left(b, t) = Book!Left(b, t)
  BY DEF B!Left, Book!Left, B!Unlinked, Book!Unlinked, B!In, Book!In
<1>4. \A b : B!Settled(b) = Book!Settled(b)
  BY DEF B!Settled, Book!Settled, B!Drained, Book!Drained
<1>5. \A c, t : B!Listed(c, t) <=> Book!Listed(c, t)
  BY DEF B!Listed, Book!Listed, B!In, Book!In
<1>6. \A c : B!IsOpen(c) <=> Book!IsOpen(c)
  BY DEF B!IsOpen, Book!IsOpen
<1>7. \A c, t : B!WaitToSend(c, t) <=> Book!WaitToSend(c, t)
  BY <1>5, <1>6, Zenon DEF B!WaitToSend, Book!WaitToSend,
     B!AddTaskletToWaitingToSend, Book!AddTaskletToWaitingToSend
<1>8. \A c, t : B!WaitToReceive(c, t) <=> Book!WaitToReceive(c, t)
  BY <1>5, <1>6, Zenon DEF B!WaitToReceive, Book!WaitToReceive,
     B!AddTaskletToWaitingToReceive, Book!AddTaskletToWaitingToReceive
<1>9. \A c, t : B!Leave(c, t) <=> Book!Leave(c, t)
  BY <1>3, <1>4, <1>5 DEF B!Leave, Book!Leave
<1>10. \A c : /\ B!Settle(c) <=> Book!Settle(c)
              /\ B!Close(c) <=> Book!Close(c)
              /\ B!Open(c) <=> Book!Open(c)
              /\ \A p : B!Prefer(c, p) <=> Book!Prefer(c, p)
  BY <1>4 DEF B!Settle, Book!Settle, B!Close, Book!Close, B!Open, Book!Open, B!Prefer, Book!Prefer
<1>11. Book!Next <=> B!Next
  BY <1>2, <1>7, <1>8, <1>9, <1>10, Zenon DEF B!Next, Book!Next
<1>. QED
  BY <1>1, <1>11

(* Threads implements ChannelBook: whatever the threads do with one another *)
(* is, for the channels, that somebody begins to wait, leaves or closes.    *)
THEOREM ThreadsKeepTheBook == Spec => BookSpec
<1>1. Init => Book!Init
  BY SameBook DEF Init, InitWith, InitChannel, B!Init, B!InitChannel
<1>2. IInv(Tasklets) /\ [Next]_vars => [Book!Next]_ch
  BY NextKeeps, SameBook DEF Keeps
<1>. QED
  BY <1>1, <1>2, ThreadsInvariant, PTL DEF Spec, BookSpec, Book!Spec

--------------------------------------------------------------------------------
(* QueueChannel.  Where the channels are used by one thread, what a method  *)
(* saw is still so when it acts: whatever the number of tasklets, senders   *)
(* do not block and data is handed out in order.                            *)

OneThread == \A t, u \in Tasklets : Home[t] = Home[u]

OneChannel == \A c, d \in Channels : c = d

--------------------------------------------------------------------------------
(* The inductive invariant. *)

NobodySends == \A t \in Tasklets : tk[t].at # "Send"

(* What the plan p goes by is so. *)
Right(p) ==
    /\ p.c \in Channels
    /\ p.do = "append" => ch[p.c].recv = <<>>
    /\ p.do = "send" => ch[p.c].recv # <<>> \/ Closed(p.c)
    /\ p.do = "receive" => data[p.c] = <<>>
    /\ p.do = "popleft" => data[p.c] # <<>>
    /\ p.do \in {"append", "send"} => p.m \in Nat

(* What t has seen is still so. *)
Foreseen(t) == Right(plan[t])

(* Only the tasklet that runs has a plan. *)
Plan == \A t \in Tasklets : plan[t] # Nothing =>
    /\ InPython(t) /\ (t \in Threads => phase[t] = "up")
    /\ Foreseen(t)

QTypeOK ==
    /\ data \in [Channels -> Seq(Nat)]
    /\ plan = [t \in Tasklets |-> plan[t]]
    /\ sent \in Nat /\ handed \in Nat

QInv == IInv(Nat) /\ QTypeOK /\ NobodySends /\ NobodyWaitsForQueuedData /\ Plan

--------------------------------------------------------------------------------
(* Python code and the rest of calls let nobody begin to wait. *)

(* Nobody waits after the step who has not waited before. *)
NoneJoins == \A u \in Tasklets :
    /\ tk'[u].at = "Send" => tk[u].at = "Send"
    /\ tk'[u].dir = "RECEIVER" => tk[u].dir = "RECEIVER" /\ tk'[u].on = tk[u].on

LEMMA YieldsSame ==
    ASSUME NEW M, NEW tk0 \in TaskletsType(M), NEW th, NEW q0, Yields(th, q0, tk0)
    PROVE  \A u \in Tasklets :
              tk'[u].at = tk0[u].at /\ tk'[u].dir = tk0[u].dir /\ tk'[u].on = tk0[u].on
<1>1. tk' = tk0 \/ tk' = [tk0 EXCEPT ![cur[th]].again = FALSE]
  BY DEF Yields
<1>. QED
  BY <1>1 DEF TaskletsType, TaskletType

(* One tasklet is changed, and does not begin to wait. *)
LEMMA YieldsNoneJoins ==
    ASSUME NEW M, IInv(M), NEW t \in Tasklets, NEW r \in TaskletType(M), NEW th, NEW q0,
           Yields(th, q0, [tk EXCEPT ![t] = r]),
           r.at = "Send" => tk[t].at = "Send",
           r.dir = "RECEIVER" => tk[t].dir = "RECEIVER" /\ r.on = tk[t].on
    PROVE  NoneJoins
<1>. DEFINE tk0 == [tk EXCEPT ![t] = r]
<1>1. tk0 \in TaskletsType(M) /\ tk0[t] = r /\ \A u \in Tasklets \ {t} : tk0[u] = tk[u]
  BY DEF IInv, Meeting, TypeOK, TaskletsType
<1>2. Yields(th, q0, tk0)
  OBVIOUS
<1>. HIDE DEF tk0
<1>. QED
  BY <1>1, <1>2, YieldsSame DEF NoneJoins

LEMMA OneNoneJoins ==
    ASSUME NEW M, IInv(M), NEW t \in Tasklets, NEW r, tk' = [tk EXCEPT ![t] = r],
           r.at = "Send" => tk[t].at = "Send",
           r.dir = "RECEIVER" => tk[t].dir = "RECEIVER" /\ r.on = tk[t].on
    PROVE  NoneJoins
<1>1. tk = [u \in Tasklets |-> tk[u]]
  BY DEF IInv, Meeting, TypeOK, TaskletsType
<1>. QED
  BY <1>1 DEF NoneJoins

LEMMA KilledNoneJoins ==
    ASSUME NEW M, IInv(M), NEW th, NEW t \in Tasklets, Killed(th, t)
    PROVE  NoneJoins
<1>. DEFINE r == [tk[t] EXCEPT !.blocked = FALSE, !.exc = TRUE, !.again = FALSE]
<1>1. tk \in [Tasklets -> TaskletType(M)]
  BY DEF IInv, Meeting, TypeOK, TaskletsType
<1>2. [tk EXCEPT ![t].blocked = FALSE, ![t].exc = TRUE, ![t].again = FALSE] = [tk EXCEPT ![t] = r]
  BY <1>1
<1>3. Yields(th, [queue EXCEPT ![th] = <<t>> \o Unlinked(@, t)], [tk EXCEPT ![t] = r])
  BY <1>2, Zenon DEF Killed
<1>4. r \in TaskletType(M) /\ r.at = tk[t].at /\ r.dir = tk[t].dir /\ r.on = tk[t].on
  BY <1>1 DEF TaskletType
<1>. HIDE DEF r
<1>. QED
  BY <1>3, <1>4, YieldsNoneJoins

LEMMA PythonNoneJoins ==
    ASSUME NEW M, IInv(M), NEW t \in Tasklets, Python(t)
    PROVE  NoneJoins
<1>1. tk \in [Tasklets -> TaskletType(M)]
  BY DEF IInv, Meeting, TypeOK, TaskletsType
<1>2. ASSUME NEW u \in Tasklets, Setup(t, u) PROVE NoneJoins
  <2>1. tk' = [tk EXCEPT ![u].at = "new", ![u].alive = TRUE]
    BY <1>2 DEF Setup
  <2>. QED
    BY <1>1, <2>1 DEF NoneJoins, TaskletType
<1>3. ASSUME NEW u \in Tasklets, NEW th, Killed(th, u) PROVE NoneJoins
  BY <1>3, KilledNoneJoins
<1>4. ASSUME Schedule(t) PROVE NoneJoins
  <2>. DEFINE r == [tk[t] EXCEPT !.again = t \notin Threads]
  <2>1. Marked(tk, t) = [tk EXCEPT ![t] = r]
    BY <1>1 DEF Marked
  <2>2. Yields(Home[t], queue, [tk EXCEPT ![t] = r])
    BY <1>4, <2>1, Zenon DEF Schedule
  <2>3. r \in TaskletType(M) /\ r.at = tk[t].at /\ r.dir = tk[t].dir /\ r.on = tk[t].on
    BY <1>1 DEF TaskletType
  <2>. HIDE DEF r
  <2>. QED
    BY <2>2, <2>3, YieldsNoneJoins
<1>5. ASSUME Ends(t) PROVE NoneJoins
  <2>. DEFINE r == [tk[t] EXCEPT !.at = "done", !.exc = FALSE, !.alive = @ /\ tk[t].transfer]
  <2>1. [tk EXCEPT ![t].at = "done", ![t].exc = FALSE, ![t].alive = @ /\ tk[t].transfer]
          = [tk EXCEPT ![t] = r]
    BY <1>1
  <2>2. Yields(Home[t], queue, [tk EXCEPT ![t] = r])
    BY <1>5, <2>1, Zenon DEF Ends
  <2>3. r \in TaskletType(M) /\ r.at = "done" /\ r.dir = tk[t].dir /\ r.on = tk[t].on
    BY <1>1 DEF TaskletType
  <2>. HIDE DEF r
  <2>. QED
    BY <2>2, <2>3, YieldsNoneJoins
<1>6. ASSUME Catch(t) PROVE NoneJoins
  <2>1. tk' = [tk EXCEPT ![t].exc = FALSE]
    BY <1>6 DEF Catch
  <2>. QED
    BY <1>1, <2>1 DEF NoneJoins, TaskletType
<1>7. ASSUME tk' = tk PROVE NoneJoins
  BY <1>7 DEF NoneJoins
<1>. QED
  BY <1>2, <1>3, <1>4, <1>5, <1>6, <1>7 DEF Python, Kill, Close, SetPreference, EndThread

LEMMA RestNoneJoins ==
    ASSUME NEW M, IInv(M), NEW t \in Tasklets, Rest(t)
    PROVE  NoneJoins
<1>1. tk[t] \in TaskletType(M) /\ Sane(tk[t])
  BY DEF IInv, Meeting, AllSane, TypeOK, TaskletsType
<1>2. CASE SendReturns(t) \/ ReceiveReturns(t)
  <2>. DEFINE r == [Back(t) EXCEPT !.transfer = FALSE, !.dir = "NEITHER", !.args = NULL]
  <2>1. tk' = [tk EXCEPT ![t] = r]
    BY <1>2 DEF SendReturns, ReceiveReturns
  <2>2. r.at = "code" /\ r.dir = "NEITHER"
    BY <1>1 DEF Back, TaskletType
  <2>. HIDE DEF r
  <2>. QED
    BY <2>1, <2>2, OneNoneJoins
<1>3. CASE SendDeliveredReturns(t)
  <2>. DEFINE r == [Back(t) EXCEPT !.transfer = tk[t].exc]
  <2>1. tk' = [tk EXCEPT ![t] = r] /\ tk[t].at = "Send.delivered"
    BY <1>3 DEF SendDeliveredReturns, Resumes
  <2>2. r.at = "code" /\ r.dir = tk[t].dir
    BY <1>1 DEF Back, TaskletType
  <2>. HIDE DEF r
  <2>. QED
    BY <1>1, <2>1, <2>2, OneNoneJoins DEF Sane
<1>4. CASE ReceiveTakenReturns(t)
  <2>. DEFINE r == IF Fails(t) THEN Back(t) ELSE [Back(t) EXCEPT !.transfer = FALSE, !.args = NULL]
  <2>1. tk' = [tk EXCEPT ![t] = r] /\ tk[t].at = "Receive.taken"
    BY <1>4 DEF ReceiveTakenReturns, Resumes
  <2>2. r.at = "code" /\ r.dir = tk[t].dir
    BY <1>1 DEF Back, TaskletType
  <2>. HIDE DEF r
  <2>. QED
    BY <1>1, <2>1, <2>2, OneNoneJoins DEF Sane
<1>. QED
  BY <1>2, <1>3, <1>4 DEF Rest

LEMMA LoopNoneJoins ==
    ASSUME NEW M, IInv(M), NEW th \in Threads, Loop(th)
    PROVE  NoneJoins
<1>. DEFINE t == Head(queue[th])
<1>1. queue[th] # <<>> => t \in Tasklets
  BY FrontOfQueue
<1>2. tk \in [Tasklets -> TaskletType(M)]
  BY DEF IInv, Meeting, TypeOK, TaskletsType
<1>3. CASE LoopSkips(th)
  <2>. DEFINE r == [tk[t] EXCEPT !.exc = FALSE, !.at = "done", !.alive = @ /\ tk[t].at = "done"]
  <2>1. /\ t \in Tasklets
        /\ tk' = [tk EXCEPT ![t].exc = FALSE, ![t].at = "done", ![t].alive = @ /\ tk[t].at = "done"]
    BY <1>1, <1>3 DEF LoopSkips
  <2>2. tk' = [tk EXCEPT ![t] = r] /\ r.at = "done" /\ r.dir = tk[t].dir /\ r.on = tk[t].on
    BY <1>2, <2>1 DEF TaskletType
  <2>. HIDE DEF r, t
  <2>. QED
    BY <2>1, <2>2, OneNoneJoins
<1>4. CASE LoopSwitches(th)
  <2>. DEFINE r == [tk[t] EXCEPT !.at = IF @ = "new" THEN "code" ELSE @]
  <2>1. t \in Tasklets /\ tk' = [tk EXCEPT ![t].at = IF @ = "new" THEN "code" ELSE @]
    BY <1>1, <1>4 DEF LoopSwitches
  <2>2. /\ tk' = [tk EXCEPT ![t] = r]
        /\ r.at = "Send" => tk[t].at = "Send"
        /\ r.dir = tk[t].dir /\ r.on = tk[t].on
    BY <1>2, <2>1 DEF TaskletType
  <2>. HIDE DEF r, t
  <2>. QED
    BY <2>1, <2>2, OneNoneJoins
<1>5. CASE LoopEnds(th)
  BY <1>5 DEF LoopEnds, NoneJoins
<1>. QED
  BY <1>3, <1>4, <1>5 DEF Loop

LEMMA CppNoneJoins ==
    ASSUME NEW M, IInv(M), Cpp
    PROVE  NoneJoins
<1>1. ASSUME NEW th \in Threads, Clear(th) PROVE NoneJoins
  <2>1. CASE ClearEnds(th)
    BY <2>1 DEF ClearEnds, NoneJoins
  <2>2. ASSUME NEW t \in Tasklets, ClearKills(th, t) PROVE NoneJoins
    BY <2>2, KilledNoneJoins DEF ClearKills
  <2>. QED
    BY <1>1, <2>1, <2>2 DEF Clear
<1>. QED
  BY <1>1, LoopNoneJoins, RestNoneJoins DEF Cpp

LEMMA SendDeliversNoneJoins ==
    ASSUME IInv(Nat), NEW t \in Tasklets, InPython(t), NEW c \in Channels, NEW m \in Nat,
           SendDelivers(t, c, m)
    PROVE  NoneJoins
<1>. DEFINE p == Head(ch[c].recv)
            next == ch[c].preference = "RECEIVER"
            x == [tk[p] EXCEPT !.blocked = FALSE, !.dir = "NEITHER", !.args = m]
            y == [tk[t] EXCEPT !.on = IF next THEN c ELSE NULL, !.transfer = next]
            tk0 == [tk EXCEPT ![p].blocked = FALSE, ![p].dir = "NEITHER", ![p].args = m,
                              ![t].on = IF next THEN c ELSE NULL, ![t].transfer = next]
<1>1. Running(t)
  BY InPythonRuns
<1>2. p \in Tasklets /\ tk[p].dir = "RECEIVER" /\ tk[p].on = c
  BY FrontWaits DEF SendDelivers, IInv, Meeting
<1>3. Wakes(p, t, tk0, next, "Send.delivered")
  BY DEF SendDelivers
<1>. HIDE DEF p
<1>4. p # t
  BY <1>1, <1>2 DEF Running
<1>5. /\ tk = [u \in Tasklets |-> tk[u]]
      /\ \A u \in Tasklets : tk[u] \in TaskletType(Nat) /\ Sane(tk[u])
  BY DEF IInv, Meeting, TypeOK, TaskletsType, AllSane
<1>6. x \in TaskletType(Nat) /\ x.dir = "NEITHER" /\ x.at = tk[p].at
  BY <1>2, <1>5 DEF TaskletType, Direction
<1>7. next \in BOOLEAN
  OBVIOUS
<1>. HIDE DEF next
<1>8. y \in TaskletType(Nat) /\ y.dir = "NEITHER" /\ y.at = "code"
  BY <1>1, <1>5, <1>7 DEF Running, TaskletType
<1>9. tk0 = [tk EXCEPT ![p] = x, ![t] = y]
  BY <1>2, <1>4, <1>5
<1>. HIDE DEF tk0, x, y
<1>10. /\ tk0 = [u \in Tasklets |-> tk0[u]] /\ tk0[p] = x /\ tk0[t] = y
       /\ \A u \in Tasklets \ {t, p} : tk0[u] = tk[u]
  BY <1>2, <1>4, <1>5, <1>9
<1>11. CASE ~next
  <2>1. tk' = tk0
    BY <1>3, <1>11 DEF Wakes
  <2>. QED
    BY <1>6, <1>8, <1>10, <2>1 DEF NoneJoins
<1>12. CASE next
  <2>. DEFINE z == [y EXCEPT !.at = "Send.delivered", !.again = t \notin Threads]
              tk1 == [tk0 EXCEPT ![t] = z]
  <2>1. z \in TaskletType(Nat) /\ z.dir = "NEITHER" /\ z.at = "Send.delivered"
    BY <1>8 DEF TaskletType, Resting
  <2>2. Marked([tk0 EXCEPT ![t].at = "Send.delivered"], t) = tk1
    BY <1>10 DEF Marked
  <2>3. Yields(Home[t], InsertedToRunNext(p), tk1)
    BY <1>3, <1>12, <2>2, Zenon DEF Wakes
  <2>. HIDE DEF z
  <2>4. tk1 \in TaskletsType(Nat)
    BY <1>5, <1>6, <1>10, <2>1 DEF TaskletsType
  <2>5. tk1[t] = z /\ tk1[p] = x /\ \A u \in Tasklets \ {t, p} : tk1[u] = tk[u]
    BY <1>4, <1>10
  <2>. HIDE DEF tk1
  <2>6. \A u \in Tasklets : /\ tk'[u].at = tk1[u].at
                             /\ tk'[u].dir = tk1[u].dir /\ tk'[u].on = tk1[u].on
    BY <2>3, <2>4, YieldsSame
  <2>. QED
    BY <1>6, <2>1, <2>5, <2>6 DEF NoneJoins
<1>. QED
  BY <1>7, <1>11, <1>12

LEMMA NobodyMoreReceives ==
    ASSUME IInv(Nat), IInv(Nat)', NoneJoins, NEW c \in Channels, ch[c].recv = <<>>
    PROVE  ch'[c].recv = <<>>
<1>. SUFFICES ASSUME ch'[c].recv # <<>> PROVE FALSE
  OBVIOUS
<1>. DEFINE u == Head(ch'[c].recv)
<1>1. ch'[c].recv \in Seq(Tasklets)
  BY DEF IInv, Meeting, B!Kept, B!TypeOK, B!ChannelType
<1>2. u \in Tasklets /\ \E i \in DOMAIN ch'[c].recv : ch'[c].recv[i] = u
  BY <1>1
<1>. HIDE DEF u
<1>3. tk'[u].dir = "RECEIVER" /\ tk'[u].on = c
  BY <1>2 DEF IInv, Meeting, Places, B!In
<1>4. tk[u].dir = "RECEIVER" /\ tk[u].on = c
  BY <1>2, <1>3 DEF NoneJoins
<1>5. \E i \in DOMAIN ch[c].recv : ch[c].recv[i] = u
  BY <1>2, <1>4 DEF IInv, Meeting, Places, B!In
<1>. QED
  BY <1>5

--------------------------------------------------------------------------------
(* Where there is one thread, one tasklet at most is between its look and   *)
(* its act, and nothing else happens.                                       *)

LEMMA OthersPlanNothing ==
    ASSUME OneThread, Plan, NEW t \in Tasklets, cur[Home[t]] = t,
           NEW u \in Tasklets, plan[u] # Nothing
    PROVE  u = t
BY DEF OneThread, Plan, InPython

LEMMA NobodyPlansInPython ==
    ASSUME OneThread, Plan, NEW t \in Tasklets, plan[t] = Nothing, Python(t)
    PROVE  \A u \in Tasklets : plan[u] = Nothing
<1>1. InPython(t)
  BY DEF Python, Setup, Kill, Schedule, Ends, Catch, Close, SetPreference, EndThread, Calls
<1>. QED
  BY <1>1, OthersPlanNothing DEF InPython

LEMMA NobodyPlansInCpp ==
    ASSUME OneThread, Plan, Cpp
    PROVE  \A u \in Tasklets : plan[u] = Nothing
<1>. SUFFICES ASSUME NEW u \in Tasklets, plan[u] # Nothing PROVE FALSE
  OBVIOUS
<1>1. /\ cur[Home[u]] = u /\ tk[u].at = "code" /\ (u = Home[u] => loop[u] = "off")
      /\ u \in Threads => phase[u] = "up"
  BY DEF Plan, InPython
<1>2. ASSUME NEW t \in Tasklets, cur[Home[t]] = t PROVE u = t
  BY <1>2, OthersPlanNothing
<1>3. ASSUME NEW th \in Threads, cur[th] = th PROVE u = th /\ u = Home[u]
  BY <1>2, <1>3, Homes, ThreadsAssumption
<1>4. ASSUME NEW th \in Threads, Loop(th) PROVE FALSE
  BY <1>1, <1>3, <1>4 DEF Loop, LoopSkips, LoopSwitches, LoopEnds, LoopRuns
<1>5. ASSUME NEW th \in Threads, Clear(th) PROVE FALSE
  <2>1. phase[th] = "ending" /\ InPython(th)
    BY <1>5 DEF Clear, ClearKills, ClearEnds, Clearing, InPython
  <2>2. cur[th] = th
    BY <2>1, ThreadsAssumption DEF InPython
  <2>. QED
    BY <1>1, <1>3, <2>1, <2>2
<1>6. ASSUME NEW t \in Tasklets, Rest(t) PROVE FALSE
  <2>1. cur[Home[t]] = t /\ tk[t].at # "code"
    BY <1>6 DEF Rest, SendReturns, SendDeliveredReturns, ReceiveReturns, ReceiveTakenReturns, Resumes
  <2>. QED
    BY <1>1, <1>2, <2>1
<1>. QED
  BY <1>4, <1>5, <1>6 DEF Cpp

--------------------------------------------------------------------------------
(* The steps of QueueChannel. *)

LEMMA GoesOnKeeps ==
    ASSUME IInv(Nat), NEW t \in Tasklets, InPython(t), GoesOn, tk' = tk, ch' = ch
    PROVE  Keeps(Nat)
<1>1. Running(t)
  BY InPythonRuns
<1>2. TypeOK(Nat)' /\ AllSane'
  BY DEF IInv, Meeting, TypeOK, AllSane, GoesOn
<1>3. Meets(Nat)
  BY <1>2, SameChannels DEF IInv
<1>4. NoneKilled' /\ cur[Home[t]] = t /\ phase[Home[t]] # "over"
  BY <1>1 DEF NoneKilled, Running
<1>. QED
  BY <1>1, <1>3, <1>4, GoesOnStep DEF Running

(* Python code that is not of QueueChannel, and the rest of calls. *)
LEMMA ElseKeeps ==
    ASSUME QInv, Keeps(Nat), NoneJoins, \A u \in Tasklets : plan[u] = Nothing, UNCHANGED qvars
    PROVE  QInv'
<1>1. IInv(Nat)'
  BY DEF Keeps
<1>2. \A c \in Channels : ch[c].recv = <<>> => ch'[c].recv = <<>>
  BY <1>1, NobodyMoreReceives DEF QInv
<1>3. QTypeOK'
  BY DEF QInv, QTypeOK, qvars
<1>4. NobodySends'
  BY DEF QInv, NobodySends, NoneJoins
<1>5. NobodyWaitsForQueuedData'
  BY <1>2 DEF QInv, NobodyWaitsForQueuedData, qvars
<1>6. Plan'
  BY DEF Plan, qvars
<1>. QED
  BY <1>1, <1>3, <1>4, <1>5, <1>6 DEF QInv

LEMMA QStutterKeeps ==
    ASSUME QInv, UNCHANGED allvars
    PROVE  QInv'
<1>1. UNCHANGED vars /\ UNCHANGED qvars
  BY DEF allvars
<1>2. IInv(Nat)'
  BY <1>1, StutterKeeps DEF QInv, Keeps
<1>3. QTypeOK' /\ NobodySends' /\ NobodyWaitsForQueuedData'
  BY <1>1 DEF QInv, QTypeOK, NobodySends, NobodyWaitsForQueuedData, vars, qvars
<1>4. Plan'
  BY <1>1 DEF QInv, Plan, Foreseen, Right, InPython, Turn, Closed, vars, qvars
<1>. QED
  BY <1>2, <1>3, <1>4 DEF QInv

(* t looks, and plans what it has seen to be right. *)
LEMMA PlansKeeps ==
    ASSUME OneThread, QInv, NEW t \in Tasklets, InPython(t), t \in Threads => phase[t] = "up",
           NEW p, plan' = [plan EXCEPT ![t] = p], GoesOn, UNCHANGED <<tk, ch, data, handed>>,
           sent' \in Nat, Right(p)
    PROVE  QInv'
<1>1. IInv(Nat)'
  BY GoesOnKeeps DEF QInv, Keeps
<1>2. plan = [u \in Tasklets |-> plan[u]]
  BY DEF QInv, QTypeOK
<1>3. QTypeOK' /\ NobodySends' /\ NobodyWaitsForQueuedData'
  BY <1>2 DEF QInv, QTypeOK, NobodySends, NobodyWaitsForQueuedData
<1>4. cur[Home[t]] = t
  BY DEF InPython
<1>5. \A u \in Tasklets \ {t} : plan'[u] = Nothing
  BY <1>2, <1>4, OthersPlanNothing DEF QInv
<1>6. InPython(t)' /\ (t \in Threads => phase'[t] = "up")
  BY DEF InPython, Turn, GoesOn
<1>7. Foreseen(t)'
  <2>1. plan'[t] = p
    BY <1>2
  <2>. QED
    BY <2>1 DEF Foreseen, Right, Closed
<1>8. Plan'
  BY <1>5, <1>6, <1>7 DEF Plan
<1>. QED
  BY <1>1, <1>3, <1>8 DEF QInv

(* The balance that send() looks at tells whether a receiver waits. *)
LEMMA BalanceTells ==
    ASSUME QInv, NEW c \in Channels
    PROVE  ch[c].balance >= 0 <=> ch[c].recv = <<>>
<1>1. B!Orderly(ch[c])
  BY ChannelFacts DEF QInv, IInv, Meeting
<1>2. \A s \in Seq(Tasklets) : s = <<>> <=> Len(s) = 0
  OBVIOUS
<1>. QED
  BY <1>1, <1>2 DEF B!Orderly, B!ChannelType

LEMMA SendLooksKeeps ==
    ASSUME OneThread, QInv, NEW t \in Tasklets, NEW c \in Channels, SendLooks(t, c)
    PROVE  QInv'
<1>. DEFINE p == [do |-> IF ch[c].balance >= 0 /\ ~ch[c].closing THEN "append" ELSE "send",
                  c |-> c, m |-> sent + 1]
<1>1. /\ InPython(t) /\ (t \in Threads => phase[t] = "up")
      /\ plan' = [plan EXCEPT ![t] = p] /\ GoesOn /\ UNCHANGED <<tk, ch, data, handed>>
      /\ sent' = sent + 1
  BY DEF SendLooks, Plans, Calls
<1>2. sent \in Nat
  BY DEF QInv, QTypeOK
<1>3. Right(p) /\ sent' \in Nat
  BY <1>1, <1>2, BalanceTells DEF Closed, Right
<1>. HIDE DEF p
<1>. QED
  BY <1>1, <1>2, <1>3, PlansKeeps

LEMMA ReceiveLooksKeeps ==
    ASSUME OneThread, QInv, NEW t \in Tasklets, NEW c \in Channels, ReceiveLooks(t, c)
    PROVE  QInv'
<1>. DEFINE p == [do |-> IF data[c] = <<>> THEN "receive" ELSE "popleft", c |-> c]
<1>1. /\ InPython(t) /\ (t \in Threads => phase[t] = "up")
      /\ plan' = [plan EXCEPT ![t] = p] /\ GoesOn /\ UNCHANGED <<tk, ch, data, handed>>
      /\ sent' = sent
  BY DEF ReceiveLooks, Plans, Calls
<1>2. sent \in Nat
  BY DEF QInv, QTypeOK
<1>3. Right(p) /\ sent' \in Nat
  BY <1>1, <1>2 DEF Right
<1>. HIDE DEF p
<1>. QED
  BY <1>1, <1>2, <1>3, PlansKeeps

(* t has done what it had planned. *)
LEMMA DoneKeeps ==
    ASSUME OneThread, QInv, IInv(Nat)', QTypeOK', NobodySends', NobodyWaitsForQueuedData',
           NEW t \in Tasklets, InPython(t), plan' = [plan EXCEPT ![t] = Nothing]
    PROVE  QInv'
<1>1. plan = [u \in Tasklets |-> plan[u]] /\ cur[Home[t]] = t
  BY DEF QInv, QTypeOK, InPython
<1>2. \A u \in Tasklets : plan'[u] = Nothing
  BY <1>1, OthersPlanNothing DEF QInv
<1>. QED
  BY <1>2 DEF QInv, Plan

LEMMA Acts ==
    ASSUME QInv, NEW t \in Tasklets, NEW do, Does(t, do), do # "nothing"
    PROVE  /\ InPython(t) /\ plan' = [plan EXCEPT ![t] = Nothing] /\ sent' = sent
           /\ plan[t].do = do /\ Right(plan[t]) /\ plan[t].c \in Channels
           /\ plan' = [u \in Tasklets |-> plan'[u]]
<1>1. plan[t] # Nothing
  BY DEF Does, Nothing
<1>2. Foreseen(t)
  BY <1>1 DEF QInv, Plan
<1>. QED
  BY <1>2 DEF Does, Foreseen, Right, QInv, QTypeOK

LEMMA SendAppendsKeeps ==
    ASSUME OneThread, QInv, NEW t \in Tasklets, SendAppends(t)
    PROVE  QInv'
<1>. DEFINE c == plan[t].c
<1>1. /\ InPython(t) /\ plan' = [plan EXCEPT ![t] = Nothing] /\ sent' = sent
      /\ plan[t].do = "append" /\ Right(plan[t]) /\ c \in Channels
      /\ plan' = [u \in Tasklets |-> plan'[u]]
  BY Acts DEF SendAppends
<1>2. plan[t].m \in Nat /\ ch[c].recv = <<>>
  BY <1>1 DEF Right
<1>3. /\ data' = [data EXCEPT ![c] = Append(@, plan[t].m)]
      /\ GoesOn /\ tk' = tk /\ ch' = ch /\ handed' = handed
  BY DEF SendAppends
<1>4. IInv(Nat)'
  BY <1>1, <1>3, GoesOnKeeps DEF QInv, Keeps
<1>5. QTypeOK' /\ NobodySends'
  BY <1>1, <1>2, <1>3 DEF QInv, QTypeOK, NobodySends
<1>6. NobodyWaitsForQueuedData'
  BY <1>1, <1>2, <1>3 DEF QInv, QTypeOK, NobodyWaitsForQueuedData
<1>. QED
  BY <1>1, <1>4, <1>5, <1>6, DoneKeeps

LEMMA SendSendsKeeps ==
    ASSUME OneThread, QInv, NEW t \in Tasklets, SendSends(t)
    PROVE  QInv'
<1>. DEFINE c == plan[t].c
            m == plan[t].m
<1>1. /\ InPython(t) /\ plan' = [plan EXCEPT ![t] = Nothing] /\ sent' = sent
      /\ plan[t].do = "send" /\ Right(plan[t]) /\ c \in Channels
      /\ plan' = [u \in Tasklets |-> plan'[u]]
  BY Acts DEF SendSends
<1>2. m \in Nat /\ (ch[c].recv # <<>> \/ Closed(c))
  BY <1>1 DEF Right
<1>3. /\ Send(t, c, m) /\ data' = data
      /\ handed' = IF ch[c].recv # <<>> THEN m ELSE handed
  BY DEF SendSends
<1>4. m # NULL
  BY <1>2, MaxSentAssumption
<1>. HIDE DEF c, m
<1>5. IInv(Nat)'
  BY <1>1, <1>2, <1>3, <1>4, SendKeeps DEF QInv, Keeps
<1>6. NoneJoins
  <2>1. CASE SendRefused(t, c)
    <3>1. tk' = [tk EXCEPT ![t].transfer = TRUE] /\ tk \in [Tasklets -> TaskletType(Nat)]
      BY <2>1 DEF SendRefused, QInv, IInv, Meeting, TypeOK, TaskletsType
    <3>. QED
      BY <3>1 DEF NoneJoins, TaskletType
  <2>2. CASE SendDelivers(t, c, m)
    BY <1>1, <1>2, <2>2, SendDeliversNoneJoins DEF QInv
  <2>. QED
    BY <1>2, <1>3, <2>1, <2>2 DEF Send, SendBlocks
<1>7. QTypeOK' /\ NobodySends'
  BY <1>1, <1>2, <1>3, <1>6 DEF QInv, QTypeOK, NobodySends, NoneJoins
<1>8. NobodyWaitsForQueuedData'
  <2>1. \A d \in Channels : ch[d].recv = <<>> => ch'[d].recv = <<>>
    BY <1>5, <1>6, NobodyMoreReceives DEF QInv
  <2>. QED
    BY <1>3, <2>1 DEF QInv, NobodyWaitsForQueuedData
<1>. QED
  BY <1>1, <1>5, <1>7, <1>8, DoneKeeps

LEMMA ReceiveReceivesKeeps ==
    ASSUME OneThread, QInv, NEW t \in Tasklets, ReceiveReceives(t)
    PROVE  QInv'
<1>. DEFINE c == plan[t].c
<1>1. /\ InPython(t) /\ plan' = [plan EXCEPT ![t] = Nothing] /\ sent' = sent
      /\ plan[t].do = "receive" /\ Right(plan[t]) /\ c \in Channels
      /\ plan' = [u \in Tasklets |-> plan'[u]]
  BY Acts DEF ReceiveReceives
<1>2. data[c] = <<>>
  BY <1>1 DEF Right
<1>3. /\ Receive(t, c) /\ data' = data
      /\ handed' = IF ch[c].send # <<>> THEN tk[Head(ch[c].send)].args ELSE handed
  BY DEF ReceiveReceives
<1>. HIDE DEF c
<1>4. ch[c].send = <<>>
  BY <1>1, FrontWaits DEF QInv, IInv, Meeting, AllSane, Sane, NobodySends
<1>5. IInv(Nat)'
  BY <1>1, <1>3, ReceiveKeeps DEF QInv, Keeps
<1>6. ASSUME ReceiveRefused(t, c) PROVE NobodySends' /\ NobodyWaitsForQueuedData'
  <2>1. tk' = [tk EXCEPT ![t].transfer = FALSE] /\ tk \in [Tasklets -> TaskletType(Nat)] /\ ch' = ch
    BY <1>6 DEF ReceiveRefused, QInv, IInv, Meeting, TypeOK, TaskletsType
  <2>2. NobodySends'
    BY <2>1 DEF QInv, NobodySends, TaskletType
  <2>3. NobodyWaitsForQueuedData'
    BY <1>3, <2>1 DEF QInv, NobodyWaitsForQueuedData
  <2>. QED
    BY <2>2, <2>3
<1>7. ASSUME ReceiveBlocks(t, c) PROVE NobodySends' /\ NobodyWaitsForQueuedData'
  <2>. DEFINE r == [tk[t] EXCEPT !.at = "Receive", !.on = c, !.dir = "RECEIVER",
                                 !.blocked = TRUE, !.transfer = TRUE]
  <2>1. tk \in [Tasklets -> TaskletType(Nat)]
    BY DEF QInv, IInv, Meeting, TypeOK, TaskletsType
  <2>2. [tk EXCEPT ![t].at = "Receive", ![t].on = c, ![t].dir = "RECEIVER",
                   ![t].blocked = TRUE, ![t].transfer = TRUE] = [tk EXCEPT ![t] = r]
    BY <2>1
  <2>3. Yields(Home[t], queue, [tk EXCEPT ![t] = r])
    BY <1>7, <2>2, Zenon DEF ReceiveBlocks
  <2>4. r \in TaskletType(Nat) /\ r.at = "Receive"
    <3>1. tk[t] \in TaskletType(Nat) /\ c \in Channels \cup {NULL}
      BY <1>1, <2>1
    <3>. QED
      BY <3>1 DEF TaskletType, Direction, Resting
  <2>. HIDE DEF r
  <2>. DEFINE tk0 == [tk EXCEPT ![t] = r]
  <2>5. tk0 \in TaskletsType(Nat) /\ \A u \in Tasklets : tk0[u].at = "Send" => tk[u].at = "Send"
    BY <2>1, <2>4 DEF TaskletsType
  <2>6. Yields(Home[t], queue, tk0)
    BY <2>3
  <2>. HIDE DEF tk0
  <2>7. NobodySends'
    BY <2>5, <2>6, YieldsSame DEF QInv, NobodySends
  <2>8. ch' = [ch EXCEPT ![c] = UpdateCloseState(AddTaskletToWaitingToReceive(@, t))]
    BY <1>7 DEF ReceiveBlocks
  <2>9. \A d \in Channels \ {c} : ch'[d] = ch[d]
    BY <2>8, ChannelFacts DEF QInv, IInv, Meeting
  <2>10. NobodyWaitsForQueuedData'
    BY <1>2, <1>3, <2>9 DEF QInv, NobodyWaitsForQueuedData
  <2>. QED
    BY <2>7, <2>10
<1>8. NobodySends' /\ NobodyWaitsForQueuedData'
  BY <1>3, <1>4, <1>6, <1>7 DEF Receive, ReceiveTakes
<1>9. QTypeOK'
  BY <1>1, <1>3, <1>4 DEF QInv, QTypeOK
<1>. QED
  BY <1>1, <1>5, <1>8, <1>9, DoneKeeps

LEMMA ReceivePopsKeeps ==
    ASSUME OneThread, QInv, NEW t \in Tasklets, ReceivePops(t)
    PROVE  QInv'
<1>. DEFINE c == plan[t].c
<1>1. /\ InPython(t) /\ plan' = [plan EXCEPT ![t] = Nothing] /\ sent' = sent
      /\ plan[t].do = "popleft" /\ Right(plan[t]) /\ c \in Channels
      /\ plan' = [u \in Tasklets |-> plan'[u]]
  BY Acts DEF ReceivePops
<1>2. data[c] # <<>>
  BY <1>1 DEF Right
<1>3. /\ handed' = Head(data[c]) /\ data' = [data EXCEPT ![c] = Tail(@)]
      /\ GoesOn /\ tk' = tk /\ ch' = ch
  BY <1>2 DEF ReceivePops
<1>. HIDE DEF c
<1>4. IInv(Nat)'
  BY <1>1, <1>3, GoesOnKeeps DEF QInv, Keeps
<1>5. data \in [Channels -> Seq(Nat)] /\ Head(data[c]) \in Nat /\ Tail(data[c]) \in Seq(Nat)
  BY <1>1, <1>2 DEF QInv, QTypeOK
<1>6. QTypeOK' /\ NobodySends'
  BY <1>1, <1>3, <1>5 DEF QInv, QTypeOK, NobodySends
<1>7. NobodyWaitsForQueuedData'
  BY <1>1, <1>2, <1>3, <1>5 DEF QInv, NobodyWaitsForQueuedData
<1>. QED
  BY <1>1, <1>4, <1>6, <1>7, DoneKeeps

LEMMA QInitKeeps ==
    ASSUME QInit
    PROVE  QInv
<1>. DEFINE b == [InitChannel EXCEPT !.preference = "SENDER"]
<1>1. B!Orderly(b) /\ b.send = <<>> /\ b.recv = <<>>
  <2>1. B!InitChannel = InitChannel /\ B!Orderly(InitChannel)
    BY B!InitChannelOrderly DEF InitChannel, B!InitChannel
  <2>. QED
    BY <2>1 DEF InitChannel, B!Orderly, B!ChannelType, B!Direction
<1>2. InitWith(b)
  BY DEF QInit
<1>. HIDE DEF b
<1>3. IInv(Nat)
  BY <1>1, <1>2, InitKeeps
<1>4. QTypeOK /\ NobodyWaitsForQueuedData /\ Plan
  BY DEF QInit, QTypeOK, NobodyWaitsForQueuedData, Plan
<1>5. NobodySends
  BY DEF QInit, InitWith, NobodySends
<1>. QED
  BY <1>3, <1>4, <1>5 DEF QInv

LEMMA QNextKeeps ==
    ASSUME OneThread, QInv, [QNext]_allvars
    PROVE  QInv'
<1>1. ASSUME NEW t \in Tasklets, Queueing(t) PROVE QInv'
  BY <1>1, SendLooksKeeps, ReceiveLooksKeeps, SendAppendsKeeps, SendSendsKeeps,
     ReceiveReceivesKeeps, ReceivePopsKeeps DEF Queueing
<1>2. ASSUME NEW t \in Tasklets, plan[t] = Nothing, Python(t), UNCHANGED qvars PROVE QInv'
  <2>1. Keeps(Nat) /\ NoneJoins
    BY <1>2, PythonKeeps, PythonNoneJoins DEF QInv
  <2>2. \A u \in Tasklets : plan[u] = Nothing
    BY <1>2, NobodyPlansInPython DEF QInv
  <2>. QED
    BY <1>2, <2>1, <2>2, ElseKeeps
<1>3. ASSUME Cpp, UNCHANGED qvars PROVE QInv'
  <2>1. Keeps(Nat) /\ NoneJoins
    BY <1>3, CppKeeps, CppNoneJoins DEF QInv
  <2>2. \A u \in Tasklets : plan[u] = Nothing
    BY <1>3, NobodyPlansInCpp DEF QInv
  <2>. QED
    BY <1>3, <2>1, <2>2, ElseKeeps
<1>4. ASSUME AllOver, UNCHANGED qvars PROVE QInv'
  BY <1>4, QStutterKeeps DEF AllOver, allvars
<1>. QED
  BY <1>1, <1>2, <1>3, <1>4, QStutterKeeps DEF QNext

--------------------------------------------------------------------------------
(* On one thread, whatever the number of tasklets and channels, and         *)
(* whichever of them are killed or end between two calls, no send waits:    *)
(* the receiver that send() saw is still there when it acts.                *)
THEOREM SendersContinue ==
    ASSUME OneThread
    PROVE  QSpec => []SenderNeverBlocks
<1>1. QInit => QInv
  BY QInitKeeps
<1>2. QInv /\ [QNext]_allvars => QInv'
  BY QNextKeeps
<1>3. QInv => SenderNeverBlocks
  BY DEF QInv, NobodySends, SenderNeverBlocks
<1>. QED
  BY <1>1, <1>2, <1>3, PTL DEF QSpec

(* On one thread nobody waits to receive while there is data for it in the  *)
(* queue: what receive() saw is still so when it acts.                      *)
THEOREM DataIsTaken ==
    ASSUME OneThread
    PROVE  QSpec => []NobodyWaitsForQueuedData
<1>1. QInit => QInv
  BY QInitKeeps
<1>2. QInv /\ [QNext]_allvars => QInv'
  BY QNextKeeps
<1>3. QInv => NobodyWaitsForQueuedData
  BY DEF QInv
<1>. QED
  BY <1>1, <1>2, <1>3, PTL DEF QSpec

--------------------------------------------------------------------------------
(* The order, which is that of one channel. *)

(* All data in the queue were sent after what was handed out, in the order  *)
(* of the queue, and before what is about to be sent.                       *)
Ordered ==
    /\ handed <= sent
    /\ \A c \in Channels : \A i \in DOMAIN data[c] :
          /\ handed < data[c][i] /\ data[c][i] <= sent
          /\ \A j \in DOMAIN data[c] : i < j => data[c][i] < data[c][j]
    /\ \A t \in Tasklets : plan[t].do \in {"append", "send"} =>
          /\ plan[t].m = sent /\ handed < sent
          /\ \A c \in Channels : \A i \in DOMAIN data[c] : data[c][i] < sent

OrderKept == Ordered' /\ handed' >= handed

(* t has done what it had planned: nobody plans to send.                   *)
LEMMA NothingPlanned ==
    ASSUME OneThread, QInv, NEW t \in Tasklets, InPython(t), plan' = [plan EXCEPT ![t] = Nothing]
    PROVE  \A u \in Tasklets : plan'[u].do \notin {"append", "send"}
<1>1. plan = [u \in Tasklets |-> plan[u]] /\ cur[Home[t]] = t
  BY DEF QInv, QTypeOK, InPython
<1>2. \A u \in Tasklets : plan'[u] = Nothing
  BY <1>1, OthersPlanNothing DEF QInv
<1>. QED
  BY <1>2 DEF Nothing

LEMMA LooksInOrder ==
    ASSUME OneThread, QInv, Ordered, NEW t \in Tasklets, NEW c \in Channels,
           SendLooks(t, c) \/ ReceiveLooks(t, c)
    PROVE  OrderKept
<1>1. /\ sent \in Nat /\ handed \in Nat /\ data \in [Channels -> Seq(Nat)]
      /\ plan = [u \in Tasklets |-> plan[u]]
  BY DEF QInv, QTypeOK
<1>2. cur[Home[t]] = t /\ data' = data /\ handed' = handed
  BY DEF SendLooks, ReceiveLooks, Plans, Calls, InPython
<1>3. \A u \in Tasklets \ {t} : plan[u] = Nothing
  BY <1>2, OthersPlanNothing DEF QInv
<1>4. \A d \in Channels : \A i \in DOMAIN data[d] : data[d][i] \in Nat
  BY <1>1
<1>5. CASE SendLooks(t, c)
  <2>. DEFINE p == [do |-> IF ch[c].balance >= 0 /\ ~ch[c].closing THEN "append" ELSE "send",
                    c |-> c, m |-> sent + 1]
  <2>1. sent' = sent + 1 /\ p.m = sent + 1 /\ plan' = [plan EXCEPT ![t] = p]
    BY <1>5 DEF SendLooks, Plans
  <2>. HIDE DEF p
  <2>2. /\ \A u \in Tasklets \ {t} : plan'[u].do = "nothing"
        /\ plan'[t].m = sent'
    BY <1>1, <1>3, <2>1 DEF Nothing
  <2>. QED
    BY <1>1, <1>2, <1>4, <2>1, <2>2 DEF Ordered, OrderKept
<1>6. CASE ReceiveLooks(t, c)
  <2>. DEFINE p == [do |-> IF data[c] = <<>> THEN "receive" ELSE "popleft", c |-> c]
  <2>1. sent' = sent /\ p.do \in {"receive", "popleft"} /\ plan' = [plan EXCEPT ![t] = p]
    BY <1>6 DEF ReceiveLooks, Plans
  <2>. HIDE DEF p
  <2>2. \A u \in Tasklets : plan'[u].do \notin {"append", "send"}
    BY <1>1, <1>3, <2>1 DEF Nothing
  <2>. QED
    BY <1>1, <1>2, <2>1, <2>2 DEF Ordered, OrderKept
<1>. QED
  BY <1>5, <1>6

LEMMA AppendsInOrder ==
    ASSUME OneThread, QInv, Ordered, NEW t \in Tasklets, SendAppends(t)
    PROVE  OrderKept
<1>. DEFINE c == plan[t].c
            m == plan[t].m
<1>1. /\ InPython(t) /\ plan' = [plan EXCEPT ![t] = Nothing] /\ sent' = sent
      /\ plan[t].do = "append" /\ Right(plan[t]) /\ c \in Channels
  BY Acts DEF SendAppends
<1>2. data' = [data EXCEPT ![c] = Append(@, m)] /\ handed' = handed
  BY DEF SendAppends
<1>3. /\ m = sent /\ handed < sent /\ sent \in Nat /\ handed \in Nat
      /\ data \in [Channels -> Seq(Nat)]
      /\ \A d \in Channels : \A i \in DOMAIN data[d] : data[d][i] < sent
  BY <1>1 DEF Ordered, QInv, QTypeOK
<1>4. \A u \in Tasklets : plan'[u].do \notin {"append", "send"}
  BY <1>1, NothingPlanned
<1>. HIDE DEF c, m
<1>5. /\ DOMAIN data'[c] = 1..(Len(data[c]) + 1) /\ DOMAIN data[c] = 1..Len(data[c])
      /\ Len(data[c]) \in Nat
      /\ data'[c][Len(data[c]) + 1] = sent /\ \A i \in 1..Len(data[c]) : data'[c][i] = data[c][i]
      /\ \A d \in Channels \ {c} : data'[d] = data[d]
  BY <1>1, <1>2, <1>3
<1>6. ASSUME NEW d \in Channels, NEW i \in DOMAIN data'[d]
      PROVE  /\ handed < data'[d][i] /\ data'[d][i] <= sent
             /\ \A j \in DOMAIN data'[d] : i < j => data'[d][i] < data'[d][j]
  <2>1. CASE d # c
    BY <1>5, <1>6, <2>1 DEF Ordered
  <2>2. CASE d = c /\ i = Len(data[c]) + 1
    BY <1>3, <1>5, <2>2
  <2>3. CASE d = c /\ i \in 1..Len(data[c])
    <3>1. /\ handed < data[c][i] /\ data[c][i] < sent /\ data'[c][i] = data[c][i]
          /\ data[c][i] \in Nat
          /\ \A j \in 1..Len(data[c]) : i < j => data[c][i] < data[c][j]
      BY <1>1, <1>3, <1>5, <2>3 DEF Ordered
    <3>. QED
      BY <1>3, <1>5, <2>3, <3>1
  <2>. QED
    BY <1>5, <1>6, <2>1, <2>2, <2>3
<1>. QED
  BY <1>1, <1>2, <1>3, <1>4, <1>6 DEF Ordered, OrderKept

LEMMA SendsInOrder ==
    ASSUME OneThread, OneChannel, QInv, Ordered, NEW t \in Tasklets, SendSends(t)
    PROVE  OrderKept
<1>. DEFINE c == plan[t].c
            m == plan[t].m
<1>1. /\ InPython(t) /\ plan' = [plan EXCEPT ![t] = Nothing] /\ sent' = sent
      /\ plan[t].do = "send" /\ Right(plan[t]) /\ c \in Channels
  BY Acts DEF SendSends
<1>2. data' = data /\ handed' = IF ch[c].recv # <<>> THEN m ELSE handed
  BY DEF SendSends
<1>3. m = sent /\ handed < sent /\ sent \in Nat /\ handed \in Nat
  BY <1>1 DEF Ordered, QInv, QTypeOK
<1>4. \A u \in Tasklets : plan'[u].do \notin {"append", "send"}
  BY <1>1, NothingPlanned
<1>. HIDE DEF c, m
<1>5. CASE ch[c].recv = <<>>
  BY <1>1, <1>2, <1>3, <1>4, <1>5 DEF Ordered, OrderKept
<1>6. CASE ch[c].recv # <<>>
  <2>1. \A d \in Channels : data[d] = <<>>
    BY <1>1, <1>6 DEF OneChannel, QInv, NobodyWaitsForQueuedData
  <2>. QED
    BY <1>1, <1>2, <1>3, <1>4, <1>6, <2>1 DEF Ordered, OrderKept
<1>. QED
  BY <1>5, <1>6

LEMMA PopsInOrder ==
    ASSUME OneThread, OneChannel, QInv, Ordered, NEW t \in Tasklets, ReceivePops(t)
    PROVE  OrderKept
<1>. DEFINE c == plan[t].c
<1>1. /\ InPython(t) /\ plan' = [plan EXCEPT ![t] = Nothing] /\ sent' = sent
      /\ plan[t].do = "popleft" /\ Right(plan[t]) /\ c \in Channels
  BY Acts DEF ReceivePops
<1>2. data[c] # <<>>
  BY <1>1 DEF Right
<1>3. handed' = Head(data[c]) /\ data' = [data EXCEPT ![c] = Tail(@)]
  BY <1>2 DEF ReceivePops
<1>4. sent \in Nat /\ handed \in Nat /\ data \in [Channels -> Seq(Nat)]
  BY DEF QInv, QTypeOK
<1>5. \A u \in Tasklets : plan'[u].do \notin {"append", "send"}
  BY <1>1, NothingPlanned
<1>. HIDE DEF c
<1>6. /\ Len(data[c]) \in Nat /\ DOMAIN data[c] = 1..Len(data[c]) /\ 1 \in DOMAIN data[c]
      /\ Head(data[c]) = data[c][1] /\ DOMAIN data'[c] = 1..(Len(data[c]) - 1)
      /\ \A i \in 1..(Len(data[c]) - 1) : data'[c][i] = data[c][i + 1]
  BY <1>1, <1>2, <1>3, <1>4
<1>7. handed < handed' /\ handed' <= sent /\ handed' \in Nat
  BY <1>1, <1>3, <1>4, <1>6 DEF Ordered
<1>8. ASSUME NEW d \in Channels, NEW i \in DOMAIN data'[d]
      PROVE  /\ handed' < data'[d][i] /\ data'[d][i] <= sent
             /\ \A j \in DOMAIN data'[d] : i < j => data'[d][i] < data'[d][j]
  <2>1. d = c
    BY <1>1 DEF OneChannel
  <2>2. /\ i \in 1..(Len(data[c]) - 1) /\ i + 1 \in DOMAIN data[c] /\ 1 < i + 1
        /\ data'[d][i] = data[c][i + 1]
    BY <1>6, <1>8, <2>1
  <2>3. data[c][1] < data[c][i + 1] /\ data[c][i + 1] <= sent
    BY <1>1, <1>6, <2>2 DEF Ordered
  <2>4. ASSUME NEW j \in DOMAIN data'[d], i < j PROVE data'[d][i] < data'[d][j]
    <3>1. j + 1 \in DOMAIN data[c] /\ i + 1 < j + 1 /\ data'[d][j] = data[c][j + 1]
      BY <1>6, <2>1, <2>2, <2>4
    <3>. QED
      BY <1>1, <2>2, <3>1 DEF Ordered
  <2>. QED
    BY <1>3, <1>6, <2>2, <2>3, <2>4
<1>. QED
  BY <1>1, <1>4, <1>5, <1>7, <1>8 DEF Ordered, OrderKept

LEMMA ReceivesInOrder ==
    ASSUME OneThread, QInv, Ordered, NEW t \in Tasklets, ReceiveReceives(t)
    PROVE  OrderKept
<1>. DEFINE c == plan[t].c
<1>1. /\ InPython(t) /\ plan' = [plan EXCEPT ![t] = Nothing] /\ sent' = sent
      /\ c \in Channels
  BY Acts DEF ReceiveReceives
<1>2. /\ data' = data
      /\ handed' = IF ch[c].send # <<>> THEN tk[Head(ch[c].send)].args ELSE handed
  BY DEF ReceiveReceives
<1>. HIDE DEF c
<1>3. ch[c].send = <<>>
  BY <1>1, FrontWaits DEF QInv, IInv, Meeting, AllSane, Sane, NobodySends
<1>4. \A u \in Tasklets : plan'[u].do \notin {"append", "send"}
  BY <1>1, NothingPlanned
<1>. QED
  BY <1>1, <1>2, <1>3, <1>4 DEF QInv, QTypeOK, Ordered, OrderKept

(* Receivers are given what was sent in the order in which it was sent,     *)
(* through the queue or past it, where one thread uses the channel.         *)
THEOREM DataInOrder ==
    ASSUME OneThread, OneChannel
    PROVE  QSpec => InOrder
<1>1. QInit => QInv /\ Ordered
  BY QInitKeeps DEF QInit, Ordered, Nothing
<1>2. ASSUME QInv, Ordered, [QNext]_allvars PROVE OrderKept
  <2>1. CASE UNCHANGED qvars
    BY <1>2, <2>1 DEF QInv, QTypeOK, Ordered, OrderKept, qvars
  <2>2. ASSUME NEW t \in Tasklets, Queueing(t) PROVE OrderKept
    BY <1>2, <2>2, LooksInOrder, AppendsInOrder, SendsInOrder, ReceivesInOrder, PopsInOrder DEF Queueing
  <2>. QED
    BY <1>2, <2>1, <2>2 DEF QNext, allvars
<1>3. QInv /\ Ordered /\ [QNext]_allvars => QInv' /\ Ordered' /\ [handed' >= handed]_allvars
  BY <1>2, QNextKeeps DEF OrderKept
<1>. QED
  BY <1>1, <1>3, PTL DEF QSpec, InOrder
================================================================================
