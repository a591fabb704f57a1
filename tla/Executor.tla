------------------------------ MODULE Executor ------------------------------
(***************************************************************************)
(* The single-threaded executors of the repository: on Linux an epoll      *)
(* instance (EpollSingleThreadedExecutor), on BSD and MacOS a kqueue       *)
(* (KqueueSingleThreadedExecutor).  A callback that waits for a descriptor *)
(* is an AwaitableNode; the kernel keeps a pointer to it in its table of   *)
(* interests, and pollAwaitableResourcesFor schedules the nodes the kernel *)
(* reports.                                                                *)
(*                                                                         *)
(* An executor is a record, and every operation is a function from record  *)
(* to record, so that a handler may apply several of them in one step:     *)
(*   platform  "epoll" or "kqueue", fixed when the program is built;       *)
(*   node      the AwaitableNode of every name: fd_ and events_ ;          *)
(*   total     total_awaitables_ ;                                         *)
(*   interest  the kernel's table: descriptor, event mask or filter, and   *)
(*             the pointer given with it;                                  *)
(*   active    the kernel's list of interests to look at in the next wait; *)
(*   due       the nodes scheduled, in the order they will run.            *)
(* A pointer is a name and a place: "temp" is the node on the stack of     *)
(* registerAwaitableCallback, "owned" the one moved into the Callback::Any *)
(* its caller keeps.                                                       *)
(***************************************************************************)
EXTENDS Integers, Sequences, FiniteSets, SequencesExt

CONSTANTS MaxEvents,  \* size of the array of events (MaxEpollEvents, MaxEvents)
          Names       \* the callbacks of the process

ASSUME MaxEventsAssumption == MaxEvents \in Nat \ {0}

EPOLLIN == 1
EPOLLOUT == 4
EVFILT_READ == -1
EVFILT_WRITE == -2
EVFILT_VNODE == -4

NoNode == [fd |-> -1, events |-> 0]

NewExecutor(platform) ==
  [platform |-> platform, node |-> [n \in Names |-> NoNode], total |-> 0,
   interest |-> {}, active |-> <<>>, due |-> <<>>]

Temp(n) == <<n, "temp">>
Owned(n) == <<n, "owned">>
---------------------------------------------------------------------------
(* The kernel.  Its results are never looked at by the code, so a call     *)
(* that fails leaves the executor as it was.                               *)

Activate(active, key) ==
  IF key \in ToSet(active) THEN active ELSE Append(active, key)

(* The elements of a sequence that are in a set.                           *)
Keep(s, K) ==
  LET kept[k \in 0..Len(s)] ==
        IF k = 0 THEN <<>>
        ELSE IF s[k] \in K THEN Append(kept[k - 1], s[k])
        ELSE kept[k - 1]
  IN  kept[Len(s)]

Deactivate(active, keys) == Keep(active, ToSet(active) \ keys)

Key(r) == <<r.fd, r.events>>

Forget(e, gone) ==
  [e EXCEPT !.interest = @ \ gone, !.active = Deactivate(@, {Key(r) : r \in gone})]

Watch(e, r) ==
  [e EXCEPT !.interest = @ \cup {r}, !.active = Activate(@, Key(r))]

(* epoll knows a descriptor once, whatever events are asked for: a second  *)
(* EPOLL_CTL_ADD is EEXIST.                                                *)
OfFd(e, fd) == {r \in e.interest : r.fd = fd}
CtlAdd(e, r) == IF OfFd(e, r.fd) # {} THEN e ELSE Watch(e, r)
CtlMod(e, r) == IF OfFd(e, r.fd) = {} THEN e ELSE Watch(Forget(e, OfFd(e, r.fd)), r)
CtlDel(e, fd) == Forget(e, OfFd(e, fd))

(* kqueue knows pairs of a descriptor and a filter; a second EV_ADD of the *)
(* same pair replaces the pointer.                                         *)
OfPair(e, fd, filter) == {r \in OfFd(e, fd) : r.events = filter}
EvAdd(e, r) == Watch(Forget(e, OfPair(e, r.fd, r.events)), r)
EvDelete(e, fd, filter) == Forget(e, OfPair(e, fd, filter))

(* close() of a descriptor that was never duplicated ends every interest   *)
(* in it.                                                                  *)
Close(e, fd) == Forget(e, OfFd(e, fd))

(* Something to read arrived on a descriptor: an interest in that is       *)
(* looked at in the next wait.                                             *)
Arrived(e, fd) ==
  LET key == <<fd, IF e.platform = "epoll" THEN EPOLLIN ELSE EVFILT_READ>>
  IN  IF key \in {Key(r) : r \in e.interest}
        THEN [e EXCEPT !.active = Activate(@, key)]
        ELSE e

(* What one wait reports: the first interests on the list that really are  *)
(* ready.  Level-triggered epoll puts them back at the end of the list;    *)
(* with EV_CLEAR the kernel forgets that it was ready until something new  *)
(* arrives.                                                                *)
Reported(e, ready) ==
  LET waiting == Keep(e.active, ready)
      k == IF Len(waiting) < MaxEvents THEN Len(waiting) ELSE MaxEvents
  IN  [evs |-> SubSeq(waiting, 1, k), rest |-> SubSeq(waiting, k + 1, Len(waiting))]

AfterEpollWait(rep) == rep.rest \o rep.evs
AfterKevent(rep) == rep.rest
---------------------------------------------------------------------------
(* AwaitableNode of the epoll executor.                                    *)

EpollTrigger(trigger) == IF trigger = "Readable" THEN EPOLLIN ELSE EPOLLOUT

EpollSetup(e, n, fd, events) ==
  CtlAdd([e EXCEPT !.node[n] = [fd |-> fd, events |-> events], !.total = @ + 1],
         [fd |-> fd, events |-> events, ptr |-> Temp(n)])

(* The move constructor takes the descriptor out of the other node, whose  *)
(* destructor therefore does nothing, and tells the kernel the new place.  *)
EpollMove(e, n) ==
  CtlMod(e, [fd |-> e.node[n].fd, events |-> e.node[n].events, ptr |-> Owned(n)])

(* The destructor; CallbackNode's takes the node off the schedule.         *)
EpollDestroy(e, n) ==
  IF e.node[n].fd < 0 THEN e
  ELSE CtlDel([e EXCEPT !.node[n] = NoNode, !.total = @ - 1,
                        !.due = Keep(@, Names \ {n})],
              e.node[n].fd)

(* AwaitableNode of the kqueue executor.  EVFILT_VNODE is or-ed into the   *)
(* filter; in two's complement that keeps the two lowest bits, which leaves*)
(* EVFILT_READ and EVFILT_WRITE as they are.                               *)

KqueueTrigger(trigger) == IF trigger = "Readable" THEN EVFILT_READ ELSE EVFILT_WRITE

OrVnode(filter) == EVFILT_VNODE + (filter % 4)

KqueueSetup(e, n, fd, events) ==
  EvAdd([e EXCEPT !.node[n] = [fd |-> fd, events |-> OrVnode(events)], !.total = @ + 1],
        [fd |-> fd, events |-> OrVnode(events), ptr |-> Temp(n)])

KqueueMove(e, n) ==
  EvAdd(EvDelete(e, e.node[n].fd, e.node[n].events),
        [fd |-> e.node[n].fd, events |-> e.node[n].events, ptr |-> Owned(n)])

KqueueDestroy(e, n) ==
  IF e.node[n].fd < 0 THEN e
  ELSE EvDelete([e EXCEPT !.node[n] = NoNode, !.total = @ - 1,
                          !.due = Keep(@, Names \ {n})],
                e.node[n].fd, e.node[n].events)
---------------------------------------------------------------------------
(* The two executors behind IPosixExecutorExtension (SingleThreadedExecutor *)
(* of defines.hpp is one or the other).                                    *)

EpollRegister(e, n, fd, trigger) ==
  EpollMove(EpollSetup(e, n, fd, EpollTrigger(trigger)), n)

KqueueRegister(e, n, fd, trigger) ==
  KqueueMove(KqueueSetup(e, n, fd, KqueueTrigger(trigger)), n)

RegisterAwaitableCallback(e, n, fd, trigger) ==
  IF e.platform = "epoll" THEN EpollRegister(e, n, fd, trigger)
  ELSE KqueueRegister(e, n, fd, trigger)

MutDestroyKeepsTotal(e, n) ==  \* mutant: not counted down
  [EpollDestroy(e, n) EXCEPT !.total = e.total]

(* Callback::Any::reset.                                                   *)
Reset(e, n) == IF e.platform = "epoll" THEN EpollDestroy(e, n) ELSE KqueueDestroy(e, n)

(* Every event schedules the node its pointer leads to, once, now.         *)
ScheduleNow(due, n) == Append(Keep(due, Names \ {n}), n)

Schedule(e, evs) ==
  LET at(k) == {r \in e.interest : Key(r) = evs[k]}
      due[k \in 0..Len(evs)] ==
        IF k = 0 THEN e.due
        ELSE IF at(k) = {} THEN due[k - 1]
        ELSE ScheduleNow(due[k - 1], (CHOOSE r \in at(k) : TRUE).ptr[1])
  IN  [e EXCEPT !.due = due[Len(evs)]]

(* pollAwaitableResourcesFor, with what the wait reports.  Without         *)
(* awaitables it only sleeps; a failed or timed out wait changes nothing.  *)
MutEdgeTriggered(e, rep) ==  \* mutant: EPOLLET
  Schedule([e EXCEPT !.active = AfterKevent(rep)], rep.evs)

EpollPoll(e, rep) == Schedule([e EXCEPT !.active = AfterEpollWait(rep)], rep.evs)

KqueuePoll(e, rep) == Schedule([e EXCEPT !.active = AfterKevent(rep)], rep.evs)

PollAwaitableResources(e, rep) ==
  IF e.total = 0 THEN e
  ELSE IF e.platform = "epoll" THEN EpollPoll(e, rep) ELSE KqueuePoll(e, rep)

(* spinOnce takes the first callback that is due and runs it.              *)
Taken(e) == [e EXCEPT !.due = Tail(@)]

=============================================================================
