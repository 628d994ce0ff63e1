------------------------------ MODULE RteTimer ------------------------------
(***************************************************************************)
(* The timers of librte_timer. Every lcore has a list of pending timers,   *)
(* in order of expiry, under a lock; any lcore may start or stop any timer *)
(* while its owner runs rte_timer_manage. A skip list is the sequence of   *)
(* its lowest level. A timer is passed on by its status word alone: each   *)
(* write of it, and each critical section of a list, is a step.            *)
(***************************************************************************)
EXTENDS Integers, Sequences, SequencesExt

CONSTANTS
  Lcores, Timers,
  NoOne,     \* RTE_TIMER_NO_OWNER, a free lock, no running timer
  Ticks,     \* ticks the application asks for
  Types,     \* of "SINGLE", "PERIODICAL"
  Ops,       \* of "reset", "stop": what the application calls
  Sync,      \* TRUE: the calls that loop until they succeed
  MaxTime,   \* bound on the time stamp counter
  MaxCalls   \* bound on the calls of the application

ASSUME TimerAssumption ==
  /\ NoOne \notin Lcores \cup Timers
  /\ Ticks \subseteq Nat /\ Types \subseteq {"SINGLE", "PERIODICAL"}
  /\ Ops \subseteq {"reset", "stop"} /\ Sync \subseteq BOOLEAN
  /\ MaxTime \in Nat /\ MaxCalls \in Nat

VARIABLES
  time,    \* rte_get_timer_cycles()
  timer,   \* the timers: expire, period, state and owner
  list,    \* pending_head.sl_next[0] and what follows, of each lcore
  first,   \* pending_head.expire of each lcore
  lock,    \* list_lock of each lcore: who has it
  call,    \* for each lcore, its call of rte_timer_reset or rte_timer_stop
  mgr,     \* for each lcore, its call of rte_timer_manage
  calls    \* calls of the application so far

vars == <<time, timer, list, first, lock, call, mgr, calls>>

NoCall == [pc |-> "idle", op |-> "stop", tim |-> NoOne, ticks |-> 0, expire |-> 0,
           period |-> 0, target |-> NoOne, sync |-> FALSE, locked |-> FALSE,
           owner |-> NoOne]

(* run: the expired timers, of which the first i - 1 are marked running;   *)
(* running: running_tim.                                                   *)
NoMgr == [pc |-> "out", now |-> 0, run |-> << >>, i |-> 1, running |-> NoOne,
          updated |-> FALSE]

(* rte_timer_subsystem_init and rte_timer_init of every timer. *)
Init ==
  /\ time = 1 /\ calls = 0
  /\ timer = [t \in Timers |-> [expire |-> 0, period |-> 0, state |-> "STOP", owner |-> NoOne]]
  /\ list = [l \in Lcores |-> << >>]
  /\ first = [l \in Lcores |-> 0]
  /\ lock = [l \in Lcores |-> NoOne]
  /\ call = [l \in Lcores |-> NoCall]
  /\ mgr = [l \in Lcores |-> NoMgr]

Tick == time < MaxTime /\ time' = time + 1
        /\ UNCHANGED <<timer, list, first, lock, call, mgr, calls>>

FirstOf(s, tm) == IF s = << >> THEN 0 ELSE tm[s[1]].expire
Status(t, state, owner) == [timer EXCEPT ![t].state = state, ![t].owner = owner]

-----------------------------------------------------------------------------
(* rte_timer_reset, rte_timer_stop and their _sync forms, from the main    *)
(* loop of an lcore or from a callback. The target is an enabled lcore:    *)
(* for another one rte_timer_reset returns at once.                        *)

Begin(l) ==
  /\ call[l].pc = "idle" /\ mgr[l].pc \in {"out", "callback"}
  /\ calls < MaxCalls /\ calls' = calls + 1
  /\ \E op \in Ops, t \in Timers, ticks \in Ticks, type \in Types, target \in Lcores, sync \in Sync :
       call' = [call EXCEPT ![l] =
         IF op = "stop" THEN [NoCall EXCEPT !.pc = "config", !.tim = t, !.sync = sync]
         ELSE [NoCall EXCEPT !.pc = "config", !.op = "reset", !.tim = t, !.ticks = ticks,
                             !.expire = time + ticks, !.target = target, !.sync = sync,
                             !.period = IF type = "PERIODICAL" THEN ticks ELSE 0]]
  /\ UNCHANGED <<time, timer, list, first, lock, mgr>>

(* The call returns. One made by rte_timer_manage itself had the lock. *)
Returns(l) ==
  /\ call' = [call EXCEPT ![l] = NoCall]
  /\ IF call[l].locked
     THEN /\ lock' = [lock EXCEPT ![l] = NoOne]
          /\ mgr' = [mgr EXCEPT ![l].pc = "next"]
     ELSE UNCHANGED <<lock, mgr>>

(* Mutant of Busy: a timer that runs on another lcore may be configured. *)
BusyLocal(l, t) ==
  \/ timer[t].state = "RUNNING" /\ timer[t].owner = l /\ t # mgr[l].running
  \/ timer[t].state = "CONFIG"

(* Mutant of Busy: an expired timer that waits for its callback may be     *)
(* configured by the lcore that will run it.                               *)
BusyElsewhere(l, t) ==
  \/ timer[t].state = "RUNNING" /\ timer[t].owner # l
  \/ timer[t].state = "CONFIG"

(* timer_set_config_state returns -1. *)
Busy(l, t) ==
  \/ timer[t].state = "RUNNING" /\ (timer[t].owner # l \/ t # mgr[l].running)
  \/ timer[t].state = "CONFIG"

(* timer_set_config_state: the compare and set, or the failure of the      *)
(* call, which a _sync function repeats.                                   *)
SetConfig(l) ==
  LET c == call[l]
      t == c.tim
  IN /\ c.pc = "config"
     /\ \/ /\ Busy(l, t) /\ c.sync
           /\ call' = [call EXCEPT ![l].expire = IF c.op = "reset" THEN time + c.ticks ELSE 0]
           /\ UNCHANGED <<timer, lock, mgr>>
        \/ /\ Busy(l, t) /\ ~c.sync
           /\ Returns(l)
           /\ UNCHANGED timer
        \/ /\ ~Busy(l, t)
           /\ timer' = Status(t, "CONFIG", l)
           /\ mgr' = IF timer[t].state = "RUNNING" THEN [mgr EXCEPT ![l].updated = TRUE] ELSE mgr
           /\ call' = [call EXCEPT ![l].owner = timer[t].owner,
                ![l].pc = IF timer[t].state = "PENDING" THEN "del"
                          ELSE IF c.op = "stop" THEN "done" ELSE "add"]
           /\ UNCHANGED lock
     /\ UNCHANGED <<time, list, first, calls>>

(* Mutant of MayLock: the list of another lcore is changed without its lock. *)
MayLockAlways(l, o) == TRUE

(* The lock is free, or it is held and not taken again. *)
MayLock(l, o) == IF o = l /\ call[l].locked THEN lock[o] = l ELSE lock[o] = NoOne

(* timer_del *)
Delete(l) ==
  LET t == call[l].tim
      o == call[l].owner
      rest == RemoveFirst(list[o], t)
  IN /\ call[l].pc = "del" /\ MayLock(l, o)
     /\ list' = [list EXCEPT ![o] = rest]
     /\ first' = IF list[o] # << >> /\ list[o][1] = t
                 THEN [first EXCEPT ![o] = FirstOf(rest, timer)] ELSE first
     /\ call' = [call EXCEPT ![l].pc = IF call[l].op = "stop" THEN "done" ELSE "add"]
     /\ UNCHANGED <<time, timer, lock, mgr, calls>>

(* The place of the first timer that expires later, or 0. *)
Later(s, expire) == SelectInSeq(s, LAMBDA x : timer[x].expire > expire)

(* Mutant of Place: a timer is added behind all others. *)
PlaceLast(s, expire) == Len(s) + 1

(* timer_get_prev_entries: behind those that expire no later. *)
Place(s, expire) == IF Later(s, expire) = 0 THEN Len(s) + 1 ELSE Later(s, expire)

(* Mutant of Add: the reload of a periodical timer does not link it. *)
AddNotReloaded(l) ==
  LET c == call[l]
      new == InsertAt(list[c.target], Place(list[c.target], c.expire), c.tim)
  IN /\ c.pc = "add" /\ MayLock(l, c.target)
     /\ timer' = [timer EXCEPT ![c.tim].expire = c.expire, ![c.tim].period = c.period]
     /\ list' = IF c.locked THEN list ELSE [list EXCEPT ![c.target] = new]
     /\ first' = [first EXCEPT ![c.target] = FirstOf(list'[c.target], timer')]
     /\ call' = [call EXCEPT ![l].pc = "done"]
     /\ UNCHANGED <<time, lock, mgr, calls>>

(* The fields are set, then timer_add. Nobody reads the fields before the  *)
(* timer is linked: its status is CONFIG and it is in no list.             *)
Add(l) ==
  LET c == call[l]
      o == c.target
      tm == [timer EXCEPT ![c.tim].expire = c.expire, ![c.tim].period = c.period]
      new == InsertAt(list[o], Place(list[o], c.expire), c.tim)
  IN /\ c.pc = "add" /\ MayLock(l, o)
     /\ timer' = tm
     /\ list' = [list EXCEPT ![o] = new]
     /\ first' = [first EXCEPT ![o] = FirstOf(new, tm)]
     /\ call' = [call EXCEPT ![l].pc = "done"]
     /\ UNCHANGED <<time, lock, mgr, calls>>

(* The new status is written and the call returns. *)
Done(l) ==
  LET c == call[l] IN
  /\ c.pc = "done"
  /\ timer' = IF c.op = "stop" THEN Status(c.tim, "STOP", NoOne)
                               ELSE Status(c.tim, "PENDING", c.target)
  /\ Returns(l)
  /\ UNCHANGED <<time, list, first, calls>>

-----------------------------------------------------------------------------
(* rte_timer_manage *)

Manage(l) ==
  /\ call[l].pc = "idle" /\ mgr[l].pc = "out"
  /\ list[l] # << >>
  /\ mgr' = [mgr EXCEPT ![l].pc = "check", ![l].now = time]
  /\ UNCHANGED <<time, timer, list, first, lock, call, calls>>

(* The quick check, outside the lock. *)
ManageCheck(l) ==
  /\ mgr[l].pc = "check"
  /\ mgr' = [mgr EXCEPT ![l] = IF first[l] > mgr[l].now THEN NoMgr ELSE [@ EXCEPT !.pc = "cut"]]
  /\ UNCHANGED <<time, timer, list, first, lock, call, calls>>

(* Mutant of Expired: those that expire with the next cycle are taken too. *)
ExpiredAndFirst(l) == Place(list[l], mgr[l].now + 1) - 1

(* How many timers of the list have expired. *)
Expired(l) == Place(list[l], mgr[l].now) - 1

(* Mutant of Unexpired: the first of them is lost. *)
UnexpiredButFirst(l, n) == SubSeq(list[l], n + 2, Len(list[l]))

Unexpired(l, n) == SubSeq(list[l], n + 1, Len(list[l]))

(* The list is broken at the current time; the lock stays held. *)
ManageCut(l) ==
  LET n == Expired(l) IN
  /\ mgr[l].pc = "cut" /\ lock[l] = NoOne
  /\ IF n = 0
     THEN mgr' = [mgr EXCEPT ![l] = NoMgr] /\ UNCHANGED <<list, lock>>
     ELSE /\ mgr' = [mgr EXCEPT ![l].pc = "mark", ![l].run = SubSeq(list[l], 1, n)]
          /\ list' = [list EXCEPT ![l] = Unexpired(l, n)]
          /\ lock' = [lock EXCEPT ![l] = l]
  /\ UNCHANGED <<time, timer, first, call, calls>>

(* timer_set_running_state of the next expired timer: one that is being    *)
(* configured leaves the run list.                                         *)
MarkRunning(l) ==
  LET i == mgr[l].i
      t == mgr[l].run[i]
  IN /\ mgr[l].pc = "mark" /\ i <= Len(mgr[l].run)
     /\ IF timer[t].state = "PENDING"
        THEN timer' = Status(t, "RUNNING", l) /\ mgr' = [mgr EXCEPT ![l].i = i + 1]
        ELSE mgr' = [mgr EXCEPT ![l].run = RemoveAt(@, i)] /\ UNCHANGED timer
     /\ UNCHANGED <<time, list, first, lock, call, calls>>

ManageUnlock(l) ==
  /\ mgr[l].pc = "mark" /\ mgr[l].i > Len(mgr[l].run)
  /\ first' = [first EXCEPT ![l] = FirstOf(list[l], timer)]
  /\ lock' = [lock EXCEPT ![l] = NoOne]
  /\ mgr' = [mgr EXCEPT ![l].pc = "next"]
  /\ UNCHANGED <<time, timer, list, call, calls>>

(* The callback of the next timer begins; it may make calls. *)
Callback(l) ==
  /\ mgr[l].pc = "next" /\ mgr[l].run # << >>
  /\ mgr' = [mgr EXCEPT ![l].pc = "callback", ![l].updated = FALSE,
                        ![l].running = mgr[l].run[1], ![l].run = Tail(@)]
  /\ UNCHANGED <<time, timer, list, first, lock, call, calls>>

ManageEnd(l) ==
  /\ mgr[l].pc = "next" /\ mgr[l].run = << >>
  /\ mgr' = [mgr EXCEPT ![l] = NoMgr]
  /\ UNCHANGED <<time, timer, list, first, lock, call, calls>>

(* After the callback: nothing if it configured its timer, the end of a    *)
(* single one, or the reload of a periodical one under the lock.           *)
CallbackEnd(l) ==
  LET t == mgr[l].running IN
  /\ mgr[l].pc = "callback" /\ call[l].pc = "idle"
  /\ \/ /\ mgr[l].updated
        /\ mgr' = [mgr EXCEPT ![l].pc = "next"]
        /\ UNCHANGED <<timer, lock, call>>
     \/ /\ ~mgr[l].updated /\ timer[t].period = 0
        /\ timer' = Status(t, "STOP", NoOne)
        /\ mgr' = [mgr EXCEPT ![l].pc = "next"]
        /\ UNCHANGED <<lock, call>>
     \/ /\ ~mgr[l].updated /\ timer[t].period # 0
        /\ lock[l] = NoOne /\ lock' = [lock EXCEPT ![l] = l]
        /\ timer' = Status(t, "PENDING", l)
        /\ mgr' = [mgr EXCEPT ![l].pc = "reload"]
        /\ call' = [call EXCEPT ![l] =
             [NoCall EXCEPT !.pc = "config", !.op = "reset", !.tim = t, !.target = l,
                            !.expire = timer[t].expire + timer[t].period,
                            !.period = timer[t].period, !.locked = TRUE]]
  /\ UNCHANGED <<time, list, first, calls>>

-----------------------------------------------------------------------------
CallStep(l) == SetConfig(l) \/ Delete(l) \/ Add(l) \/ Done(l)

ManageStep(l) ==
  \/ Manage(l) \/ ManageCheck(l) \/ ManageCut(l) \/ MarkRunning(l)
  \/ ManageUnlock(l) \/ Callback(l) \/ CallbackEnd(l) \/ ManageEnd(l)

Next == Tick \/ \E l \in Lcores : Begin(l) \/ CallStep(l) \/ ManageStep(l)

Spec == Init /\ [][Next]_vars

-----------------------------------------------------------------------------
(* The timers linked by an lcore: those of its list of pending timers and  *)
(* the expired ones that its manager is still to run.                      *)
Held(l) == Range(list[l]) \cup Range(mgr[l].run)

(* A timer is in one list at most, and there once: a list of pending       *)
(* timers or the expired ones of a manager. Two lcores never link the same *)
(* node, so neither follows pointers the other writes, nor do they run the *)
(* same callback.                                                          *)
LinkedOnce ==
  \A l \in Lcores :
    /\ IsInjective(list[l]) /\ IsInjective(mgr[l].run)
    /\ Range(list[l]) \cap Range(mgr[l].run) = {}
    /\ \A k \in Lcores \ {l} : Held(l) \cap Held(k) = {}

(* The expired timers that a manager has marked. *)
Ready(l) ==
  IF mgr[l].pc = "mark" THEN {mgr[l].run[j] : j \in 1..mgr[l].i - 1} ELSE Range(mgr[l].run)

Runs(t, l) == timer[t].state = "RUNNING" /\ timer[t].owner = l

(* A timer whose status says it runs on an lcore is its current one or one *)
(* it is still to run, and those it is still to run say so.                *)
RunningOwned ==
  \A t \in Timers, l \in Lcores :
    /\ t \in Ready(l) => Runs(t, l)
    /\ Runs(t, l) => t \in Ready(l) \/ t = mgr[l].running

(* Every list is in order of expiry, and the value of the quick check is   *)
(* the first timer's whenever the list is not being changed.               *)
ListOrdered ==
  \A l \in Lcores :
    /\ \A i \in 1..Len(list[l]) - 1 : timer[list[l][i]].expire <= timer[list[l][i + 1]].expire
    /\ lock[l] = NoOne => first[l] = FirstOf(list[l], timer)

(* No callback runs before its time, although rte_timer_manage reads the   *)
(* clock before it takes the lock, and others add and move timers between. *)
NeverEarly ==
  \A l \in Lcores : mgr[l].pc = "callback" /\ ~mgr[l].updated => timer[mgr[l].running].expire <= time

(* rte_timer.h of a stop that succeeds: "the timer is not referenced       *)
(* anymore by the timer library and the timer structure can be freed (even *)
(* in the callback function)".                                             *)
StoppedUnreferenced ==
  \A t \in Timers : timer[t].state = "STOP" =>
    \A l \in Lcores :
      /\ t \notin Held(l)
      /\ mgr[l].pc = "callback" /\ mgr[l].running = t => mgr[l].updated

(* The library's hands: a list, the expired timers of a manager, or the    *)
(* timer a manager is putting back for its next period.                    *)
Linked(t) ==
  \E l \in Lcores : t \in Held(l) \/ (mgr[l].pc = "reload" /\ mgr[l].running = t)

(* rte_timer.h:302: "A PENDING timer is one that has been scheduled and    *)
(* whose function has not yet been called". It is not so: between the      *)
(* timer_add of a reset and the write of its status, the lcore it is for   *)
(* may find it expired, see CONFIG and drop it.                            *)
PendingLinked == \A t \in Timers : timer[t].state = "PENDING" => Linked(t)

(* A reset for another lcore has linked its timer and not yet written the  *)
(* status, and the timer has expired.                                      *)
Overtaken(t) ==
  \E l \in Lcores : /\ call[l].pc = "done" /\ call[l].op = "reset" /\ call[l].tim = t
                    /\ call[l].target # l /\ timer[t].expire <= time

(* rte_timer.h:221 of a reset that succeeds: "the timer is scheduled".     *)
(* That is lost in one way only: a timer that becomes or stays pending is  *)
(* linked from then on, unless its reset for another lcore is overtaken.   *)
(* The reload of a periodical timer and a reset for the caller's own lcore *)
(* always link it, and neither cutting off the expired timers nor linking  *)
(* and unlinking others lets go of it.                                     *)
PendingKept ==
  [][\A t \in Timers :
       timer'[t].state = "PENDING" /\ ~Linked(t)' =>
         (timer[t].state = "PENDING" /\ ~Linked(t)) \/ Overtaken(t)]_vars
=============================================================================
