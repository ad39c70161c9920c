------------------------------- MODULE TsQueue --------------------------------
(***************************************************************************)
(* datatypes/tsqueue.c: a ring of items under a mutex, with a semaphore for    *)
(* the items (full) and one for the free places (empty).                     *)
(*                                                                          *)
(* What a call does under the mutex is one step, unless it waits for a          *)
(* semaphore there.  A wait that times out returns TSQUEUE_TIMEOUT, 1, and the  *)
(* callers take only negative results for failures: the call goes on.  A wait   *)
(* that fails, TSQUEUE_SEM_FAILED, ends the call where it is.  It can fail as      *)
(* time-outs are multiplied by 1000L: past 2.1 s the product has no place in a    *)
(* long of 32 bits, and sem_timedwait refuses the time it is then given, once it   *)
(* would have to wait.                                                       *)
(*                                                                          *)
(* Not modelled: initialisation and release, for which no call may run, the     *)
(* counters that are read and reset under the mutex, and what the user does      *)
(* with the place in the ring that a pop or peek hands him.                    *)
(***************************************************************************)
EXTENDS Integers, Sequences, FiniteSets

CONSTANTS
  Producers, Consumers,  (* threads                                           *)
  NoThread,
  MaxItems,              (* max_num_items                                     *)
  MaxPushes,             (* bound: calls of push                                *)
  MaxTimeouts            (* bound: waits outside the mutex that time out or fail *)

Threads == Producers \cup Consumers

ASSUME TsQueueAssumption ==
  /\ IsFiniteSet(Producers) /\ IsFiniteSet(Consumers)
  /\ Producers \cap Consumers = {} /\ NoThread \notin Threads
  /\ MaxItems \in Nat \ {0} /\ MaxPushes \in Nat /\ MaxTimeouts \in Nat

VARIABLES
  usage,    (* may pushes override; may waits time out, may they fail?          *)
  q,        (* the ring                                                       *)
  mutex,    (* who holds it between two steps, and perhaps for ever            *)
  full, empty,
  at,       (* where each thread is in its call                               *)
  arg,      (* of its call: is it a push that overrides, a peek; its item       *)
  pushes, timeouts  (* history, for the bounds                                *)

vars == <<usage, q, mutex, full, empty, at, arg, pushes, timeouts>>

Slots == 0..(MaxItems - 1)
Items == 0..MaxPushes

TypeOK ==
  /\ usage \in [override : BOOLEAN, timed : BOOLEAN, fails : BOOLEAN]
  /\ q \in [items : [Slots -> Items], head : Slots, tail : Slots, num : 0..MaxItems]
  /\ mutex \in Threads \cup {NoThread}
  /\ full \in Nat /\ empty \in Nat
  /\ at \in [Threads -> {"user", "wait", "lock", "claim", "posting"}]
  /\ arg \in [Threads -> [override : BOOLEAN, peek : BOOLEAN, item : Items]]
  /\ pushes \in 0..MaxPushes /\ timeouts \in 0..MaxTimeouts

NoCall == [override |-> FALSE, peek |-> FALSE, item |-> 0]

Init ==
  /\ usage \in [override : BOOLEAN, timed : BOOLEAN, fails : BOOLEAN]
  /\ q = [items |-> [s \in Slots |-> 0], head |-> 0, tail |-> 0, num |-> 0]
  /\ mutex = NoThread
  /\ full = 0 /\ empty = MaxItems
  /\ at = [t \in Threads |-> "user"]
  /\ arg = [t \in Threads |-> NoCall]
  /\ pushes = 0 /\ timeouts = 0

Goto(t, place) == at' = [at EXCEPT ![t] = place]
Return(t) == Goto(t, "user") /\ arg' = [arg EXCEPT ![t] = NoCall]

(* The items of the ring, the oldest first. *)
Content == [i \in 1..q.num |-> q.items[(q.tail + i - 1) % MaxItems]]

Following(s) == IF s + 1 >= MaxItems THEN 0 ELSE s + 1

-----------------------------------------------------------------------------
(* A push that overrides does not wait for a place.                           *)
Push(p) ==
  /\ at[p] = "user" /\ pushes < MaxPushes
  /\ pushes' = pushes + 1
  /\ \E o \in {FALSE, usage.override} :
       /\ arg' = [arg EXCEPT ![p].override = o, ![p].item = pushes']
       /\ Goto(p, IF o THEN "lock" ELSE "wait")
  /\ UNCHANGED <<usage, q, mutex, full, empty, timeouts>>

(* tsqueue_pop_item or tsqueue_peek_item. *)
Take(c) ==
  /\ at[c] = "user"
  /\ \E peek \in BOOLEAN :
       arg' = [arg EXCEPT ![c].peek = peek]
  /\ Goto(c, "wait")
  /\ UNCHANGED <<usage, q, mutex, full, empty, pushes, timeouts>>

(* tsqueue_wait_on_sem, of a producer and of a consumer. *)
WaitForPlace(p) ==
  /\ at[p] = "wait" /\ empty > 0
  /\ empty' = empty - 1
  /\ Goto(p, "lock")
  /\ UNCHANGED <<usage, q, mutex, full, arg, pushes, timeouts>>

WaitForItem(c) ==
  /\ at[c] = "wait" /\ full > 0
  /\ full' = full - 1
  /\ Goto(c, "lock")
  /\ UNCHANGED <<usage, q, mutex, empty, arg, pushes, timeouts>>

HasToWait(t) ==
  /\ at[t] = "wait"
  /\ IF t \in Producers THEN empty = 0 ELSE full = 0
  /\ timeouts < MaxTimeouts /\ timeouts' = timeouts + 1

(* The semaphore is 0 for as long as the caller gave it.                       *)
WaitTimesOut(t) ==
  /\ HasToWait(t) /\ usage.timed
  /\ Goto(t, "lock")
  /\ UNCHANGED <<usage, q, mutex, full, empty, arg, pushes>>

WaitFails(t) ==
  /\ HasToWait(t) /\ usage.fails
  /\ Return(t)
  /\ UNCHANGED <<usage, q, mutex, full, empty, pushes>>

-----------------------------------------------------------------------------
Locks(t) == at[t] = "lock" /\ mutex = NoThread

Filled(ring, item) ==
  [ring EXCEPT !.items[ring.head] = item, !.head = Following(@)]

(* Variant of Overridden: the oldest item stays the first. *)
OverriddenTailKept(ring, item) == Filled(ring, item)

Overridden(ring, item) == [Filled(ring, item) EXCEPT !.tail = Following(@)]

Insert(p) ==
  /\ Locks(p) /\ q.num < MaxItems
  /\ q' = [Filled(q, arg[p].item) EXCEPT !.num = @ + 1]
  /\ Goto(p, "posting")
  /\ UNCHANGED <<usage, mutex, full, empty, arg, pushes, timeouts>>

(* TSQUEUE_FAILED_FULL, and yet full is posted. *)
InsertFails(p) ==
  /\ Locks(p) /\ q.num = MaxItems /\ ~arg[p].override
  /\ Goto(p, "posting")
  /\ UNCHANGED <<usage, q, mutex, full, empty, arg, pushes, timeouts>>

(* An override of a full ring waits for full with the mutex. *)
LockToOverride(p) ==
  /\ Locks(p) /\ q.num = MaxItems /\ arg[p].override
  /\ mutex' = p
  /\ Goto(p, "claim")
  /\ UNCHANGED <<usage, q, full, empty, arg, pushes, timeouts>>

Override(p) ==
  /\ at[p] = "claim"
  /\ \/ full > 0 /\ full' = full - 1
     \/ full = 0 /\ usage.timed /\ UNCHANGED full
  /\ q' = Overridden(q, arg[p].item)
  /\ mutex' = NoThread
  /\ Goto(p, "posting")
  /\ UNCHANGED <<usage, empty, arg, pushes, timeouts>>

(* The wait fails: the push returns and the mutex stays locked. *)
OverrideFails(p) ==
  /\ at[p] = "claim" /\ full = 0 /\ usage.fails
  /\ Return(p)
  /\ UNCHANGED <<usage, q, mutex, full, empty, pushes, timeouts>>

(* TSQUEUE_FAILED_EMPTY when there is no item. *)
Remove(c) ==
  /\ Locks(c)
  /\ q' = IF arg[c].peek \/ q.num = 0 THEN q
          ELSE [q EXCEPT !.tail = Following(@), !.num = @ - 1]
  /\ Goto(c, "posting")
  /\ UNCHANGED <<usage, mutex, full, empty, arg, pushes, timeouts>>

(* Variant of PostItem: only of a push. *)
PostItemOfPush(t) ==
  /\ at[t] = "posting" /\ (t \in Producers \/ arg[t].peek)
  /\ full' = IF t \in Producers THEN full + 1 ELSE full
  /\ Return(t)
  /\ UNCHANGED <<usage, q, mutex, empty, pushes, timeouts>>

(* After a push or a peek. *)
PostItem(t) ==
  /\ at[t] = "posting" /\ (t \in Producers \/ arg[t].peek)
  /\ full' = full + 1
  /\ Return(t)
  /\ UNCHANGED <<usage, q, mutex, empty, pushes, timeouts>>

(* Variant of PostPlace: after a peek too. *)
PostPlaceOfPeek(c) ==
  /\ at[c] = "posting"
  /\ empty' = empty + 1
  /\ full' = IF arg[c].peek THEN full + 1 ELSE full
  /\ Return(c)
  /\ UNCHANGED <<usage, q, mutex, pushes, timeouts>>

(* After a pop, whether there was an item or not. *)
PostPlace(c) ==
  /\ at[c] = "posting" /\ ~arg[c].peek
  /\ empty' = empty + 1
  /\ Return(c)
  /\ UNCHANGED <<usage, q, mutex, full, pushes, timeouts>>

ProducerStep(p) ==
  \/ WaitForPlace(p) \/ WaitTimesOut(p) \/ WaitFails(p) \/ Insert(p) \/ InsertFails(p)
  \/ LockToOverride(p) \/ Override(p) \/ OverrideFails(p) \/ PostItem(p)

ConsumerStep(c) ==
  \/ WaitForItem(c) \/ WaitTimesOut(c) \/ WaitFails(c)
  \/ Remove(c) \/ PostItem(c) \/ PostPlace(c)

Next ==
  \/ \E p \in Producers : Push(p) \/ ProducerStep(p)
  \/ \E c \in Consumers : Take(c) \/ ConsumerStep(c)

Spec == Init /\ [][Next]_vars

(* A thread that can go on in a call does: nothing is assumed of who gets a      *)
(* semaphore or the mutex first, and nobody has to call.                      *)
FairSpec ==
  /\ Spec
  /\ \A p \in Producers : WF_vars(ProducerStep(p))
  /\ \A c \in Consumers : WF_vars(ConsumerStep(c))

-----------------------------------------------------------------------------
(* Whatever the semaphores let through, times out or overrides, the ring is a    *)
(* queue: a step leaves its items and their order alone, or appends one to a     *)
(* queue with room, drops the oldest of a full one for it, or takes the oldest   *)
(* (tsqueue.c:165-200, 256-267).                                             *)
ActsAsQueue ==
  [][ LET Appended(s) == \E p \in Producers :
            /\ at[p] # "posting" /\ at'[p] = "posting"
            /\ Content' = Append(s, arg[p].item)
      IN \/ Content' = Content
         \/ q.num < MaxItems /\ Appended(Content)
         \/ q.num = MaxItems /\ Appended(Tail(Content))
         \/ q.num > 0 /\ Content' = Tail(Content) ]_vars

Plain == ~usage.override /\ ~usage.timed

(* As long as no call overrides or times out, a call that its semaphore let      *)
(* through finds what it waited for, whoever came in between: TSQUEUE_FAILED_FULL *)
(* and TSQUEUE_FAILED_EMPTY are never returned (tsqueue.c:203, 266).            *)
LetThroughServed ==
  Plain =>
    /\ \A p \in Producers : at[p] = "lock" => q.num < MaxItems
    /\ \A c \in Consumers : at[c] = "lock" => q.num > 0

PostsItem(t) == at[t] = "posting" /\ (t \in Producers \/ arg[t].peek)

(* The mutex is not had again: a push returned with it when the wait for its         *)
(* override failed, or waits with it, without a time-out, for full, which those who    *)
(* took it down cannot post as they wait for the mutex (tsqueue.c:184-185).            *)
LockedUp ==
  /\ mutex # NoThread
  /\ \/ at[mutex] # "claim"
     \/ ~usage.timed /\ full = 0 /\ \A t \in Threads : ~PostsItem(t)

(* With an item in the queue some consumer's call returns, and with a free place    *)
(* some producer's, unless the other side takes it away or an override has locked   *)
(* the queue up: nothing else does, be it that calls time out or that waits fail.    *)
CallsReturn ==
  /\ (\A c \in Consumers : at[c] # "user") /\ q.num > 0
       ~> (\E c \in Consumers : at[c] = "user") \/ q.num = 0 \/ LockedUp
  /\ (\A p \in Producers : at[p] # "user") /\ q.num < MaxItems
       ~> (\E p \in Producers : at[p] = "user") \/ q.num = MaxItems \/ LockedUp
=============================================================================
