----------------------------- MODULE TsQueueProofs ----------------------------
(***************************************************************************)
(* Proofs about TsQueue for any threads and any length of the queue.          *)
(***************************************************************************)
EXTENDS TsQueue, FiniteSetTheorems, SequenceTheorems, TLAPS

At(threads, place) == {t \in threads : at[t] = place}
Popping == {c \in At(Consumers, "posting") : ~arg[c].peek}
Peeking == {c \in At(Consumers, "posting") : arg[c].peek}

(* Without overrides no thread keeps the mutex between two steps. *)
PlainCalls ==
  Plain => /\ mutex = NoThread
           /\ \A t \in Threads : at[t] # "claim" /\ ~arg[t].override

(* The items are those that full counts and those of the threads that took full   *)
(* down for one or have yet to post it; the places likewise.                   *)
SemaphoresCount ==
  Plain =>
    /\ q.num = full + Cardinality(At(Consumers, "lock"))
                   + Cardinality(At(Producers, "posting")) + Cardinality(Peeking)
    /\ MaxItems = q.num + empty + Cardinality(At(Producers, "lock")) + Cardinality(Popping)

IInv == TypeOK /\ PlainCalls /\ SemaphoresCount

-----------------------------------------------------------------------------
(* Bookkeeping of sets that a thread joins, leaves or does not care about.      *)
LEMMA Joins ==
  ASSUME NEW S, IsFiniteSet(S), NEW x, x \notin S, NEW T, T = S \cup {x}
  PROVE  Cardinality(T) = Cardinality(S) + 1
BY FS_AddElement

(* A finite set without one of its members is smaller by one. *)
LEMMA Leaves ==
  ASSUME NEW S, IsFiniteSet(S), NEW x, x \in S, NEW T, T = S \ {x}
  PROVE  Cardinality(T) = Cardinality(S) - 1
BY FS_RemoveElement

(* A set with a member is not empty. *)
LEMMA Occupied ==
  ASSUME NEW S, IsFiniteSet(S), NEW x \in S
  PROVE  Cardinality(S) # 0
BY FS_EmptySet

(* The four sets are finite, before and after a step. *)
LEMMA Counted ==
  /\ \A place : /\ IsFiniteSet(At(Consumers, place)) /\ Cardinality(At(Consumers, place)) \in Nat
                /\ IsFiniteSet(At(Producers, place)) /\ Cardinality(At(Producers, place)) \in Nat
  /\ IsFiniteSet(Popping) /\ Cardinality(Popping) \in Nat
  /\ IsFiniteSet(Peeking) /\ Cardinality(Peeking) \in Nat
<1>1. ASSUME NEW S, IsFiniteSet(S), NEW T, T \subseteq S
      PROVE  IsFiniteSet(T) /\ Cardinality(T) \in Nat
  BY <1>1, FS_Subset, FS_CardinalityType
<1>2. IsFiniteSet(Consumers) /\ IsFiniteSet(Producers)
  BY TsQueueAssumption
<1>3. /\ \A place : At(Consumers, place) \subseteq Consumers /\ At(Producers, place) \subseteq Producers
      /\ Popping \subseteq Consumers /\ Peeking \subseteq Consumers
  BY DEF At, Popping, Peeking
<1> QED
  BY <1>1, <1>2, <1>3

(* A thread is a producer or a consumer. *)
LEMMA Apart ==
  /\ \A p \in Producers : p \in Threads /\ p \notin Consumers
  /\ \A c \in Consumers : c \in Threads /\ c \notin Producers
BY TsQueueAssumption DEF Threads

(* The slot after a slot is one. *)
LEMMA FollowingType == \A s \in Slots : Following(s) \in Slots
BY TsQueueAssumption DEF Slots, Following

Rings == [items : [Slots -> Items], head : Slots, tail : Slots, num : 0..MaxItems]

(* A push gives a ring, with an override or without. *)
LEMMA RingTypes ==
  ASSUME NEW ring \in Rings, NEW item \in Items
  PROVE  Filled(ring, item) \in Rings /\ Overridden(ring, item) \in Rings
<1>1. [ring.items EXCEPT ![ring.head] = item] \in [Slots -> Items]
  BY DEF Rings
<1>2. Filled(ring, item) = [ring EXCEPT !.items = [ring.items EXCEPT ![ring.head] = item],
                                        !.head = Following(ring.head)]
  BY DEF Filled, Rings
<1>3. Filled(ring, item) \in Rings
  BY <1>1, <1>2, FollowingType DEF Rings
<1> QED
  BY <1>3, FollowingType DEF Rings, Overridden

(* A call that returns leaves its arguments of their types. *)
LEMMA ReturnTypes ==
  ASSUME TypeOK, NEW t \in Threads, Return(t)
  PROVE  /\ arg' \in [Threads -> [override : BOOLEAN, peek : BOOLEAN, item : Items]]
         /\ at' \in [Threads -> {"user", "wait", "lock", "claim", "posting"}]
<1>1. NoCall \in [override : BOOLEAN, peek : BOOLEAN, item : Items]
  BY TsQueueAssumption DEF NoCall, Items
<1> QED
  BY <1>1 DEF Return, Goto, TypeOK

(* A call that returns leaves the arguments of the others. *)
LEMMA ReturnsAlone ==
  ASSUME TypeOK, NEW t \in Threads, Return(t)
  PROVE  \A u \in Threads : u # t => arg'[u] = arg[u]
<1>1. arg' = [arg EXCEPT ![t] = NoCall]
  BY DEF Return
<1>2. DOMAIN arg = Threads
  BY DEF TypeOK
<1> QED
  BY <1>1, <1>2

-----------------------------------------------------------------------------
(* The initial states satisfy the invariant. *)
LEMMA InitHolds == Init => IInv
<1> SUFFICES ASSUME Init PROVE IInv
  OBVIOUS
<1>1. TypeOK
  BY TsQueueAssumption DEF Init, TypeOK, Slots, Items, NoCall
<1>2. PlainCalls
  BY DEF Init, PlainCalls, NoCall
<1>3. \A threads \in {Producers, Consumers}, place \in {"lock", "posting"} :
        At(threads, place) = {}
  BY DEF Init, At, Threads
<1>4. Popping = {} /\ Peeking = {}
  BY <1>3 DEF Popping, Peeking
<1>5. SemaphoresCount
  <2>1. /\ Cardinality(At(Consumers, "lock")) = 0 /\ Cardinality(At(Producers, "lock")) = 0
        /\ Cardinality(At(Producers, "posting")) = 0
        /\ Cardinality(Popping) = 0 /\ Cardinality(Peeking) = 0
    BY <1>3, <1>4, FS_EmptySet
  <2>2. q.num = 0 /\ full = 0 /\ empty = MaxItems /\ MaxItems \in Nat
    BY TsQueueAssumption DEF Init
  <2> QED
    BY <2>1, <2>2 DEF SemaphoresCount
<1> QED
  BY <1>1, <1>2, <1>5 DEF IInv

(* Every step keeps the types. *)
LEMMA TypeStep == TypeOK /\ [Next]_vars => TypeOK'
<1> SUFFICES ASSUME TypeOK, [Next]_vars PROVE TypeOK'
  OBVIOUS
<1> USE TsQueueAssumption, Apart, FollowingType DEF TypeOK, Goto
<1>1. CASE UNCHANGED vars
  BY <1>1 DEF vars
<1>2. ASSUME NEW p \in Producers, Push(p) PROVE TypeOK'
  <2>1. PICK o \in BOOLEAN :
          /\ arg' = [arg EXCEPT ![p].override = o, ![p].item = pushes']
          /\ Goto(p, IF o THEN "lock" ELSE "wait")
    BY <1>2 DEF Push
  <2>2. pushes' \in Items /\ pushes' \in 0..MaxPushes
    BY <1>2 DEF Push, Items
  <2>3. arg' \in [Threads -> [override : BOOLEAN, peek : BOOLEAN, item : Items]]
    BY <2>1, <2>2
  <2>4. at' \in [Threads -> {"user", "wait", "lock", "claim", "posting"}]
    BY <2>1
  <2> QED
    BY <1>2, <2>2, <2>3, <2>4 DEF Push
<1>3. ASSUME NEW c \in Consumers, Take(c) PROVE TypeOK'
  BY <1>3 DEF Take
<1>4. ASSUME NEW p \in Producers, WaitForPlace(p) PROVE TypeOK'
  BY <1>4 DEF WaitForPlace
<1>5. ASSUME NEW c \in Consumers, WaitForItem(c) PROVE TypeOK'
  BY <1>5 DEF WaitForItem
<1>6. ASSUME NEW t \in Threads, WaitTimesOut(t) PROVE TypeOK'
  BY <1>6 DEF WaitTimesOut, HasToWait
<1>7. ASSUME NEW p \in Producers, Insert(p) PROVE TypeOK'
  <2>1. q \in Rings /\ arg[p].item \in Items
    BY DEF Rings
  <2>2. Filled(q, arg[p].item) \in Rings /\ Filled(q, arg[p].item).num = q.num
    BY <2>1, RingTypes DEF Filled, Rings
  <2>3. q' \in Rings
    BY <1>7, <2>2 DEF Insert, Rings
  <2> QED
    BY <1>7, <2>3 DEF Insert, Locks, Rings
<1>8. ASSUME NEW p \in Producers, InsertFails(p) PROVE TypeOK'
  BY <1>8 DEF InsertFails, Locks
<1>9. ASSUME NEW p \in Producers, LockToOverride(p) PROVE TypeOK'
  BY <1>9 DEF LockToOverride, Locks
<1>10. ASSUME NEW p \in Producers, Override(p) PROVE TypeOK'
  <2>1. q' \in Rings
    BY <1>10, RingTypes DEF Override, Rings
  <2>2. full' \in Nat
    BY <1>10 DEF Override
  <2> QED
    BY <1>10, <2>1, <2>2 DEF Override, Rings
<1>11. ASSUME NEW c \in Consumers, Remove(c) PROVE TypeOK'
  <2>1. CASE q' = q
    BY <1>11, <2>1 DEF Remove, Locks
  <2>2. CASE q.num # 0 /\ q' = [q EXCEPT !.tail = Following(@), !.num = @ - 1]
    <3>1. q.num - 1 \in 0..MaxItems /\ Following(q.tail) \in Slots
      BY <2>2
    <3> QED
      BY <1>11, <2>2, <3>1 DEF Remove, Locks
  <2> QED
    BY <1>11, <2>1, <2>2 DEF Remove
<1>12. ASSUME NEW t \in Threads, PostItem(t) PROVE TypeOK'
  BY <1>12, ReturnTypes DEF PostItem
<1>13. ASSUME NEW c \in Consumers, PostPlace(c) PROVE TypeOK'
  BY <1>13, ReturnTypes DEF PostPlace
<1>14. ASSUME NEW t \in Threads, WaitFails(t) PROVE TypeOK'
  BY <1>14, ReturnTypes DEF WaitFails, HasToWait
<1>15. ASSUME NEW p \in Producers, OverrideFails(p) PROVE TypeOK'
  BY <1>15, ReturnTypes DEF OverrideFails
<1> QED
  BY <1>1, <1>2, <1>3, <1>4, <1>5, <1>6, <1>7, <1>8, <1>9, <1>10, <1>11, <1>12, <1>13, <1>14,
     <1>15
     DEF Next, ProducerStep, ConsumerStep

-----------------------------------------------------------------------------
(* How a step of one thread changes the numbers of threads at a place.          *)
LEMMA ProducerCounts ==
  ASSUME TypeOK, NEW p \in Producers, NEW place, Goto(p, place), at[p] # place,
         \A c \in Consumers : arg'[c] = arg[c]
  PROVE  /\ \A x : Cardinality(At(Producers, x))' = Cardinality(At(Producers, x)) +
                     IF x = place THEN 1 ELSE IF x = at[p] THEN -1 ELSE 0
         /\ \A x : Cardinality(At(Consumers, x))' = Cardinality(At(Consumers, x))
         /\ Cardinality(Popping)' = Cardinality(Popping)
         /\ Cardinality(Peeking)' = Cardinality(Peeking)
<1>1. at'[p] = place /\ \A t \in Threads : t # p => at'[t] = at[t]
  BY Apart DEF TypeOK, Goto
<1>2. ASSUME NEW x
      PROVE  Cardinality(At(Producers, x))' = Cardinality(At(Producers, x)) +
               IF x = place THEN 1 ELSE IF x = at[p] THEN -1 ELSE 0
  <2>1. CASE x = place
    <3>1. At(Producers, x)' = At(Producers, x) \cup {p} /\ p \notin At(Producers, x)
      BY <1>1, <2>1, Apart DEF At
    <3> QED
      BY <2>1, <3>1, Joins, Counted
  <2>2. CASE x # place /\ x = at[p]
    <3>1. At(Producers, x)' = At(Producers, x) \ {p} /\ p \in At(Producers, x)
      BY <1>1, <2>2, Apart DEF At
    <3> QED
      BY <2>2, <3>1, Leaves, Counted
  <2>3. CASE x # place /\ x # at[p]
    <3>1. At(Producers, x)' = At(Producers, x)
      BY <1>1, <2>3, Apart DEF At
    <3> QED
      BY <2>3, <3>1, Counted
  <2> QED
    BY <2>1, <2>2, <2>3
<1>3. \A x : At(Consumers, x)' = At(Consumers, x)
  BY <1>1, Apart DEF At
<1>4. Popping' = Popping /\ Peeking' = Peeking
  BY <1>3 DEF Popping, Peeking, At
<1> QED
  BY <1>2, <1>3, <1>4

(* How the counts of the threads at each place change when a consumer moves. *)
LEMMA ConsumerCounts ==
  ASSUME TypeOK, NEW c \in Consumers, NEW place, Goto(c, place), at[c] # place,
         \A d \in Consumers : (d = c => place = "posting") => arg'[d].peek = arg[d].peek
  PROVE  /\ \A x : Cardinality(At(Producers, x))' = Cardinality(At(Producers, x))
         /\ \A x : Cardinality(At(Consumers, x))' = Cardinality(At(Consumers, x)) +
                     IF x = place THEN 1 ELSE IF x = at[c] THEN -1 ELSE 0
         /\ Cardinality(Popping)' = Cardinality(Popping) +
              IF arg[c].peek THEN 0
              ELSE IF place = "posting" THEN 1 ELSE IF at[c] = "posting" THEN -1 ELSE 0
         /\ Cardinality(Peeking)' = Cardinality(Peeking) +
              IF ~arg[c].peek THEN 0
              ELSE IF place = "posting" THEN 1 ELSE IF at[c] = "posting" THEN -1 ELSE 0
<1>1. at'[c] = place /\ \A t \in Threads : t # c => at'[t] = at[t]
  BY Apart DEF TypeOK, Goto
<1>2. \A x : At(Producers, x)' = At(Producers, x)
  BY <1>1, Apart DEF At
<1>3. ASSUME NEW x
      PROVE  Cardinality(At(Consumers, x))' = Cardinality(At(Consumers, x)) +
               IF x = place THEN 1 ELSE IF x = at[c] THEN -1 ELSE 0
  <2>1. CASE x = place
    <3>1. At(Consumers, x)' = At(Consumers, x) \cup {c} /\ c \notin At(Consumers, x)
      BY <1>1, <2>1, Apart DEF At
    <3> QED
      BY <2>1, <3>1, Joins, Counted
  <2>2. CASE x # place /\ x = at[c]
    <3>1. At(Consumers, x)' = At(Consumers, x) \ {c} /\ c \in At(Consumers, x)
      BY <1>1, <2>2, Apart DEF At
    <3> QED
      BY <2>2, <3>1, Leaves, Counted
  <2>3. CASE x # place /\ x # at[c]
    <3>1. At(Consumers, x)' = At(Consumers, x)
      BY <1>1, <2>3, Apart DEF At
    <3> QED
      BY <2>3, <3>1, Counted
  <2> QED
    BY <2>1, <2>2, <2>3
<1>4. /\ \A d \in Consumers : d # c => at'[d] = at[d] /\ arg'[d].peek = arg[d].peek
      /\ place = "posting" => arg'[c].peek = arg[c].peek
      /\ at'[c] = place
  BY <1>1, Apart
<1>5. CASE place = "posting"
  <2>1. CASE arg[c].peek
    <3>1. /\ Popping' = Popping
          /\ Peeking' = Peeking \cup {c} /\ c \notin Peeking
      BY <1>4, <1>5, <2>1 DEF Popping, Peeking, At
    <3> QED
      BY <1>2, <1>3, <1>5, <2>1, <3>1, Joins, Counted
  <2>2. CASE ~arg[c].peek
    <3>1. /\ Peeking' = Peeking
          /\ Popping' = Popping \cup {c} /\ c \notin Popping
      BY <1>4, <1>5, <2>2 DEF Popping, Peeking, At
    <3> QED
      BY <1>2, <1>3, <1>5, <2>2, <3>1, Joins, Counted
  <2> QED
    BY <2>1, <2>2
<1>6. CASE place # "posting" /\ at[c] = "posting"
  <2>1. CASE arg[c].peek
    <3>1. /\ Popping' = Popping
          /\ Peeking' = Peeking \ {c} /\ c \in Peeking
      BY <1>4, <1>6, <2>1 DEF Popping, Peeking, At
    <3> QED
      BY <1>2, <1>3, <1>6, <2>1, <3>1, Leaves, Counted
  <2>2. CASE ~arg[c].peek
    <3>1. /\ Peeking' = Peeking
          /\ Popping' = Popping \ {c} /\ c \in Popping
      BY <1>4, <1>6, <2>2 DEF Popping, Peeking, At
    <3> QED
      BY <1>2, <1>3, <1>6, <2>2, <3>1, Leaves, Counted
  <2> QED
    BY <2>1, <2>2
<1>7. CASE place # "posting" /\ at[c] # "posting"
  <2>1. Popping' = Popping /\ Peeking' = Peeking
    BY <1>4, <1>7 DEF Popping, Peeking, At
  <2> QED
    BY <1>2, <1>3, <1>7, <2>1, Counted
<1> QED
  BY <1>5, <1>6, <1>7

-----------------------------------------------------------------------------
(* Calls stay without overrides and time-outs. *)
LEMMA PlainStep == TypeOK /\ PlainCalls /\ [Next]_vars => PlainCalls'
<1> SUFFICES ASSUME TypeOK, PlainCalls, [Next]_vars, Plain'
             PROVE  /\ mutex' = NoThread
                    /\ \A t \in Threads : at'[t] # "claim" /\ ~arg'[t].override
  BY DEF PlainCalls
<1>1. Plain
  BY DEF Plain, vars, Next, ProducerStep, ConsumerStep, Push, Take, WaitForPlace, WaitForItem,
         WaitTimesOut, WaitFails, Insert, InsertFails, LockToOverride, Override, OverrideFails,
         Remove, PostItem, PostPlace
<1>2. /\ mutex = NoThread
      /\ \A t \in Threads : at[t] # "claim" /\ ~arg[t].override
  BY <1>1 DEF PlainCalls
<1> USE Apart, <1>2 DEF TypeOK, Goto
<1>3. CASE UNCHANGED vars
  BY <1>3 DEF vars
<1>4. ASSUME NEW p \in Producers, Push(p)
      PROVE  mutex' = NoThread /\ \A t \in Threads : at'[t] # "claim" /\ ~arg'[t].override
  <2>1. ~usage.override
    BY <1>1 DEF Plain
  <2>2. /\ arg' = [arg EXCEPT ![p].override = FALSE, ![p].item = pushes']
        /\ at' = [at EXCEPT ![p] = "wait"] /\ mutex' = mutex
    BY <1>4, <2>1 DEF Push
  <2> QED
    BY <2>2
<1>5. ASSUME NEW c \in Consumers, Take(c)
      PROVE  mutex' = NoThread /\ \A t \in Threads : at'[t] # "claim" /\ ~arg'[t].override
  BY <1>5 DEF Take
<1>6. ASSUME NEW t \in Threads,
             \/ WaitForPlace(t) \/ WaitForItem(t) \/ WaitTimesOut(t)
             \/ Insert(t) \/ InsertFails(t) \/ Remove(t)
      PROVE  mutex' = NoThread /\ \A u \in Threads : at'[u] # "claim" /\ ~arg'[u].override
  BY <1>6 DEF WaitForPlace, WaitForItem, WaitTimesOut, Insert, InsertFails, Remove
<1>7. ASSUME NEW t \in Threads, PostItem(t) \/ PostPlace(t) \/ WaitFails(t)
      PROVE  mutex' = NoThread /\ \A u \in Threads : at'[u] # "claim" /\ ~arg'[u].override
  BY <1>7 DEF PostItem, PostPlace, WaitFails, Return, NoCall
<1>8. ASSUME NEW p \in Producers
      PROVE  ~LockToOverride(p) /\ ~Override(p) /\ ~OverrideFails(p)
  BY DEF LockToOverride, Override, OverrideFails
<1> QED
  BY <1>3, <1>4, <1>5, <1>6, <1>7, <1>8 DEF Next, ProducerStep, ConsumerStep

(* The counts leave a place for every producer, and an item for every consumer,  *)
(* that its semaphore let through.                                           *)
LEMMA CountsServe == IInv => LetThroughServed
<1> SUFFICES ASSUME IInv, Plain
             PROVE  /\ \A p \in Producers : at[p] = "lock" => q.num < MaxItems
                    /\ \A c \in Consumers : at[c] = "lock" => q.num > 0
  BY DEF LetThroughServed
<1>1. /\ q.num = full + Cardinality(At(Consumers, "lock"))
                  + Cardinality(At(Producers, "posting")) + Cardinality(Peeking)
      /\ MaxItems = q.num + empty + Cardinality(At(Producers, "lock")) + Cardinality(Popping)
  BY DEF IInv, SemaphoresCount
<1>2. MaxItems \in Nat /\ q.num \in Nat /\ full \in Nat /\ empty \in Nat
  BY TsQueueAssumption DEF IInv, TypeOK
<1>3. ASSUME NEW p \in Producers, at[p] = "lock" PROVE q.num < MaxItems
  <2>1. p \in At(Producers, "lock")
    BY <1>3 DEF At
  <2>2. Cardinality(At(Producers, "lock")) # 0
    BY <2>1, Counted, Occupied
  <2> QED
    BY <1>1, <1>2, <2>2, Counted
<1>4. ASSUME NEW c \in Consumers, at[c] = "lock" PROVE q.num > 0
  <2>1. c \in At(Consumers, "lock")
    BY <1>4 DEF At
  <2>2. Cardinality(At(Consumers, "lock")) # 0
    BY <2>1, Counted, Occupied
  <2> QED
    BY <1>1, <1>2, <2>2, Counted
<1> QED
  BY <1>3, <1>4

(* In a plain queue each step moves one thread and one unit. *)
LEMMA CountStep == IInv /\ [Next]_vars => SemaphoresCount'
<1> DEFINE Good ==
      /\ q.num = full + Cardinality(At(Consumers, "lock"))
                   + Cardinality(At(Producers, "posting")) + Cardinality(Peeking)
      /\ MaxItems = q.num + empty + Cardinality(At(Producers, "lock")) + Cardinality(Popping)
<1> SUFFICES ASSUME IInv, [Next]_vars, Plain' PROVE Good'
  BY DEF SemaphoresCount
<1>1. Plain
  BY DEF Plain, vars, Next, ProducerStep, ConsumerStep, Push, Take, WaitForPlace, WaitForItem,
         WaitTimesOut, WaitFails, Insert, InsertFails, LockToOverride, Override, OverrideFails,
         Remove, PostItem, PostPlace
<1>2. /\ TypeOK /\ mutex = NoThread
      /\ \A t \in Threads : at[t] # "claim" /\ ~arg[t].override
      /\ Good
  BY <1>1 DEF IInv, PlainCalls, SemaphoresCount
<1>3. /\ \A place : /\ Cardinality(At(Consumers, place)) \in Nat
                    /\ Cardinality(At(Producers, place)) \in Nat
      /\ Cardinality(Popping) \in Nat /\ Cardinality(Peeking) \in Nat
  BY Counted
<1>4. MaxItems \in Nat /\ q.num \in Nat /\ full \in Nat /\ empty \in Nat
  BY <1>2, TsQueueAssumption DEF TypeOK
<1>5. CASE UNCHANGED vars
  BY <1>2, <1>5 DEF vars, At, Popping, Peeking
<1>6. ASSUME NEW p \in Producers, Push(p) PROVE Good'
  <2>1. Goto(p, "wait") /\ at[p] = "user" /\ \A c \in Consumers : arg'[c] = arg[c]
    BY <1>1, <1>2, <1>6, Apart DEF Push, Plain, TypeOK
  <2>2. UNCHANGED <<q, full, empty>>
    BY <1>6 DEF Push
  <2> QED
    BY <1>2, <1>3, <1>4, <2>1, <2>2, ProducerCounts
<1>7. ASSUME NEW c \in Consumers, Take(c) PROVE Good'
  <2>1. /\ Goto(c, "wait") /\ at[c] = "user"
        /\ \A d \in Consumers : d # c => arg'[d].peek = arg[d].peek
    BY <1>2, <1>7, Apart DEF Take, TypeOK
  <2>2. UNCHANGED <<q, full, empty>>
    BY <1>7 DEF Take
  <2> QED
    BY <1>2, <1>3, <1>4, <2>1, <2>2, ConsumerCounts
<1>8. ASSUME NEW p \in Producers, WaitForPlace(p) PROVE Good'
  <2>1. /\ Goto(p, "lock") /\ at[p] = "wait" /\ UNCHANGED <<q, full, arg>>
        /\ empty' = empty - 1
    BY <1>8 DEF WaitForPlace
  <2> QED
    BY <1>2, <1>3, <1>4, <2>1, ProducerCounts
<1>9. ASSUME NEW c \in Consumers, WaitForItem(c) PROVE Good'
  <2>1. /\ Goto(c, "lock") /\ at[c] = "wait" /\ UNCHANGED <<q, empty, arg>>
        /\ full' = full - 1
    BY <1>9 DEF WaitForItem
  <2> QED
    BY <1>2, <1>3, <1>4, <2>1, ConsumerCounts
<1>10. ASSUME NEW t \in Threads PROVE ~WaitTimesOut(t)
  BY <1>1 DEF WaitTimesOut, Plain
<1>11. ASSUME NEW p \in Producers, Insert(p) PROVE Good'
  <2>1. Goto(p, "posting") /\ at[p] = "lock" /\ UNCHANGED <<full, empty, arg>>
    BY <1>11 DEF Insert, Locks
  <2>2. q'.num = q.num + 1
    BY <1>2, <1>11 DEF Insert, Filled, TypeOK
  <2> QED
    BY <1>2, <1>3, <1>4, <2>1, <2>2, ProducerCounts
<1>12. ASSUME NEW p \in Producers
       PROVE  ~InsertFails(p) /\ ~LockToOverride(p) /\ ~Override(p) /\ ~OverrideFails(p)
  <2>1. ~LockToOverride(p) /\ ~Override(p) /\ ~OverrideFails(p)
    BY <1>2, Apart DEF LockToOverride, Override, OverrideFails
  <2>2. at[p] = "lock" => q.num < MaxItems
    BY <1>1, CountsServe DEF LetThroughServed
  <2> QED
    BY <1>4, <2>1, <2>2 DEF InsertFails, Locks
<1>13. ASSUME NEW c \in Consumers, Remove(c) PROVE Good'
  <2>1. Goto(c, "posting") /\ at[c] = "lock" /\ UNCHANGED <<full, empty, arg>>
    BY <1>13 DEF Remove, Locks
  <2>2. q.num > 0
    BY <1>1, <2>1, CountsServe DEF LetThroughServed
  <2>3. q'.num = IF arg[c].peek THEN q.num ELSE q.num - 1
    BY <1>2, <1>4, <1>13, <2>2 DEF Remove, TypeOK
  <2>4. \A d \in Consumers : arg'[d].peek = arg[d].peek
    BY <2>1
  <2>5. /\ \A x : Cardinality(At(Producers, x))' = Cardinality(At(Producers, x))
        /\ Cardinality(At(Consumers, "lock"))' = Cardinality(At(Consumers, "lock")) - 1
        /\ Cardinality(Popping)' = Cardinality(Popping) + IF arg[c].peek THEN 0 ELSE 1
        /\ Cardinality(Peeking)' = Cardinality(Peeking) + IF arg[c].peek THEN 1 ELSE 0
    BY <1>2, <1>3, <2>1, <2>4, ConsumerCounts
  <2> QED
    BY <1>2, <1>3, <1>4, <2>1, <2>3, <2>5
<1>14. ASSUME NEW p \in Producers, PostItem(p) PROVE Good'
  <2>1. /\ Return(p) /\ at[p] = "posting" /\ UNCHANGED <<q, empty>>
        /\ full' = full + 1
    BY <1>14 DEF PostItem
  <2>2. \A c \in Consumers : arg'[c] = arg[c]
    BY <1>2, <2>1, ReturnsAlone, Apart
  <2>3. Goto(p, "user")
    BY <2>1 DEF Return
  <2> QED
    BY <1>2, <1>3, <1>4, <2>1, <2>2, <2>3, ProducerCounts, Apart
<1>15. ASSUME NEW c \in Consumers, PostItem(c) PROVE Good'
  <2>1. /\ Return(c) /\ at[c] = "posting" /\ UNCHANGED <<q, empty>>
        /\ full' = full + 1 /\ (c \in Producers \/ arg[c].peek)
    BY <1>15 DEF PostItem
  <2>2. \A d \in Consumers : d # c => arg'[d].peek = arg[d].peek
    BY <1>2, <2>1, ReturnsAlone, Apart
  <2>3. Goto(c, "user")
    BY <2>1 DEF Return
  <2> QED
    BY <1>2, <1>3, <1>4, <2>1, <2>2, <2>3, ConsumerCounts, Apart
<1>16. ASSUME NEW c \in Consumers, PostPlace(c) PROVE Good'
  <2>1. /\ Return(c) /\ at[c] = "posting" /\ UNCHANGED <<q, full>>
        /\ empty' = empty + 1 /\ ~arg[c].peek
    BY <1>16 DEF PostPlace
  <2>2. \A d \in Consumers : d # c => arg'[d].peek = arg[d].peek
    BY <1>2, <2>1, ReturnsAlone, Apart
  <2>3. Goto(c, "user")
    BY <2>1 DEF Return
  <2> QED
    BY <1>2, <1>3, <1>4, <2>1, <2>2, <2>3, ConsumerCounts, Apart
<1>17. ASSUME NEW p \in Producers, WaitFails(p) PROVE Good'
  <2>1. /\ Return(p) /\ at[p] = "wait" /\ UNCHANGED <<q, full, empty>>
    BY <1>17 DEF WaitFails, HasToWait
  <2>2. \A c \in Consumers : arg'[c] = arg[c]
    BY <1>2, <2>1, ReturnsAlone, Apart
  <2>3. Goto(p, "user")
    BY <2>1 DEF Return
  <2> QED
    BY <1>2, <1>3, <1>4, <2>1, <2>2, <2>3, ProducerCounts, Apart
<1>18. ASSUME NEW c \in Consumers, WaitFails(c) PROVE Good'
  <2>1. /\ Return(c) /\ at[c] = "wait" /\ UNCHANGED <<q, full, empty>>
    BY <1>18 DEF WaitFails, HasToWait
  <2>2. \A d \in Consumers : d # c => arg'[d].peek = arg[d].peek
    BY <1>2, <2>1, ReturnsAlone, Apart
  <2>3. Goto(c, "user")
    BY <2>1 DEF Return
  <2> QED
    BY <1>2, <1>3, <1>4, <2>1, <2>2, <2>3, ConsumerCounts, Apart
<1> QED
  BY <1>5, <1>6, <1>7, <1>8, <1>9, <1>10, <1>11, <1>12, <1>13, <1>14, <1>15, <1>16, <1>17,
     <1>18, Apart
     DEF Next, ProducerStep, ConsumerStep

-----------------------------------------------------------------------------
(* tsqueue.c: the types, and that its indices stay within the ring, under every  *)
(* use, with and without overrides and time-outs.                             *)
THEOREM TypeCorrect == Spec => []TypeOK
<1>1. Init => TypeOK
  BY InitHolds DEF IInv
<1>2. TypeOK /\ [Next]_vars => TypeOK'
  BY TypeStep
<1> QED
  BY <1>1, <1>2, PTL DEF Spec

(* tsqueue.c: without overrides and time-outs the semaphores and the calls in    *)
(* progress account for every item and every place.                          *)
THEOREM Invariance == Spec => []IInv
<1>1. Init => IInv
  BY InitHolds
<1>2. IInv /\ [Next]_vars => IInv'
  BY TypeStep, PlainStep, CountStep DEF IInv
<1> QED
  BY <1>1, <1>2, PTL DEF Spec

(* tsqueue.c: without overrides and time-outs no call that its semaphore let      *)
(* through finds the queue full or empty, for any number of threads.           *)
THEOREM LetThroughServedHolds == Spec => []LetThroughServed
<1>1. Spec => []IInv
  BY Invariance
<1>2. IInv => LetThroughServed
  BY CountsServe
<1> QED
  BY <1>1, <1>2, PTL

-----------------------------------------------------------------------------
(* The ring is a queue.                                                     *)

(* The slot x places behind the first. *)
Place(x) == IF x < MaxItems THEN x ELSE x - MaxItems

(* Content, of any ring. *)
Contents(ring) == [i \in 1..ring.num |-> ring.items[(ring.tail + i - 1) % MaxItems]]

(* The next item goes behind the items there are. *)
Whole(ring) == ring \in Rings /\ ring.head = Place(ring.tail + ring.num)

(* A push that waits with the mutex found the ring full, and nobody takes from it. *)
ClaimsFull ==
  \A t \in Threads : at[t] = "claim" => t \in Producers /\ mutex = t /\ q.num = MaxItems

QueueInv == TypeOK /\ Whole(q) /\ ClaimsFull

(* Less than twice round the ring. *)
LEMMA PlaceIsRest == \A x \in 0..(2 * MaxItems - 1) : x % MaxItems = Place(x) /\ Place(x) \in Slots
<1> SUFFICES ASSUME NEW x \in 0..(2 * MaxItems - 1)
             PROVE  x % MaxItems = Place(x) /\ Place(x) \in Slots
  OBVIOUS
<1>1. PICK M \in Nat : M = MaxItems /\ M > 0
  BY TsQueueAssumption
<1>2. PICK a \in Nat, r \in 0..(M - 1) : x = M * a + r /\ r = x % M
  <2>1. x = M * (x \div M) + (x % M) /\ x \div M \in Nat /\ x % M \in 0..(M - 1)
    BY <1>1
  <2> QED
    BY <2>1
<1>3. x \in Nat /\ x < 2 * M
  BY <1>1
<1>4. a = 0 \/ a = 1
  <2>1. ASSUME a >= 2 PROVE FALSE
    <3>1. M * a >= M * 2
      BY <1>1, <2>1
    <3> QED
      BY <1>1, <1>2, <1>3, <3>1
  <2> QED
    BY <1>2, <2>1
<1>5. M * 0 = 0 /\ M * 1 = M
  BY <1>1
<1>6. r = IF x < M THEN x ELSE x - M
  BY <1>1, <1>2, <1>3, <1>4, <1>5
<1>7. x % MaxItems = Place(x)
  BY <1>1, <1>2, <1>6 DEF Place
<1>8. Place(x) \in Slots
  BY <1>1, <1>2, <1>6 DEF Place, Slots
<1> QED
  BY <1>7, <1>8

(* The slot after the one at x is the one at x + 1. *)
LEMMA FollowingPlace ==
  \A x \in 0..(2 * MaxItems - 2) : Following(Place(x)) = Place(x + 1)
<1>1. PICK M \in Nat : M = MaxItems /\ M > 0
  BY TsQueueAssumption
<1> QED
  BY <1>1 DEF Following, Place

(* The items of a ring are a sequence, and where they are. *)
LEMMA ContentsAre ==
  ASSUME NEW ring \in Rings
  PROVE  /\ Contents(ring) \in Seq(Items) /\ Len(Contents(ring)) = ring.num
         /\ \A i \in 1..ring.num : Contents(ring)[i] = ring.items[Place(ring.tail + i - 1)]
<1>1. PICK n \in 0..MaxItems, t \in Slots : n = ring.num /\ t = ring.tail
  BY DEF Rings
<1>2. MaxItems \in Nat /\ MaxItems > 0 /\ t \in 0..(MaxItems - 1)
  BY TsQueueAssumption DEF Slots
<1>3. ASSUME NEW i \in 1..n
      PROVE  (t + i - 1) % MaxItems = Place(t + i - 1) /\ Place(t + i - 1) \in Slots
  <2>1. t + i - 1 \in 0..(2 * MaxItems - 1)
    BY <1>2
  <2> QED
    BY <2>1, PlaceIsRest
<1>4. \A i \in 1..n : ring.items[(t + i - 1) % MaxItems] \in Items
  BY <1>3 DEF Rings
<1>5. Contents(ring) = [i \in 1..n |-> ring.items[(t + i - 1) % MaxItems]]
  BY <1>1 DEF Contents
<1>6. /\ Contents(ring) \in Seq(Items) /\ Len(Contents(ring)) = n
      /\ \A i \in 1..n : Contents(ring)[i] = ring.items[(t + i - 1) % MaxItems]
  <2> DEFINE e(i) == ring.items[(t + i - 1) % MaxItems]
  <2>1. \A i \in 1..n : e(i) \in Items
    BY <1>4
  <2>2. Contents(ring) = [i \in 1..n |-> e(i)]
    BY <1>5
  <2> HIDE DEF e
  <2>3. [i \in 1..n |-> e(i)] \in Seq(Items) /\ Len([i \in 1..n |-> e(i)]) = n
    BY <2>1
  <2>4. \A i \in 1..n : [j \in 1..n |-> e(j)][i] = e(i)
    OBVIOUS
  <2> QED
    BY <2>2, <2>3, <2>4 DEF e
<1> QED
  BY <1>1, <1>3, <1>6

(* Behind the items of a ring with room comes the new one. *)
LEMMA InsertAppends ==
  ASSUME NEW ring, Whole(ring), ring.num < MaxItems, NEW item \in Items,
         NEW new, new = [Filled(ring, item) EXCEPT !.num = @ + 1]
  PROVE  Whole(new) /\ Contents(new) = Append(Contents(ring), item)
<1>1. PICK n \in 0..MaxItems, t \in Slots, h \in Slots :
        n = ring.num /\ t = ring.tail /\ h = ring.head /\ h = Place(t + n)
  BY DEF Whole, Rings
<1>2. MaxItems \in Nat /\ MaxItems > 0 /\ t \in 0..(MaxItems - 1) /\ n < MaxItems /\ n \in Nat
  BY <1>1, TsQueueAssumption DEF Slots
<1>3. /\ new.num = n + 1 /\ new.tail = t /\ new.head = Following(h)
      /\ new.items = [ring.items EXCEPT ![h] = item]
  BY <1>1 DEF Whole, Rings, Filled
<1>4. Filled(ring, item) \in Rings
  BY RingTypes DEF Whole
<1>5. new \in Rings
  <2>1. Filled(ring, item).num + 1 \in 0..MaxItems
    <3>1. Filled(ring, item).num = n
      BY <1>1 DEF Filled, Whole, Rings
    <3> QED
      BY <1>2, <3>1
  <2> QED
    BY <1>4, <2>1 DEF Rings
<1>6. new.head = Place(new.tail + new.num)
  <2>1. t + n \in 0..(2 * MaxItems - 2) /\ t + n + 1 = t + (n + 1)
    BY <1>2
  <2>2. Following(Place(t + n)) = Place(t + n + 1)
    BY <2>1, FollowingPlace
  <2>3. new.head = Following(Place(t + n)) /\ new.tail = t /\ new.num = n + 1
    BY <1>1, <1>3
  <2> QED
    BY <2>1, <2>2, <2>3
<1>7. ASSUME NEW i \in 1..n PROVE new.items[Place(t + i - 1)] = ring.items[Place(t + i - 1)]
  <2>1. Place(t + i - 1) # h
    BY <1>1, <1>2 DEF Place
  <2>2. ring.items \in [Slots -> Items]
    BY DEF Whole, Rings
  <2>3. t + i - 1 \in 0..(2 * MaxItems - 1)
    BY <1>2
  <2>4. Place(t + i - 1) \in Slots
    BY <2>3, PlaceIsRest
  <2> QED
    BY <1>3, <2>1, <2>2, <2>4
<1>8. new.items[Place(t + (n + 1) - 1)] = item
  <2>1. t + (n + 1) - 1 = t + n
    BY <1>2
  <2>2. h \in Slots /\ ring.items \in [Slots -> Items]
    BY DEF Whole, Rings
  <2> QED
    BY <1>1, <1>3, <2>1, <2>2
<1>9. /\ Contents(ring) \in Seq(Items) /\ Len(Contents(ring)) = n
      /\ \A i \in 1..n : Contents(ring)[i] = ring.items[Place(t + i - 1)]
  BY <1>1, ContentsAre DEF Whole
<1>10. /\ Contents(new) \in Seq(Items) /\ Len(Contents(new)) = n + 1
       /\ \A i \in 1..(n + 1) : Contents(new)[i] = new.items[Place(t + i - 1)]
  BY <1>3, <1>5, ContentsAre
<1>11. PICK a : a = Append(Contents(ring), item)
  OBVIOUS
<1>12. a \in Seq(Items) /\ Len(a) = n + 1 /\ a[n + 1] = item /\ \A i \in 1..n : a[i] = Contents(ring)[i]
  BY <1>9, <1>11, AppendProperties
<1>13. ASSUME NEW i \in 1..(n + 1) PROVE Contents(new)[i] = a[i]
  <2>1. CASE i = n + 1
    BY <1>8, <1>10, <1>12, <2>1
  <2>2. CASE i \in 1..n
    <3>1. Contents(new)[i] = new.items[Place(t + i - 1)]
      BY <1>10, Zenon
    <3>2. a[i] = ring.items[Place(t + i - 1)]
      BY <1>9, <1>12, <2>2, Zenon
    <3> QED
      BY <1>7, <2>2, <3>1, <3>2, Zenon
  <2> QED
    BY <1>2, <2>1, <2>2
<1>14. Contents(new) = a
  BY <1>10, <1>12, <1>13, SeqEqual
<1> QED
  BY <1>5, <1>6, <1>11, <1>14 DEF Whole

(* In a full ring the new item takes the place of the oldest. *)
LEMMA OverrideAppends ==
  ASSUME NEW ring, Whole(ring), ring.num = MaxItems, NEW item \in Items,
         NEW new, new = Overridden(ring, item)
  PROVE  Whole(new) /\ Contents(new) = Append(Tail(Contents(ring)), item)
<1>1. PICK n \in Nat, t \in Slots : n = MaxItems /\ n > 0 /\ t = ring.tail
  BY TsQueueAssumption DEF Whole, Rings
<1>2. t \in 0..(n - 1)
  BY <1>1 DEF Slots
<1>3. ring.head = t
  BY <1>1, <1>2 DEF Whole, Place
<1>4. PICK u \in Slots : u = Following(t) /\ u = Place(t + 1)
  <2>1. Place(t) = t /\ t \in 0..(2 * MaxItems - 2)
    BY <1>1, <1>2 DEF Place
  <2> QED
    BY <1>1, <2>1, FollowingPlace, FollowingType
<1>5. /\ new.num = n /\ new.tail = u /\ new.head = u
      /\ new.items = [ring.items EXCEPT ![t] = item]
  BY <1>1, <1>3, <1>4 DEF Whole, Rings, Filled, Overridden
<1>6. new \in Rings
  BY RingTypes DEF Whole
<1>7. u \in 0..(n - 1)
  BY <1>1, <1>4 DEF Slots
<1>8. new.head = Place(new.tail + new.num)
  BY <1>1, <1>5, <1>7 DEF Place
<1>9. ASSUME NEW i \in 1..(n - 1)
      PROVE  new.items[Place(u + i - 1)] = ring.items[Place(t + (i + 1) - 1)]
  <2>1. Place(u + i - 1) = Place(t + (i + 1) - 1)
    BY <1>1, <1>2, <1>4 DEF Place
  <2>2. Place(t + (i + 1) - 1) # t
    BY <1>1, <1>2 DEF Place
  <2> QED
    BY <1>5, <2>1, <2>2
<1>10. new.items[Place(u + n - 1)] = item
  <2>1. Place(u + n - 1) = t
    BY <1>1, <1>2, <1>4 DEF Place
  <2>2. ring.items \in [Slots -> Items]
    BY DEF Whole, Rings
  <2> QED
    BY <1>5, <2>1, <2>2
<1>11. /\ Contents(ring) \in Seq(Items) /\ Len(Contents(ring)) = n
       /\ \A i \in 1..n : Contents(ring)[i] = ring.items[Place(t + i - 1)]
  BY <1>1, ContentsAre DEF Whole
<1>12. /\ Contents(new) \in Seq(Items) /\ Len(Contents(new)) = n
       /\ \A i \in 1..n : Contents(new)[i] = new.items[Place(u + i - 1)]
  BY <1>5, <1>6, ContentsAre
<1>13. PICK b : b = Tail(Contents(ring))
  OBVIOUS
<1>14. b \in Seq(Items) /\ Len(b) = n - 1 /\ \A i \in 1..(n - 1) : b[i] = Contents(ring)[i + 1]
  <2>1. Contents(ring) # <<>>
    BY <1>1, <1>11
  <2>2. /\ b \in Seq(Items) /\ Len(b) = Len(Contents(ring)) - 1
        /\ \A i \in 1..Len(b) : b[i] = Contents(ring)[i + 1]
    BY <1>11, <1>13, <2>1, HeadTailProperties
  <2> QED
    BY <1>11, <2>2
<1>15. PICK a : a = Append(b, item)
  OBVIOUS
<1>16. a \in Seq(Items) /\ Len(a) = n /\ a[n] = item /\ \A i \in 1..(n - 1) : a[i] = b[i]
  <2>1. /\ a \in Seq(Items) /\ Len(a) = Len(b) + 1 /\ a[Len(b) + 1] = item
        /\ \A i \in 1..Len(b) : a[i] = b[i]
    BY <1>14, <1>15, AppendProperties
  <2>2. n - 1 + 1 = n
    BY <1>1
  <2> QED
    BY <1>14, <2>1, <2>2
<1>17. ASSUME NEW i \in 1..n PROVE Contents(new)[i] = a[i]
  <2>1. CASE i = n
    BY <1>10, <1>12, <1>16, <2>1
  <2>2. CASE i \in 1..(n - 1)
    <3>1. Contents(new)[i] = ring.items[Place(t + (i + 1) - 1)]
      BY <1>9, <1>12, <2>2
    <3>2. i + 1 \in 1..n /\ Contents(ring)[i + 1] = ring.items[Place(t + (i + 1) - 1)]
      BY <1>1, <1>11, <2>2
    <3>3. a[i] = Contents(ring)[i + 1]
      BY <1>14, <1>16, <2>2
    <3> QED
      BY <3>1, <3>2, <3>3
  <2> QED
    BY <1>1, <2>1, <2>2
<1>18. Contents(new) = a
  BY <1>12, <1>16, <1>17, SeqEqual
<1> QED
  BY <1>6, <1>8, <1>13, <1>15, <1>18 DEF Whole

(* The oldest item is taken. *)
LEMMA RemoveTakes ==
  ASSUME NEW ring, Whole(ring), ring.num # 0,
         NEW new, new = [ring EXCEPT !.tail = Following(@), !.num = @ - 1]
  PROVE  Whole(new) /\ Contents(new) = Tail(Contents(ring))
<1>1. PICK n \in Nat, t \in Slots :
        n + 1 = ring.num /\ t = ring.tail /\ ring.head = Place(t + (n + 1)) /\ n + 1 <= MaxItems
  <2>1. ring.num \in 0..MaxItems /\ ring.tail \in Slots
    BY DEF Whole, Rings
  <2>2. ring.num - 1 \in Nat /\ ring.num - 1 + 1 = ring.num /\ ring.num <= MaxItems
    BY <2>1, TsQueueAssumption
  <2> QED
    BY <2>1, <2>2 DEF Whole
<1>2. MaxItems \in Nat /\ MaxItems > 0 /\ t \in 0..(MaxItems - 1)
  BY TsQueueAssumption DEF Slots
<1>3. PICK u \in Slots : u = Following(t) /\ u = Place(t + 1)
  <2>1. Place(t) = t /\ t \in 0..(2 * MaxItems - 2)
    BY <1>2 DEF Place
  <2> QED
    BY <2>1, FollowingPlace, FollowingType
<1>4. new.num = n /\ new.tail = u /\ new.head = ring.head /\ new.items = ring.items
  <2>1. new.num = ring.num - 1
    BY DEF Whole, Rings
  <2>2. ring.num - 1 = n
    BY <1>1
  <2> QED
    BY <1>1, <1>3, <2>1, <2>2 DEF Whole, Rings
<1>5. new \in Rings
  <2>1. ring.num - 1 \in 0..MaxItems /\ Following(ring.tail) \in Slots
    BY <1>1, <1>2, <1>3
  <2> QED
    BY <2>1 DEF Whole, Rings
<1>6. u \in 0..(MaxItems - 1)
  BY <1>2, <1>3 DEF Slots
<1>7. new.head = Place(new.tail + new.num)
  <2>1. Place(u + n) = Place(t + (n + 1))
    BY <1>1, <1>2, <1>3 DEF Place
  <2> QED
    BY <1>1, <1>4, <2>1
<1>8. ASSUME NEW i \in 1..n PROVE Place(u + i - 1) = Place(t + (i + 1) - 1)
  BY <1>1, <1>2, <1>3 DEF Place
<1>9. /\ Contents(ring) \in Seq(Items) /\ Len(Contents(ring)) = n + 1
      /\ \A i \in 1..(n + 1) : Contents(ring)[i] = ring.items[Place(t + i - 1)]
  BY <1>1, ContentsAre DEF Whole
<1>10. /\ Contents(new) \in Seq(Items) /\ Len(Contents(new)) = n
       /\ \A i \in 1..n : Contents(new)[i] = ring.items[Place(u + i - 1)]
  <2>1. /\ Contents(new) \in Seq(Items) /\ Len(Contents(new)) = new.num
        /\ \A i \in 1..new.num : Contents(new)[i] = new.items[Place(new.tail + i - 1)]
    BY <1>5, ContentsAre
  <2> QED
    BY <1>4, <2>1, ZenonT(60)
<1>11. PICK b : b = Tail(Contents(ring))
  OBVIOUS
<1>12. b \in Seq(Items) /\ Len(b) = n /\ \A i \in 1..n : b[i] = Contents(ring)[i + 1]
  <2>1. Contents(ring) # <<>>
    BY <1>1, <1>9
  <2>2. /\ b \in Seq(Items) /\ Len(b) = Len(Contents(ring)) - 1
        /\ \A i \in 1..Len(b) : b[i] = Contents(ring)[i + 1]
    BY <1>9, <1>11, <2>1, HeadTailProperties
  <2>3. n + 1 - 1 = n
    BY <1>1
  <2> QED
    BY <1>9, <2>2, <2>3
<1>13. ASSUME NEW i \in 1..n PROVE Contents(new)[i] = b[i]
  <2>1. i + 1 \in 1..(n + 1)
    BY <1>1
  <2> QED
    BY <1>8, <1>9, <1>10, <1>12, <2>1
<1>14. Contents(new) = b
  BY <1>10, <1>12, <1>13, SeqEqual
<1> QED
  BY <1>5, <1>7, <1>11, <1>14 DEF Whole

-----------------------------------------------------------------------------
(* Initially the ring is empty, and nobody waits with the mutex. *)
LEMMA InitQueue == Init => QueueInv
<1> SUFFICES ASSUME Init PROVE QueueInv
  OBVIOUS
<1>1. TypeOK
  BY InitHolds DEF IInv
<1>2. q.head = 0 /\ q.tail = 0 /\ q.num = 0 /\ at = [t \in Threads |-> "user"]
  BY DEF Init
<1>3. Place(0 + 0) = 0
  BY TsQueueAssumption DEF Place
<1>4. q \in Rings
  BY <1>1 DEF TypeOK, Rings
<1>5. ClaimsFull
  BY <1>2 DEF ClaimsFull
<1> QED
  BY <1>1, <1>2, <1>3, <1>4, <1>5 DEF QueueInv, Whole

(* What a step may do with the ring. *)
Step ==
  \/ q' = q
  \/ \E p \in Producers :
       /\ at[p] # "posting" /\ at'[p] = "posting"
       /\ \/ q.num < MaxItems /\ q' = [Filled(q, arg[p].item) EXCEPT !.num = @ + 1]
          \/ q.num = MaxItems /\ q' = Overridden(q, arg[p].item)
  \/ q.num # 0 /\ q' = [q EXCEPT !.tail = Following(@), !.num = @ - 1]

(* Only who has the mutex, or takes and returns it, changes the ring. *)
LEMMA StepsOfRing ==
  ASSUME QueueInv, [Next]_vars PROVE Step /\ ClaimsFull'
<1>t. TypeOK /\ ClaimsFull /\ NoThread \notin Threads
  BY TsQueueAssumption DEF QueueInv
<1>a. at \in [Threads -> {"user", "wait", "lock", "claim", "posting"}]
  BY <1>t DEF TypeOK
<1>1. ASSUME NEW t \in Threads, NEW place, place # "claim", Goto(t, place),
             q' = q, mutex' = mutex
      PROVE  Step /\ ClaimsFull'
  <2>1. \A u \in Threads : at'[u] = "claim" => at[u] = "claim"
    BY <1>a, <1>1 DEF Goto
  <2> QED
    BY <1>1, <1>t, <2>1 DEF Step, ClaimsFull
<1>2. ASSUME NEW p \in Producers, Push(p) PROVE Step /\ ClaimsFull'
  <2>1. q' = q /\ mutex' = mutex /\ (Goto(p, "lock") \/ Goto(p, "wait"))
    BY <1>2 DEF Push
  <2> QED
    BY <1>1, <2>1, Apart
<1>3. ASSUME NEW c \in Consumers, Take(c) PROVE Step /\ ClaimsFull'
  BY <1>1, <1>3, Apart DEF Take
<1>4. ASSUME NEW t \in Threads,
             \/ WaitForPlace(t) \/ WaitForItem(t) \/ WaitTimesOut(t) \/ InsertFails(t)
             \/ PostItem(t) \/ PostPlace(t) \/ WaitFails(t) \/ OverrideFails(t)
      PROVE  Step /\ ClaimsFull'
  <2>1. /\ q' = q /\ mutex' = mutex
        /\ Goto(t, "lock") \/ Goto(t, "posting") \/ Goto(t, "user")
    BY <1>4 DEF WaitForPlace, WaitForItem, WaitTimesOut, InsertFails, PostItem, PostPlace, Return,
                WaitFails, OverrideFails
  <2> QED
    BY <1>1, <2>1
<1>5. ASSUME NEW t \in Threads, Locks(t), Goto(t, "posting") PROVE ClaimsFull'
  <2>1. \A u \in Threads : at[u] # "claim"
    BY <1>t, <1>5 DEF Locks, ClaimsFull
  <2> QED
    BY <1>a, <1>5, <2>1 DEF Goto, ClaimsFull
<1>6. ASSUME NEW p \in Producers, Insert(p) PROVE Step /\ ClaimsFull'
  <2>1. /\ Locks(p) /\ Goto(p, "posting") /\ q.num < MaxItems
        /\ q' = [Filled(q, arg[p].item) EXCEPT !.num = @ + 1]
    BY <1>6 DEF Insert
  <2>2. at[p] # "posting" /\ at'[p] = "posting"
    BY <1>a, <2>1, Apart DEF Locks, Goto
  <2>3. Step
    BY <2>1, <2>2 DEF Step
  <2> QED
    BY <1>5, <2>1, <2>3, Apart
<1>7. ASSUME NEW p \in Producers, LockToOverride(p) PROVE Step /\ ClaimsFull'
  <2>1. /\ mutex = NoThread /\ q.num = MaxItems /\ mutex' = p /\ q' = q
        /\ at' = [at EXCEPT ![p] = "claim"]
    BY <1>7 DEF LockToOverride, Locks, Goto
  <2>2. \A u \in Threads : at[u] # "claim"
    BY <1>t, <2>1 DEF ClaimsFull
  <2> QED
    BY <1>a, <2>1, <2>2 DEF Step, ClaimsFull
<1>8. ASSUME NEW p \in Producers, Override(p) PROVE Step /\ ClaimsFull'
  <2>1. /\ at[p] = "claim" /\ Goto(p, "posting") /\ q' = Overridden(q, arg[p].item)
    BY <1>8 DEF Override
  <2>2. p \in Threads
    BY Apart
  <2>3. mutex = p /\ q.num = MaxItems
    BY <1>t, <2>1, <2>2 DEF ClaimsFull
  <2>4. at[p] # "posting" /\ at'[p] = "posting"
    BY <1>a, <2>1, <2>2 DEF Goto
  <2>5. Step
    BY <2>1, <2>3, <2>4 DEF Step
  <2>6. ASSUME NEW u \in Threads PROVE at'[u] # "claim"
    <3>1. CASE u = p
      BY <2>4, <3>1
    <3>2. CASE u # p
      <4>1. at[u] # "claim"
        BY <1>t, <2>3, <3>2 DEF ClaimsFull
      <4> QED
        BY <1>a, <2>1, <2>2, <3>2, <4>1 DEF Goto
    <3> QED
      BY <3>1, <3>2
  <2> QED
    BY <2>5, <2>6 DEF ClaimsFull
<1>9. ASSUME NEW c \in Consumers, Remove(c) PROVE Step /\ ClaimsFull'
  <2>1. Locks(c) /\ Goto(c, "posting")
    BY <1>9 DEF Remove
  <2>2. Step
    <3>1. CASE arg[c].peek \/ q.num = 0
      BY <1>9, <3>1 DEF Remove, Step
    <3>2. CASE ~(arg[c].peek \/ q.num = 0)
      <4>1. q' = [q EXCEPT !.tail = Following(@), !.num = @ - 1]
        BY <1>9, <3>2 DEF Remove
      <4> QED
        BY <3>2, <4>1 DEF Step
    <3> QED
      BY <3>1, <3>2
  <2> QED
    BY <1>5, <2>1, <2>2, Apart
<1>10. CASE UNCHANGED vars
  BY <1>t, <1>10 DEF vars, Step, ClaimsFull
<1> QED
  BY <1>2, <1>3, <1>4, <1>6, <1>7, <1>8, <1>9, <1>10, Apart DEF Next, ProducerStep, ConsumerStep

(* What that does with the items. *)
LEMMA StepsOfContent ==
  ASSUME QueueInv, Step
  PROVE  /\ Whole(q')
         /\ \/ Content' = Content
            \/ \E p \in Producers :
                 /\ at[p] # "posting" /\ at'[p] = "posting"
                 /\ \/ q.num < MaxItems /\ Content' = Append(Content, arg[p].item)
                    \/ q.num = MaxItems /\ Content' = Append(Tail(Content), arg[p].item)
            \/ q.num > 0 /\ Content' = Tail(Content)
<1>1. Content = Contents(q) /\ Content' = Contents(q')
  BY DEF Content, Contents
<1>2. Whole(q) /\ \A t \in Threads : arg[t].item \in Items
  BY DEF QueueInv, TypeOK
<1>3. q.num \in 0..MaxItems /\ MaxItems \in Nat
  BY <1>2, TsQueueAssumption DEF Whole, Rings
<1>4. CASE q' = q
  BY <1>1, <1>2, <1>4
<1>5. ASSUME NEW p \in Producers, at[p] # "posting", at'[p] = "posting", q.num < MaxItems,
             q' = [Filled(q, arg[p].item) EXCEPT !.num = @ + 1]
      PROVE  Whole(q') /\ Content' = Append(Content, arg[p].item)
  <2>1. arg[p].item \in Items
    BY <1>2, Apart
  <2>2. PICK r, x : r = q /\ x = arg[p].item
    OBVIOUS
  <2>3. PICK new : new = [Filled(r, x) EXCEPT !.num = @ + 1]
    OBVIOUS
  <2>4. Whole(new) /\ Contents(new) = Append(Contents(r), x)
    BY <1>2, <1>5, <2>1, <2>2, <2>3, InsertAppends
  <2> QED
    BY <1>1, <1>5, <2>2, <2>3, <2>4
<1>6. ASSUME NEW p \in Producers, at[p] # "posting", at'[p] = "posting", q.num = MaxItems,
             q' = Overridden(q, arg[p].item)
      PROVE  Whole(q') /\ Content' = Append(Tail(Content), arg[p].item)
  <2>1. arg[p].item \in Items
    BY <1>2, Apart
  <2> QED
    BY <1>1, <1>2, <1>6, <2>1, OverrideAppends
<1>7. ASSUME q.num # 0, q' = [q EXCEPT !.tail = Following(@), !.num = @ - 1]
      PROVE  Whole(q') /\ Content' = Tail(Content) /\ q.num > 0
  <2>1. PICK r : r = q
    OBVIOUS
  <2>2. PICK new : new = [r EXCEPT !.tail = Following(@), !.num = @ - 1]
    OBVIOUS
  <2>3. Whole(new) /\ Contents(new) = Tail(Contents(r))
    BY <1>2, <1>7, <2>1, <2>2, RemoveTakes
  <2> QED
    BY <1>1, <1>3, <1>7, <2>1, <2>2, <2>3
<1> QED
  BY <1>2, <1>4, <1>5, <1>6, <1>7, Zenon DEF Step

(* The ring stays one whose indices and number agree. *)
LEMMA QueueStep == QueueInv /\ [Next]_vars => QueueInv'
<1> SUFFICES ASSUME QueueInv, [Next]_vars PROVE QueueInv'
  OBVIOUS
<1>1. TypeOK'
  BY TypeStep DEF QueueInv
<1>2. Step /\ ClaimsFull'
  BY StepsOfRing
<1>3. Whole(q')
  BY <1>2, StepsOfContent
<1> QED
  BY <1>1, <1>2, <1>3 DEF QueueInv

(* tsqueue.c: whatever threads push, pop and peek, with and without overrides and *)
(* time-outs, and however long the ring is, each step does with its items what a   *)
(* queue does.                                                               *)
THEOREM ActsAsQueueHolds == Spec => ActsAsQueue
<1> DEFINE Appended(s) == \E p \in Producers :
                            /\ at[p] # "posting" /\ at'[p] = "posting"
                            /\ Content' = Append(s, arg[p].item)
           Allowed == \/ Content' = Content
                      \/ q.num < MaxItems /\ Appended(Content)
                      \/ q.num = MaxItems /\ Appended(Tail(Content))
                      \/ q.num > 0 /\ Content' = Tail(Content)
<1>1. Init => QueueInv
  BY InitQueue
<1>2. QueueInv /\ [Next]_vars => QueueInv'
  BY QueueStep
<1>3. QueueInv /\ [Next]_vars => [Allowed]_vars
  <2> SUFFICES ASSUME QueueInv, [Next]_vars PROVE Allowed
    OBVIOUS
  <2>1. Step
    BY StepsOfRing
  <2> QED
    BY <2>1, StepsOfContent, Zenon
<1>4. Spec => [][Allowed]_vars
  BY <1>1, <1>2, <1>3, PTL DEF Spec
<1> QED
  BY <1>4 DEF ActsAsQueue
=============================================================================
