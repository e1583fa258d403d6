------------------------------ MODULE DbProofs ------------------------------
(***************************************************************************)
(* Proofs about module Db, for every set of keys, values and handlers, for *)
(* every set of durations and for every bound.                             *)
(***************************************************************************)
EXTENDS Db, WellFoundedInduction, TLAPS

-----------------------------------------------------------------------------
(***************************************************************************)
(* Every non-empty set of instants has an earliest one.                    *)
(***************************************************************************)
LEMMA EarliestExists ==
    ASSUME NEW T \in SUBSET Nat, T # {}
    PROVE  \E t \in T : \A u \in T : t <= u
<1> DEFINE R == {ss \in Nat \X Nat : ss[1] < ss[2]}
<1>1. IsWellFoundedOn(R, Nat)
  BY NatLessThanWellFounded DEF OpToRel
<1>2. PICK t \in T : \A u \in T : <<u, t>> \notin R
  <2> HIDE DEF R
  <2> QED  BY <1>1, WFMin
<1>3. \A u \in T : t <= u
  <2> TAKE u \in T
  <2>1. <<u, t>> \notin R
    BY <1>2
  <2>2. u \in Nat /\ t \in Nat
    OBVIOUS
  <2>3. ~(u < t)
    BY <2>1, <2>2
  <2> QED  BY <2>2, <2>3
<1> QED  BY <1>3

\* An optional duration gives an optional deadline.
LEMMA DeadlineType ==
    ASSUME now \in Nat, NEW ttl \in Opt(Durations)
    PROVE  Deadline(ttl) \in Opt(Nat)
BY DurationsAssumption DEF Opt, Deadline

\* The earliest expiration is unique when there is one.
LEMMA NextExpirationType ==
    ASSUME NEW exp \in SUBSET Expiration
    PROVE  NextExpiration(exp) \in Opt(Nat)
<1>1. \A x \in exp : x.when \in Nat
  BY DEF Expiration
<1>2. NextExpiration(exp) \in SUBSET Nat
  BY <1>1 DEF NextExpiration
<1>3. \A s, t \in NextExpiration(exp) : s = t
  BY <1>1 DEF NextExpiration
<1> QED  BY <1>2, <1>3 DEF Opt

\* The earliest expiration covers all the others.
LEMMA NextExpirationCovers ==
    ASSUME NEW exp \in SUBSET Expiration, NEW x \in exp
    PROVE  \E t \in NextExpiration(exp) : t <= x.when
<1> DEFINE T == {y.when : y \in exp}
<1>1. T \in SUBSET Nat /\ T # {}
  BY DEF Expiration
<1>2. PICK t \in T : \A u \in T : t <= u
  <2> HIDE DEF T
  <2> QED  BY <1>1, EarliestExists
<1>3. t \in NextExpiration(exp)
  BY <1>2 DEF NextExpiration
<1>4. t <= x.when
  BY <1>2
<1> QED  BY <1>3, <1>4

-----------------------------------------------------------------------------
(***************************************************************************)
(* Type correctness.                                                       *)
(***************************************************************************)

LEMMA TypeOKInit == Init => TypeOK
<1> SUFFICES ASSUME Init
             PROVE  TypeOK
  OBVIOUS
<1>1. {} \in Opt(Entry) /\ {} \in Opt(Nat) /\ {} \in Opt(Values)
  BY DEF Opt
<1>2. entries \in [Keys -> Opt(Entry)] /\ reply \in [Handlers -> Opt(Values)]
  BY <1>1 DEF Init
<1>3. handler \in [Handlers -> {"idle", "notify", "panicked"}]
  BY DEF Init
<1>4. expirations \subseteq Expiration /\ next_id \in Nat /\ now \in Nat /\ wake_at \in Opt(Nat)
  BY <1>1 DEF Init
<1>5. /\ shutdown \in BOOLEAN /\ poisoned \in BOOLEAN
      /\ permit \in BOOLEAN /\ notified \in BOOLEAN
  BY DEF Init
<1>6. /\ task \in {"check", "purge", "poll", "parked", "done", "dead"}
      /\ guard \in {"held", "notify", "dropped", "panicked"}
  BY DEF Init
<1> QED  BY <1>2, <1>3, <1>4, <1>5, <1>6 DEF TypeOK

LEMMA TypeOKNext == TypeOK /\ [Next]_vars => TypeOK'
<1> SUFFICES ASSUME TypeOK, [Next]_vars
             PROVE  TypeOK'
  OBVIOUS
<1> USE DEF TypeOK
<1>1. ASSUME NEW h \in Handlers, LockPanics(h)
      PROVE  TypeOK'
  BY <1>1 DEF LockPanics, state, background
<1>2. ASSUME NEW h \in Handlers, NEW k \in Keys, Get(h, k)
      PROVE  TypeOK'
  <2>1. {e.data : e \in entries[k]} \in Opt(Values)
    BY DEF Opt, Entry
  <2> QED  BY <1>2, <2>1 DEF Get, state, background
<1>3. ASSUME NEW h \in Handlers, NEW k \in Keys, NEW v \in Values,
             NEW ttl \in Opt(Durations), Set(h, k, v, ttl)
      PROVE  TypeOK'
  <2> DEFINE new == [id |-> next_id, data |-> v, expires_at |-> Deadline(ttl)]
  <2>1. Deadline(ttl) \in Opt(Nat)
    BY DeadlineType
  <2>2. entries' \in [Keys -> Opt(Entry)]
    <3>1. new \in Entry
      BY <2>1 DEF Entry
    <3>2. {new} \in Opt(Entry)
      BY <3>1 DEF Opt
    <3> QED  BY <1>3, <3>2 DEF Set
  <2>3. expirations' \subseteq Expiration
    <3>1. \A t \in Deadline(ttl) : [when |-> t, id |-> next_id, key |-> k] \in Expiration
      BY <2>1 DEF Opt, Expiration
    <3>2. Inserted(expirations, Deadline(ttl), k) \subseteq Expiration
      BY <3>1 DEF Inserted
    <3> QED  BY <1>3, <3>2 DEF Set, Removed
  <2>4. next_id' \in Nat /\ handler' \in [Handlers -> {"idle", "notify", "panicked"}]
    BY <1>3 DEF Set
  <2> QED  BY <1>3, <2>2, <2>3, <2>4 DEF Set, background
<1>4. ASSUME NEW h \in Handlers, NEW ttl \in Opt(Durations), SetOverflows(h, ttl)
      PROVE  TypeOK'
  BY <1>4 DEF SetOverflows, background
<1>5. ASSUME NEW h \in Handlers, SetNotifies(h)
      PROVE  TypeOK'
  BY <1>5 DEF SetNotifies, NotifyOne, state
<1>6. CASE SignalShutdown
  BY <1>6 DEF SignalShutdown, background
<1>7. CASE ShutdownNotifies
  BY <1>7 DEF ShutdownNotifies, NotifyOne, state
<1>8. CASE TaskPanics
  BY <1>8 DEF TaskPanics, state
<1>9. CASE Check
  BY <1>9 DEF Check, state
<1>10. CASE Purge
  <2>1. entries' \in [Keys -> Opt(Entry)]
    BY <1>10 DEF Purge, Opt
  <2>2. expirations' \subseteq Expiration
    BY <1>10 DEF Purge
  <2>3. wake_at' \in Opt(Nat)
    <3>1. NextExpiration(expirations') \in Opt(Nat)
      BY <2>2, NextExpirationType
    <3>2. {} \in Opt(Nat)
      BY DEF Opt
    <3> QED  BY <1>10, <3>1, <3>2 DEF Purge
  <2> QED  BY <1>10, <2>1, <2>2, <2>3 DEF Purge
<1>11. CASE Poll
  BY <1>11 DEF Poll, state
<1>12. CASE WakeNotified
  BY <1>12 DEF WakeNotified, state
<1>13. CASE WakeElapsed
  BY <1>13 DEF WakeElapsed, state
<1>14. CASE Tick
  BY <1>14 DEF Tick, state, background
<1>15. CASE UNCHANGED vars
  BY <1>15 DEF vars, state, background
<1> QED
  BY <1>1, <1>2, <1>3, <1>4, <1>5, <1>6, <1>7, <1>8, <1>9, <1>10, <1>11, <1>12,
     <1>13, <1>14, <1>15 DEF Next, Call, Task

(***************************************************************************)
(* Every variable keeps its type, whatever the constants.                  *)
(***************************************************************************)
THEOREM TypeCorrect == Spec => []TypeOK
BY TypeOKInit, TypeOKNext, PTL DEF Spec

-----------------------------------------------------------------------------
(***************************************************************************)
(* The index of expirations and the entries.  ExpirationsMatchEntries is   *)
(* not inductive by itself: that set removes only the expiration of the    *)
(* value it replaces needs identifiers that were never given out before.   *)
(***************************************************************************)

IndexInv == ExpirationsMatchEntries /\ IdsAreFresh

LEMMA IndexInvInit == Init => IndexInv
BY DEF Init, IndexInv, ExpirationsMatchEntries, IdsAreFresh

\* An expiration that set leaves in the index: the one it added, or one that
\* was there and belongs to another key.
LEMMA SetIndex ==
    ASSUME TypeOK, IndexInv, NEW k \in Keys, NEW ttl \in Opt(Durations)
    PROVE  \A x : x \in Removed(Inserted(expirations, Deadline(ttl), k), entries[k]) <=>
              \/ x \in expirations /\ x.key # k
              \/ \E t \in Deadline(ttl) : x = [when |-> t, id |-> next_id, key |-> k]
<1> DEFINE exp == Removed(Inserted(expirations, Deadline(ttl), k), entries[k])
<1> USE DEF TypeOK, IndexInv
<1>1. \A x \in expirations : x.id < next_id /\ x.id \in Nat
  BY DEF ExpirationsMatchEntries, IdsAreFresh, Expiration
<1>2. ASSUME NEW x \in exp
      PROVE  \/ x \in expirations /\ x.key # k
             \/ \E t \in Deadline(ttl) : x = [when |-> t, id |-> next_id, key |-> k]
  <2>1. CASE x \in expirations
    <3>1. PICK e \in entries[x.key] : e.id = x.id /\ e.expires_at = {x.when}
      BY <2>1 DEF ExpirationsMatchEntries
    <3>2. ~(e \in entries[k])
      BY <1>2, <3>1 DEF Removed
    <3> QED  BY <2>1, <3>1, <3>2
  <2> QED  BY <1>2, <2>1 DEF Removed, Inserted
<1>3. ASSUME NEW x \in expirations, x.key # k
      PROVE  x \in exp
  <2>1. x \in Inserted(expirations, Deadline(ttl), k)
    BY <1>1 DEF Inserted
  <2>2. PICK f \in entries[x.key] : f.id = x.id
    BY DEF ExpirationsMatchEntries
  <2>3. \A e \in entries[k] : x.id # e.id
    BY <1>3, <2>2 DEF IdsAreFresh, Expiration
  <2> QED  BY <2>1, <2>3 DEF Removed
<1>4. ASSUME NEW t \in Deadline(ttl)
      PROVE  [when |-> t, id |-> next_id, key |-> k] \in exp
  <2>1. \A e \in entries[k] : e.id < next_id
    BY DEF IdsAreFresh
  <2> QED  BY <2>1 DEF Removed, Inserted
<1> QED  BY <1>2, <1>3, <1>4

LEMMA IndexInvSet ==
    ASSUME TypeOK, IndexInv, NEW h \in Handlers, NEW k \in Keys, NEW v \in Values,
           NEW ttl \in Opt(Durations), Set(h, k, v, ttl)
    PROVE  IndexInv'
<1> DEFINE new == [id |-> next_id, data |-> v, expires_at |-> Deadline(ttl)]
<1> USE DEF TypeOK, IndexInv
<1>1. entries'[k] = {new} /\ \A j \in Keys : j # k => entries'[j] = entries[j]
  BY DEF Set
<1>2. \A x : x \in expirations' <=>
         \/ x \in expirations /\ x.key # k
         \/ \E t \in Deadline(ttl) : x = [when |-> t, id |-> next_id, key |-> k]
  BY SetIndex DEF Set
<1>3. Deadline(ttl) \in Opt(Nat)
  BY DeadlineType
<1>4. ExpirationsMatchEntries'
  <2>1. ASSUME NEW x \in expirations'
        PROVE  \E e \in entries'[x.key] : e.id = x.id /\ e.expires_at = {x.when}
    <3>1. CASE x \in expirations /\ x.key # k
      BY <1>1, <3>1 DEF ExpirationsMatchEntries, Expiration
    <3>2. ASSUME NEW t \in Deadline(ttl), x = [when |-> t, id |-> next_id, key |-> k]
          PROVE  \E e \in entries'[x.key] : e.id = x.id /\ e.expires_at = {x.when}
      <4>1. Deadline(ttl) = {t}
        BY <1>3 DEF Opt
      <4>2. x.key = k /\ x.id = next_id /\ x.when = t
        BY <3>2
      <4>3. new.id = next_id /\ new.expires_at = {t}
        BY <4>1
      <4> HIDE DEF new
      <4> QED  BY <1>1, <4>2, <4>3
    <3> QED  BY <1>2, <3>1, <3>2
  <2>2. ASSUME NEW j \in Keys, NEW e \in entries'[j], NEW t \in e.expires_at
        PROVE  [when |-> t, id |-> e.id, key |-> j] \in expirations'
    <3>1. CASE j = k
      BY <1>1, <1>2, <2>2, <3>1
    <3>2. CASE j # k
      BY <1>1, <1>2, <2>2, <3>2 DEF ExpirationsMatchEntries
    <3> QED  BY <3>1, <3>2
  <2> QED  BY <2>1, <2>2 DEF ExpirationsMatchEntries
<1>5. IdsAreFresh'
  <2>1. next_id' = next_id + 1 /\ next_id \in Nat
    BY DEF Set
  <2>2. \A j \in Keys : \A e \in entries[j] : e.id \in Nat /\ e.id < next_id
    BY DEF IdsAreFresh, Opt, Entry
  <2>3. \A j \in Keys : \A e \in entries'[j] : e.id < next_id'
    <3>1. next_id < next_id'
      BY <2>1
    <3>2. \A j \in Keys : \A e \in entries[j] : e.id < next_id'
      BY <2>1, <2>2
    <3> QED  BY <1>1, <3>1, <3>2
  <2>4. ASSUME NEW i \in Keys, NEW j \in Keys,
               NEW e \in entries'[i], NEW f \in entries'[j], e.id = f.id
        PROVE  i = j
    <3>1. CASE i # k /\ j # k
      BY <1>1, <2>4, <3>1 DEF IdsAreFresh
    <3>2. \A m \in Keys : \A g \in entries'[m] : m # k => g.id # next_id
      BY <1>1, <2>1, <2>2
    <3>3. \A g \in entries'[k] : g.id = next_id
      BY <1>1
    <3> QED  BY <2>4, <3>1, <3>2, <3>3
  <2> QED  BY <2>3, <2>4 DEF IdsAreFresh
<1> QED  BY <1>4, <1>5

LEMMA IndexInvPurge ==
    ASSUME TypeOK, IndexInv, Purge
    PROVE  IndexInv'
<1> USE DEF TypeOK, IndexInv, Due
<1>1. CASE shutdown
  BY <1>1 DEF Purge, ExpirationsMatchEntries, IdsAreFresh
<1>2. CASE ~shutdown
  <2> DEFINE due == Due(expirations)
  <2>1. expirations' = expirations \ due
    BY <1>2 DEF Purge
  <2>2. \A k \in Keys : entries'[k] = IF \E x \in due : x.key = k THEN {} ELSE entries[k]
    BY <1>2 DEF Purge
  <2>3. \A k \in Keys : \A e \in entries'[k] : e \in entries[k] /\ ~\E x \in due : x.key = k
    BY <2>2
  <2>4. ASSUME NEW x \in expirations'
        PROVE  \E e \in entries'[x.key] : e.id = x.id /\ e.expires_at = {x.when}
    <3>1. x \in expirations /\ x \notin due /\ x.key \in Keys
      BY <2>1 DEF Expiration
    <3>2. PICK e \in entries[x.key] : e.id = x.id /\ e.expires_at = {x.when}
      BY <3>1 DEF ExpirationsMatchEntries
    <3>3. ASSUME NEW y \in due, y.key = x.key
          PROVE  FALSE
      <4>1. PICK f \in entries[y.key] : f.expires_at = {y.when}
        BY DEF ExpirationsMatchEntries
      <4>2. f = e
        BY <3>1, <3>2, <3>3, <4>1 DEF Opt
      <4>3. y.when = x.when
        BY <3>2, <4>1, <4>2
      <4> QED  BY <3>1, <4>3
    <3> QED  BY <2>2, <3>1, <3>2, <3>3
  <2>5. ASSUME NEW k \in Keys, NEW e \in entries'[k], NEW t \in e.expires_at
        PROVE  [when |-> t, id |-> e.id, key |-> k] \in expirations'
    <3>1. [when |-> t, id |-> e.id, key |-> k] \in expirations
      BY <2>3, <2>5 DEF ExpirationsMatchEntries
    <3>2. [when |-> t, id |-> e.id, key |-> k] \notin due
      BY <2>3
    <3> QED  BY <2>1, <3>1, <3>2
  <2>6. ExpirationsMatchEntries'
    BY <2>4, <2>5 DEF ExpirationsMatchEntries
  <2>7. IdsAreFresh'
    BY <2>3 DEF Purge, IdsAreFresh
  <2> QED  BY <2>6, <2>7
<1> QED  BY <1>1, <1>2

LEMMA IndexInvNext == TypeOK /\ IndexInv /\ [Next]_vars => IndexInv'
<1> SUFFICES ASSUME TypeOK, IndexInv, [Next]_vars
             PROVE  IndexInv'
  OBVIOUS
<1>1. ASSUME NEW h \in Handlers, NEW k \in Keys, NEW v \in Values,
             NEW ttl \in Opt(Durations), Set(h, k, v, ttl)
      PROVE  IndexInv'
  BY <1>1, IndexInvSet
<1>2. CASE Purge
  BY <1>2, IndexInvPurge
<1>3. ASSUME NEW h \in Handlers, NEW ttl \in Opt(Durations), SetOverflows(h, ttl)
      PROVE  IndexInv'
  <2>1. UNCHANGED <<entries, expirations>> /\ next_id' = next_id + 1
    BY <1>3 DEF SetOverflows
  <2>2. \A k \in Keys : \A e \in entries[k] : e.id \in Nat /\ next_id \in Nat
    BY DEF TypeOK, Opt, Entry
  <2> QED  BY <2>1, <2>2 DEF IndexInv, ExpirationsMatchEntries, IdsAreFresh
<1>4. ASSUME UNCHANGED <<entries, expirations, next_id>>
      PROVE  IndexInv'
  BY <1>4 DEF IndexInv, ExpirationsMatchEntries, IdsAreFresh
<1>5. ASSUME NEW h \in Handlers,
             LockPanics(h) \/ (\E k \in Keys : Get(h, k)) \/ SetNotifies(h)
      PROVE  UNCHANGED <<entries, expirations, next_id>>
  BY <1>5 DEF LockPanics, Get, SetNotifies, state
<1>6. ASSUME SignalShutdown \/ ShutdownNotifies \/ TaskPanics \/ Check \/ Poll
                \/ WakeNotified \/ WakeElapsed \/ Tick \/ UNCHANGED vars
      PROVE  UNCHANGED <<entries, expirations, next_id>>
  BY <1>6 DEF SignalShutdown, ShutdownNotifies, TaskPanics, Check, Poll, WakeNotified,
     WakeElapsed, Tick, vars, state
<1> QED
  BY <1>1, <1>2, <1>3, <1>4, <1>5, <1>6 DEF Next, Call, Task

(***************************************************************************)
(* At every moment the index of expirations and the entries agree, so that *)
(* the purge removes no value but the one whose deadline passed.           *)
(***************************************************************************)
THEOREM IndexCorrect == Spec => []ExpirationsMatchEntries
<1>1. Spec => []IndexInv
  <2>1. TypeOK /\ IndexInv /\ [Next]_vars => IndexInv'
    BY IndexInvNext
  <2> QED  BY <2>1, IndexInvInit, TypeCorrect, PTL DEF Spec
<1>2. IndexInv => ExpirationsMatchEntries
  BY DEF IndexInv
<1> QED  BY <1>1, <1>2, PTL

-----------------------------------------------------------------------------
(***************************************************************************)
(* Wake-ups of the background task.                                        *)
(***************************************************************************)

WakeInv == NoLostWakeup /\ ShutdownNotLost

LEMMA WakeInvInit == Init => WakeInv
BY DEF Init, WakeInv, NoLostWakeup, ShutdownNotLost

\* After notify_one a task that waits, or is about to, has its wake-up.
LEMMA NotifyOneWakes ==
    ASSUME TypeOK, NotifyOne, UNCHANGED task, task \in {"purge", "poll", "parked"}
    PROVE  WakeUpComing'
BY DEF TypeOK, NotifyOne, WakeUpComing

\* A caller that was not about to notify takes no wake-up with it.
LEMMA WakeUpStays ==
    ASSUME TypeOK, WakeUpComing, NEW h \in Handlers, handler[h] # "notify",
           NEW pc, handler' = [handler EXCEPT ![h] = pc],
           UNCHANGED <<task, permit, notified, guard>>
    PROVE  WakeUpComing'
BY DEF TypeOK, WakeUpComing

LEMMA WakeInvSet ==
    ASSUME TypeOK, WakeInv, NEW h \in Handlers, NEW k \in Keys, NEW v \in Values,
           NEW ttl \in Opt(Durations), Set(h, k, v, ttl)
    PROVE  WakeInv'
<1> USE DEF TypeOK
<1>1. WakeUpComing => WakeUpComing'
  BY WakeUpStays DEF Set, background
<1>2. BecomesNext(ttl) => WakeUpComing'
  BY DEF Set, WakeUpComing
<1>3. UNCHANGED <<task, wake_at, shutdown>>
  BY DEF Set, background
<1>4. ShutdownNotLost'
  BY <1>1, <1>3 DEF WakeInv, ShutdownNotLost
<1>5. ASSUME task \in {"poll", "parked"}, ~shutdown, ~WakeUpComing, ~BecomesNext(ttl)
      PROVE  \A x \in expirations' : \E t \in wake_at : t <= x.when
  <2>1. \A x \in expirations : \E t \in wake_at : t <= x.when
    BY <1>5 DEF WakeInv, NoLostWakeup
  <2>2. Deadline(ttl) \in Opt(Nat)
    BY DeadlineType
  <2>3. ASSUME NEW when \in Deadline(ttl)
        PROVE  \E t \in wake_at : t <= when
    <3>1. PICK n \in NextExpiration(expirations) : ~(n > when)
      BY <1>5 DEF BecomesNext
    <3>2. PICK x \in expirations : x.when = n
      BY <3>1 DEF NextExpiration
    <3>3. PICK t \in wake_at : t <= x.when
      BY <2>1
    <3>4. t \in Nat /\ n \in Nat /\ when \in Nat
      BY <2>2, <3>2 DEF Opt, Expiration
    <3> QED  BY <3>1, <3>2, <3>3, <3>4
  <2>4. \A x \in expirations' : x \in expirations \/ x.when \in Deadline(ttl)
    BY DEF Set, Removed, Inserted
  <2> QED  BY <2>1, <2>3, <2>4
<1>6. NoLostWakeup'
  BY <1>1, <1>2, <1>3, <1>5 DEF NoLostWakeup
<1> QED  BY <1>4, <1>6 DEF WakeInv

LEMMA WakeInvPurge ==
    ASSUME TypeOK, TypeOK', WakeInv, Purge
    PROVE  WakeInv'
<1>1. task = "purge" /\ task' = "poll" /\ UNCHANGED <<permit, notified, handler, guard, shutdown>>
  BY DEF Purge
<1>2. WakeUpComing => WakeUpComing'
  BY <1>1 DEF WakeUpComing
<1>3. ShutdownNotLost'
  BY <1>1, <1>2 DEF WakeInv, ShutdownNotLost
<1>4. ASSUME ~shutdown
      PROVE  \A x \in expirations' : \E t \in wake_at' : t <= x.when
  <2>1. wake_at' = NextExpiration(expirations')
    BY <1>4 DEF Purge
  <2>2. expirations' \in SUBSET Expiration
    BY DEF TypeOK
  <2> QED  BY <2>1, <2>2, NextExpirationCovers
<1>5. NoLostWakeup'
  BY <1>1, <1>4 DEF NoLostWakeup
<1> QED  BY <1>3, <1>5 DEF WakeInv

LEMMA WakeInvNext == TypeOK /\ TypeOK' /\ WakeInv /\ [Next]_vars => WakeInv'
<1> SUFFICES ASSUME TypeOK, TypeOK', WakeInv, [Next]_vars
             PROVE  WakeInv'
  OBVIOUS
<1>1. ASSUME NEW h \in Handlers, NEW k \in Keys, NEW v \in Values,
             NEW ttl \in Opt(Durations), Set(h, k, v, ttl)
      PROVE  WakeInv'
  BY <1>1, WakeInvSet
<1>2. CASE Purge
  BY <1>2, WakeInvPurge
<1>3. ASSUME NEW h \in Handlers,
             LockPanics(h) \/ \E ttl \in Opt(Durations) : SetOverflows(h, ttl)
      PROVE  WakeInv'
  <2>1. /\ handler[h] # "notify"
        /\ handler' = [handler EXCEPT ![h] = "panicked"]
        /\ UNCHANGED <<task, wake_at, permit, notified, guard, shutdown, expirations>>
    BY <1>3 DEF LockPanics, SetOverflows, state, background
  <2>2. WakeUpComing => WakeUpComing'
    BY <2>1, WakeUpStays
  <2> QED  BY <2>1, <2>2 DEF WakeInv, NoLostWakeup, ShutdownNotLost
<1>4. ASSUME (\E h \in Handlers : SetNotifies(h)) \/ ShutdownNotifies
      PROVE  WakeInv'
  <2>1. NotifyOne /\ UNCHANGED task
    BY <1>4 DEF SetNotifies, ShutdownNotifies
  <2>2. task' \in {"purge", "poll", "parked"} => WakeUpComing'
    BY <2>1, NotifyOneWakes
  <2> QED  BY <2>2 DEF WakeInv, NoLostWakeup, ShutdownNotLost
<1>5. CASE SignalShutdown
  <2>1. UNCHANGED <<task, wake_at, permit, notified, handler, expirations>> /\ guard = "held"
    BY <1>5 DEF SignalShutdown, background
  <2>2. CASE poisoned
    <3>1. UNCHANGED shutdown /\ (WakeUpComing => WakeUpComing')
      BY <1>5, <2>1, <2>2 DEF SignalShutdown, WakeUpComing
    <3> QED  BY <2>1, <3>1 DEF WakeInv, NoLostWakeup, ShutdownNotLost
  <2>3. CASE ~poisoned
    <3>1. WakeUpComing'
      BY <1>5, <2>3 DEF SignalShutdown, WakeUpComing
    <3> QED  BY <3>1 DEF WakeInv, NoLostWakeup, ShutdownNotLost
  <2> QED  BY <2>2, <2>3
<1>6. CASE TaskPanics \/ WakeNotified \/ WakeElapsed
  <2>1. task' \notin {"purge", "poll", "parked"}
    BY <1>6 DEF TaskPanics, WakeNotified, WakeElapsed
  <2> QED  BY <2>1 DEF WakeInv, NoLostWakeup, ShutdownNotLost
<1>7. CASE Check
  <2>1. task' \notin {"poll", "parked"} /\ ~(shutdown' /\ task' = "purge")
    BY <1>7 DEF Check, state
  <2> QED  BY <2>1 DEF WakeInv, NoLostWakeup, ShutdownNotLost
<1>8. CASE Poll
  <2>1. /\ task = "poll" /\ task' \in {"check", "parked"}
        /\ UNCHANGED <<wake_at, notified, handler, guard, shutdown, expirations>>
    BY <1>8 DEF Poll, state
  <2>2. task' = "parked" => ~permit
    BY <1>8 DEF Poll
  <2>3. task' = "parked" /\ WakeUpComing => WakeUpComing'
    BY <2>1, <2>2 DEF WakeUpComing
  <2> QED  BY <2>1, <2>3 DEF WakeInv, NoLostWakeup, ShutdownNotLost
<1>9. ASSUME (\E h \in Handlers, k \in Keys : Get(h, k)) \/ Tick \/ UNCHANGED vars
      PROVE  WakeInv'
  <2>1. UNCHANGED <<task, wake_at, permit, notified, handler, guard, shutdown, expirations>>
    BY <1>9 DEF Get, Tick, vars, state, background
  <2> QED  BY <2>1 DEF WakeInv, NoLostWakeup, ShutdownNotLost, WakeUpComing
<1> QED
  BY <1>1, <1>2, <1>3, <1>4, <1>5, <1>6, <1>7, <1>8, <1>9 DEF Next, Call, Task

LEMMA WakeInvHolds == Spec => []WakeInv
<1>1. TypeOK /\ TypeOK' /\ WakeInv /\ [Next]_vars => WakeInv'
  BY WakeInvNext
<1> QED  BY <1>1, WakeInvInit, TypeCorrect, PTL DEF Spec

(***************************************************************************)
(* No wake-up is lost: in every reachable state a waiting background task  *)
(* either sleeps no longer than until the earliest tracked expiration or   *)
(* has a wake-up on the way.                                               *)
(***************************************************************************)
THEOREM WakeupsCorrect == Spec => []NoLostWakeup
<1>1. WakeInv => NoLostWakeup
  BY DEF WakeInv
<1> QED  BY <1>1, WakeInvHolds, PTL

(***************************************************************************)
(* The shutdown signal reaches the background task: once the flag is set   *)
(* the task never waits, or is about to, without a wake-up on the way.     *)
(***************************************************************************)
THEOREM ShutdownReachesTask == Spec => []ShutdownNotLost
<1>1. WakeInv => ShutdownNotLost
  BY DEF WakeInv
<1> QED  BY <1>1, WakeInvHolds, PTL

-----------------------------------------------------------------------------
(***************************************************************************)
(* Db implements KeyValue.                                                 *)
(***************************************************************************)

LEMMA RefinesInit == Init => KV!Init
BY DEF Init, KV!Init, store

\* A step that leaves the entries, the clock and the replies alone is
\* invisible in KeyValue.
LEMMA InvisibleStep ==
    ASSUME UNCHANGED <<entries, now, reply>>
    PROVE  UNCHANGED KV!vars
BY DEF KV!vars, store

LEMMA RefinesSet ==
    ASSUME TypeOK, NEW h \in Handlers, NEW k \in Keys, NEW v \in Values,
           NEW ttl \in Opt(Durations), Set(h, k, v, ttl)
    PROVE  KV!Next
<1> DEFINE seen == [data |-> v, expires_at |-> Deadline(ttl)]
<1>1. /\ entries' = [entries EXCEPT ![k] =
                       {[id |-> next_id, data |-> v, expires_at |-> Deadline(ttl)]}]
      /\ UNCHANGED <<now, reply>>
  BY DEF Set
<1> DEFINE new == [id |-> next_id, data |-> v, expires_at |-> Deadline(ttl)]
<1>2. store' = [store EXCEPT ![k] = {seen}]
  <2>1. entries'[k] = {new} /\ \A j \in Keys \ {k} : entries'[j] = entries[j]
    BY <1>1 DEF TypeOK
  <2>2. \A j \in Keys \ {k} : store'[j] = store[j]
    BY <2>1 DEF store
  <2>3. store'[k] = {[data |-> e.data, expires_at |-> e.expires_at] : e \in {new}}
    BY <2>1 DEF store
  <2>4. new.data = v /\ new.expires_at = Deadline(ttl)
    OBVIOUS
  <2>5. store'[k] = {seen}
    <3> HIDE DEF new
    <3> QED  BY <2>3, <2>4
  <2>6. store = [j \in Keys |-> store[j]] /\ store' = [j \in Keys |-> store'[j]]
    BY DEF store
  <2> HIDE DEF seen
  <2> QED  BY <2>2, <2>5, <2>6
<1>3. KV!Deadline(ttl) = Deadline(ttl) /\ ttl \in KV!Opt(Durations)
  BY DEF KV!Deadline, Deadline, KV!Opt, Opt
<1>4. KV!Set(k, v, ttl)
  BY <1>1, <1>2, <1>3 DEF KV!Set
<1> QED  BY <1>3, <1>4 DEF KV!Next

LEMMA RefinesGet ==
    ASSUME TypeOK, NEW h \in Handlers, NEW k \in Keys, Get(h, k)
    PROVE  KV!Next
<1>1. {e.data : e \in entries[k]} = {e.data : e \in store[k]}
  <2>1. store[k] = {[data |-> e.data, expires_at |-> e.expires_at] : e \in entries[k]}
    BY DEF store
  <2>2. \A e \in entries[k] : \E s \in store[k] : s.data = e.data
    <3> TAKE e \in entries[k]
    <3> DEFINE s == [data |-> e.data, expires_at |-> e.expires_at]
    <3>1. s \in store[k] /\ s.data = e.data
      BY <2>1
    <3> QED  BY <3>1
  <2>3. \A s \in store[k] : \E e \in entries[k] : s.data = e.data
    BY <2>1
  <2> QED  BY <2>2, <2>3
<1>2. KV!Get(h, k)
  BY <1>1 DEF Get, KV!Get, store, state
<1> QED  BY <1>2 DEF KV!Next

LEMMA RefinesPurge ==
    ASSUME TypeOK, IndexInv, Purge, ~shutdown
    PROVE  KV!Next
<1> DEFINE due == Due(expirations)
<1> USE DEF Due
<1> DEFINE live(k) == {e \in store[k] : \A t \in e.expires_at : t > now}
<1>1. \A k \in Keys : entries'[k] = IF \E x \in due : x.key = k THEN {} ELSE entries[k]
  BY DEF Purge
<1>2. \A k \in Keys : store[k] =
         {[data |-> e.data, expires_at |-> e.expires_at] : e \in entries[k]}
  BY DEF store
<1>3. \A k \in Keys : store'[k] =
         {[data |-> e.data, expires_at |-> e.expires_at] : e \in entries'[k]}
  BY DEF store
<1>4. ASSUME NEW k \in Keys
      PROVE  store'[k] = live(k)
  <2>1. ASSUME NEW x \in due, x.key = k
        PROVE  live(k) = {}
    <3>1. PICK e \in entries[k] : e.expires_at = {x.when}
      BY <2>1 DEF IndexInv, ExpirationsMatchEntries
    <3>2. \A f \in entries[k] : f = e
      BY <3>1 DEF TypeOK, Opt
    <3>3. \A s \in store[k] : s.expires_at = {x.when}
      BY <1>2, <3>1, <3>2
    <3>4. x.when \in Nat /\ now \in Nat /\ x.when <= now
      BY DEF TypeOK, Expiration
    <3>5. ~(x.when > now)
      BY <3>4
    <3> QED  BY <3>3, <3>5
  <2>2. ASSUME ~\E x \in due : x.key = k
        PROVE  live(k) = store[k]
    <3>1. ASSUME NEW e \in entries[k], NEW t \in e.expires_at
          PROVE  t > now
      <4>1. [when |-> t, id |-> e.id, key |-> k] \in expirations
        BY <3>1 DEF IndexInv, ExpirationsMatchEntries
      <4>2. [when |-> t, id |-> e.id, key |-> k] \notin due
        BY <2>2
      <4>3. t \in Nat /\ now \in Nat
        BY <4>1 DEF TypeOK, Expiration
      <4> QED  BY <4>1, <4>2, <4>3
    <3>2. \A s \in store[k] : \A t \in s.expires_at : t > now
      BY <1>2, <3>1
    <3> QED  BY <3>2
  <2>3. CASE \E x \in due : x.key = k
    <3>1. store'[k] = {}
      BY <1>1, <1>3, <2>3
    <3> QED  BY <2>1, <2>3, <3>1
  <2>4. CASE ~\E x \in due : x.key = k
    <3>1. store'[k] = store[k]
      BY <1>1, <1>2, <1>3, <2>4
    <3> QED  BY <2>2, <2>4, <3>1
  <2> QED  BY <2>3, <2>4
<1>5. store' = [k \in Keys |-> live(k)]
  <2>1. store' = [k \in Keys |-> store'[k]]
    BY DEF store
  <2> HIDE DEF live
  <2> QED  BY <1>4, <2>1
<1>6. KV!Expire
  BY <1>5 DEF KV!Expire, Purge
<1> QED  BY <1>6 DEF KV!Next

LEMMA RefinesNext == TypeOK /\ IndexInv /\ [Next]_vars => [KV!Next]_(KV!vars)
<1> SUFFICES ASSUME TypeOK, IndexInv, [Next]_vars
             PROVE  [KV!Next]_(KV!vars)
  OBVIOUS
<1>1. ASSUME NEW h \in Handlers, NEW k \in Keys, NEW v \in Values,
             NEW ttl \in Opt(Durations), Set(h, k, v, ttl)
      PROVE  KV!Next
  BY <1>1, RefinesSet
<1>2. ASSUME NEW h \in Handlers, NEW k \in Keys, Get(h, k)
      PROVE  KV!Next
  BY <1>2, RefinesGet
<1>3. CASE Purge
  <2>1. CASE ~shutdown
    BY <1>3, <2>1, RefinesPurge
  <2>2. CASE shutdown
    <3>1. UNCHANGED <<entries, now, reply>>
      BY <1>3, <2>2 DEF Purge
    <3> QED  BY <3>1, InvisibleStep
  <2> QED  BY <2>1, <2>2
<1>4. CASE Tick
  <2>1. KV!Tick
    BY <1>4 DEF Tick, KV!Tick, store, state
  <2> QED  BY <2>1 DEF KV!Next
<1>5. ASSUME NEW h \in Handlers,
             LockPanics(h) \/ SetNotifies(h) \/ \E ttl \in Opt(Durations) : SetOverflows(h, ttl)
      PROVE  UNCHANGED <<entries, now, reply>>
  BY <1>5 DEF LockPanics, SetNotifies, SetOverflows, state
<1>6. ASSUME SignalShutdown \/ ShutdownNotifies \/ TaskPanics \/ Check \/ Poll
                \/ WakeNotified \/ WakeElapsed \/ UNCHANGED vars
      PROVE  UNCHANGED <<entries, now, reply>>
  BY <1>6 DEF SignalShutdown, ShutdownNotifies, TaskPanics, Check, Poll, WakeNotified,
     WakeElapsed, vars, state
<1> QED
  BY <1>1, <1>2, <1>3, <1>4, <1>5, <1>6, InvisibleStep DEF Next, Call, Task

(***************************************************************************)
(* Every behaviour of Db is a behaviour of the abstract store: clients see *)
(* atomic sets and gets, and only what is due goes away.                   *)
(***************************************************************************)
THEOREM DbImplementsKeyValue == Spec => ImplementsKeyValue
<1>1. TypeOK /\ IndexInv /\ [Next]_vars => [KV!Next]_(KV!vars)
  BY RefinesNext
<1>2. Spec => []IndexInv
  <2>1. TypeOK /\ IndexInv /\ [Next]_vars => IndexInv'
    BY IndexInvNext
  <2> QED  BY <2>1, IndexInvInit, TypeCorrect, PTL DEF Spec
<1> QED  BY <1>1, <1>2, RefinesInit, TypeCorrect, PTL DEF Spec, ImplementsKeyValue, KV!Spec
=============================================================================
