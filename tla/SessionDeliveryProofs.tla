----------------------- MODULE SessionDeliveryProofs -----------------------
(***************************************************************************)
(* The deliveries keep IInv, whatever the messages, the sessions and the   *)
(* chains of polls: one lemma for each thing a chain does. From it the     *)
(* safety properties of SessionDelivery follow.                            *)
(***************************************************************************)
EXTENDS SessionDelivery, FiniteSetTheorems, WellFoundedInduction, TLAPS

USE SessionDeliveryAssumption DEF Kinds

\* Who only looks at the state of one chain needs no more of the invariant.
Held(c) == at[c] \in Busy

-----------------------------------------------------------------------------
(* The oldest row of a batch *)

\* Every set of numbers has a least one.
LEMMA Least ==
  ASSUME NEW S \in SUBSET Nat, S # {}
  PROVE  Min(S) \in S
<1>1. PICK m \in S : \A n \in S : ~(<<n, m>> \in OpToRel(<, Nat))
  BY NatLessThanWellFounded, WFMin
<1>2. \A ss \in Nat \X Nat : (ss[1] < ss[2]) => ss \in OpToRel(<, Nat)
  BY Zenon DEF OpToRel
<1>3. ASSUME NEW n \in S PROVE m <= n
  <2>1. n \in Nat /\ m \in Nat /\ <<n, m>> \in Nat \X Nat
    OBVIOUS
  <2>2. ~(n < m)
    BY <1>1, <1>2, <2>1
  <2> QED
    BY <2>1, <2>2
<1> QED
  BY <1>3 DEF Min

\* A chain that drains has a current row: undelivered, and of its session.
LEMMA CurrentRow ==
  ASSUME TypeOK, RowsInv, NEW c \in Chains, Held(c)
  PROVE  /\ First(c) \in batch[c] /\ First(c) \in DOMAIN rows
         /\ Current(c) \in Messages /\ mark[Current(c)] = "none"
         /\ on[c] \in Sessions /\ SessionOf[Current(c)] = on[c]
<1>1. batch[c] # {} /\ batch[c] \subseteq DOMAIN rows /\ batch[c] \in SUBSET Nat
  BY DEF TypeOK, Held
<1>2. First(c) \in batch[c]
  BY <1>1, Least DEF First
<1>3. Current(c) \in Messages
  BY <1>1, <1>2 DEF TypeOK, Current
<1> QED
  BY <1>1, <1>2, <1>3 DEF TypeOK, RowsInv, Current, Held

\* Two chains never hold the same row.
LEMMA OneHolderOfARow ==
  ASSUME TypeOK, RowsInv, NEW c \in Chains, NEW d \in Chains, c # d,
         Held(c), NEW i \in batch[d]
  PROVE  rows[i] # Current(c)
<1>1. SessionOf[rows[i]] = on[d] /\ on[d] # None
  BY DEF TypeOK, RowsInv
<1>2. SessionOf[Current(c)] = on[c] /\ on[c] # None
  BY CurrentRow
<1> QED
  BY <1>1, <1>2 DEF RowsInv

-----------------------------------------------------------------------------
(* How a drain goes on *)

\* What the drain's moves do not touch.
Elsewhere == UNCHANGED <<rows, adapter, polling, shown, crashes, stops>>

\* Only the mark of a chain's current row may change.
MarksOnly(c) ==
  /\ mark' \in [Messages -> {"none", "delivered", "failed"}]
  /\ \A n \in Messages : n # Current(c) => mark'[n] = mark[n]

\* With its row done, or to be tried again by a later drain, a chain takes the
\* next one or lets go of the session.
LEMMA GoOnKeepsRows ==
  ASSUME TypeOK, RowsInv, NEW c \in Chains, Held(c),
         GoOn(c), Elsewhere, MarksOnly(c)
  PROVE  /\ RowsInv'
         /\ at' \in [Chains -> {"off", "woken", "loop"} \cup Busy]
         /\ inflight' \subseteq Sessions
         /\ on' \in [Chains -> Sessions \cup {None}]
         /\ batch' \in [Chains -> SUBSET DOMAIN rows']
         /\ todo' = todo
         /\ \A d \in Chains : /\ (at'[d] \in Busy <=> batch'[d] # {})
                              /\ (at'[d] \in Busy <=> on'[d] # None)
         /\ \A d \in Chains : /\ at'[d] = "shown" => d # c /\ at[d] = "shown"
                              /\ d # c => batch'[d] = batch[d] /\ at'[d] = at[d]
         /\ First(c) \notin batch'[c]
<1>1. /\ First(c) \in batch[c] /\ First(c) \in DOMAIN rows
      /\ Current(c) \in Messages /\ on[c] \in Sessions
  BY CurrentRow
<1>2. batch' = [batch EXCEPT ![c] = @ \ {First(c)}]
  BY DEF GoOn
<1>3. /\ batch' \in [Chains -> SUBSET DOMAIN rows]
      /\ batch'[c] = batch[c] \ {First(c)}
      /\ \A d \in Chains : d # c => batch'[d] = batch[d]
  BY <1>2 DEF TypeOK
<1>4. rows' = rows /\ DOMAIN rows' = DOMAIN rows
  BY DEF Elsewhere
<1>5. \A d \in Chains : \A i \in batch'[d] :
        mark'[rows[i]] = "none" /\ SessionOf[rows[i]] = on[d]
  <2> SUFFICES ASSUME NEW d \in Chains, NEW i \in batch'[d]
               PROVE  mark'[rows[i]] = "none" /\ SessionOf[rows[i]] = on[d]
    OBVIOUS
  <2>0. i \in batch[d]
    BY <1>3
  <2>1. i \in batch[d] /\ i \in DOMAIN rows /\ rows[i] \in Messages
    BY <2>0 DEF TypeOK
  <2>2. rows[i] # Current(c)
    <3>1. CASE d = c
      BY <1>1, <1>3, <2>1, <3>1 DEF RowsInv, Current
    <3>2. CASE d # c
      BY <2>1, <3>2, OneHolderOfARow
    <3> QED
      BY <3>1, <3>2
  <2> QED
    BY <2>1, <2>2 DEF RowsInv, MarksOnly
<1>6. CASE batch[c] # {First(c)}
  <2>1. /\ at' = [at EXCEPT ![c] = "next"]
        /\ inflight' = inflight /\ on' = on /\ todo' = todo
    BY <1>6 DEF GoOn
  <2>2. batch'[c] # {}
    BY <1>1, <1>3, <1>6
  <2>3. RowsInv'
    BY <1>3, <1>4, <1>5, <2>1 DEF RowsInv
  <2> QED
    BY <1>1, <1>3, <1>4, <2>1, <2>2, <2>3 DEF TypeOK, Busy, Held
<1>7. CASE batch[c] = {First(c)}
  <2>1. /\ at' = [at EXCEPT ![c] = "loop"]
        /\ inflight' = inflight \ {on[c]}
        /\ on' = [on EXCEPT ![c] = None] /\ todo' = todo
    BY <1>7 DEF GoOn, Released
  <2>2. batch'[c] = {}
    BY <1>3, <1>7
  <2>3. /\ on' \in [Chains -> Sessions \cup {None}] /\ on'[c] = None
        /\ \A d \in Chains : d # c => on'[d] = on[d]
    BY <2>1 DEF TypeOK
  <2>4. inflight' = {on'[d] : d \in Chains} \ {None}
    BY <1>1, <2>1, <2>3 DEF RowsInv
  <2>5. RowsInv'
    BY <1>3, <1>4, <1>5, <2>2, <2>3, <2>4 DEF RowsInv
  <2> QED
    BY <1>1, <1>3, <1>4, <2>1, <2>2, <2>3, <2>5 DEF TypeOK, Busy, Held
<1> QED
  BY <1>6, <1>7

\* A drain that throws lets go of the session at once.
LEMMA AbandonKeepsRows ==
  ASSUME TypeOK, RowsInv, NEW c \in Chains, Held(c),
         Abandon(c), Elsewhere, mark' = mark
  PROVE  /\ RowsInv'
         /\ at' \in [Chains -> {"off", "woken", "loop"} \cup Busy]
         /\ inflight' \subseteq Sessions
         /\ on' \in [Chains -> Sessions \cup {None}]
         /\ batch' \in [Chains -> SUBSET DOMAIN rows']
         /\ todo' \in [Chains -> SUBSET Sessions]
         /\ \A d \in Chains : /\ (at'[d] \in Busy <=> batch'[d] # {})
                              /\ (at'[d] \in Busy <=> on'[d] # None)
         /\ \A d \in Chains : /\ at'[d] = "shown" => d # c /\ at[d] = "shown"
                              /\ d # c => batch'[d] = batch[d] /\ at'[d] = at[d]
<1>1. on[c] \in Sessions
  BY CurrentRow
<1>2. /\ batch' \in [Chains -> SUBSET DOMAIN rows] /\ batch'[c] = {}
      /\ \A d \in Chains : d # c => batch'[d] = batch[d]
  BY DEF TypeOK, Abandon
<1>3. /\ on' \in [Chains -> Sessions \cup {None}] /\ on'[c] = None
      /\ \A d \in Chains : d # c => on'[d] = on[d]
  BY DEF TypeOK, Abandon
<1>4. inflight' = inflight \ {on[c]} /\ todo' \in [Chains -> SUBSET Sessions]
  BY DEF TypeOK, Abandon, Released
<1>5. inflight' = {on'[d] : d \in Chains} \ {None}
  BY <1>1, <1>3, <1>4 DEF RowsInv
<1>6. rows' = rows /\ DOMAIN rows' = DOMAIN rows
  BY DEF Elsewhere
<1>7. RowsInv'
  BY <1>2, <1>3, <1>5, <1>6 DEF RowsInv
<1>8. at' = [at EXCEPT ![c] = "loop"]
  BY DEF Abandon
<1> QED
  BY <1>2, <1>3, <1>4, <1>6, <1>7, <1>8 DEF TypeOK, Busy

-----------------------------------------------------------------------------
(* The ends of a delivery *)

\* drainSession's catch keeps the invariant if what brought the drain there is a
\* fault, which it counts, or if the message is refused without having been shown.
LEMMA FailedKeepsInv ==
  ASSUME IInv, NEW c \in Chains, Held(c), NEW broken \in {0, 1},
         Failed(c, Current(c), broken), Elsewhere, outbox' \subseteq outbox,
         \/ outbox' = outbox
         \/ at[c] = "shown" /\ outbox' = outbox \ {Current(c)},
         broken = 0 => KindOf[Current(c)] = "denied" /\ at[c] # "shown"
  PROVE  IInv'
<1> DEFINE m == Current(c)
<1>0. TypeOK /\ RowsInv /\ EffectInv /\ SpendInv
  BY DEF IInv
<1>1. m \in Messages /\ mark[m] = "none"
  BY <1>0, CurrentRow
<1>2. /\ rows' = rows /\ adapter' = adapter /\ polling' = polling
      /\ shown' = shown /\ crashes' = crashes /\ stops' = stops
  BY DEF Elsewhere
<1>3. /\ attempts \in [Messages -> Nat] /\ faults \in Nat /\ crashes \in Nat
      /\ mark \in [Messages -> {"none", "delivered", "failed"}]
  BY <1>0 DEF TypeOK, MAX_DELIVERY_ATTEMPTS
\* The three ways the catch goes on.
<1>4. \/ /\ ~SpentWith(m) /\ GoOn(c) /\ mark' = mark /\ faults' = faults + broken
         /\ attempts' = [attempts EXCEPT ![m] = @ + 1]
      \/ /\ SpentWith(m) /\ GoOn(c) /\ Mark(m, "failed") /\ faults' = faults + broken
         /\ attempts' = [attempts EXCEPT ![m] = 0]
      \/ /\ SpentWith(m) /\ Abandon(c) /\ mark' = mark /\ faults' = faults + broken + 1
         /\ attempts' = [attempts EXCEPT ![m] = @ + 1]
  BY DEF Failed
<1>5. MarksOnly(c)
  BY <1>1, <1>3, <1>4 DEF MarksOnly, Mark
<1>6. faults' \in Nat /\ faults' >= faults + broken
  BY <1>3, <1>4
<1>7. attempts' \in [Messages -> 0..(MAX_DELIVERY_ATTEMPTS - 1 + faults')]
  <2>1. \A n \in Messages : attempts[n] \in 0..(2 + faults)
    BY <1>0 DEF TypeOK, MAX_DELIVERY_ATTEMPTS
  <2>2. ASSUME NEW n \in Messages PROVE attempts'[n] \in 0..(2 + faults')
    BY <1>1, <1>3, <1>4, <1>6, <2>1 DEF SpentWith, MAX_DELIVERY_ATTEMPTS
  <2>3. attempts' \in [Messages -> Nat]
    BY <1>1, <1>3, <1>4
  <2> QED
    BY <2>2, <2>3 DEF MAX_DELIVERY_ATTEMPTS
<1>8. /\ RowsInv'
      /\ at' \in [Chains -> {"off", "woken", "loop"} \cup Busy]
      /\ inflight' \subseteq Sessions
      /\ on' \in [Chains -> Sessions \cup {None}]
      /\ batch' \in [Chains -> SUBSET DOMAIN rows']
      /\ todo' \in [Chains -> SUBSET Sessions]
      /\ \A d \in Chains : /\ (at'[d] \in Busy <=> batch'[d] # {})
                           /\ (at'[d] \in Busy <=> on'[d] # None)
      /\ \A d \in Chains : /\ at'[d] = "shown" => d # c /\ at[d] = "shown"
                           /\ d # c => batch'[d] = batch[d] /\ at'[d] = at[d]
  <2>1. CASE GoOn(c)
    <3>1. todo' = todo /\ todo \in [Chains -> SUBSET Sessions]
      BY <1>0, <2>1 DEF GoOn, TypeOK
    <3> QED
      BY <1>0, <1>5, <2>1, <3>1, GoOnKeepsRows
  <2>2. CASE Abandon(c) /\ mark' = mark
    BY <1>0, <2>2, AbandonKeepsRows
  <2> QED
    BY <1>4, <2>1, <2>2
<1>9. TypeOK'
  BY <1>0, <1>2, <1>3, <1>5, <1>6, <1>7, <1>8 DEF TypeOK, MarksOnly
<1>10. EffectInv'
  <2>1. NoDuplicates'
    BY <1>0, <1>2, <1>3, <1>6 DEF EffectInv, NoDuplicates, TypeOK
  <2>2. \A d \in Chains : d # c => Current(d)' = Current(d)
    BY <1>2, <1>8 DEF Current, First
  <2>3. ASSUME NEW n \in Messages, mark'[n] = "none", shown'[n] > faults' + crashes'
        PROVE  \E d \in Chains : at'[d] = "shown" /\ Current(d)' = n
    <3>1. shown[n] \in Nat
      BY <1>0 DEF TypeOK
    <3>2. shown[n] > faults + broken + crashes
      BY <1>2, <1>3, <1>6, <2>3, <3>1
    <3>3. broken = 0 /\ at[c] # "shown"
      BY <1>0, <1>3, <3>1, <3>2 DEF EffectInv, NoDuplicates
    <3>4. mark[n] = "none"
      BY <1>1, <1>5, <2>3 DEF MarksOnly
    <3>5. PICK d \in Chains : at[d] = "shown" /\ Current(d) = n
      BY <1>0, <1>3, <3>1, <3>2, <3>3, <3>4 DEF EffectInv
    <3> QED
      BY <1>8, <2>2, <3>3, <3>5
  <2>4. ASSUME NEW d \in Chains, at'[d] = "shown" PROVE shown'[Current(d)'] > 0
    BY <1>0, <1>2, <1>8, <2>2, <2>4 DEF EffectInv
  <2> QED
    BY <2>1, <2>3, <2>4 DEF EffectInv
<1>11. SpendInv'
  <2>1. ASSUME NEW n \in Messages, KindOf[n] # "denied" PROVE attempts'[n] <= faults'
    <3>1. attempts[n] <= faults /\ attempts[n] \in Nat
      BY <1>0, <1>3, <2>1 DEF SpendInv
    <3>2. n = m => broken = 1
      BY <2>1
    <3> QED
      BY <1>1, <1>3, <1>4, <1>6, <3>1, <3>2
  <2>2. FailedForAReason'
    <3> SUFFICES ASSUME NEW n \in Messages, mark'[n] = "failed", KindOf[n] # "denied"
                 PROVE  faults' >= MAX_DELIVERY_ATTEMPTS
      BY DEF FailedForAReason
    <3>1. CASE mark[n] = "failed"
      BY <1>0, <1>3, <1>6, <3>1 DEF SpendInv, NothingGivenUpEarly, FailedForAReason,
         MAX_DELIVERY_ATTEMPTS
    <3>2. CASE mark[n] # "failed"
      <4>1. n = m /\ SpentWith(m) /\ faults' = faults + broken
        BY <1>4, <1>5, <3>2 DEF MarksOnly
      <4>2. broken = 1 /\ attempts[m] <= faults
        BY <1>0, <1>1, <4>1 DEF SpendInv
      <4> QED
        BY <1>1, <1>3, <4>1, <4>2 DEF SpentWith, MAX_DELIVERY_ATTEMPTS
    <3> QED
      BY <3>1, <3>2
  <2>3. FilesKeptUntilShown'
    BY <1>0, <1>1, <1>2 DEF SpendInv, NothingGivenUpEarly, FilesKeptUntilShown, EffectInv,
       TypeOK, Contains
  <2> QED
    BY <2>1, <2>2, <2>3 DEF SpendInv, NothingGivenUpEarly
<1> QED
  BY <1>8, <1>9, <1>10, <1>11 DEF IInv

\* So does the mark of a message that was delivered, or has nowhere to go.
LEMMA ReturnedKeepsInv ==
  ASSUME IInv, NEW c \in Chains, Held(c),
         Returned(c, Current(c)), Elsewhere, outbox' \subseteq outbox,
         \/ outbox' = outbox
         \/ at[c] = "shown" /\ outbox' = outbox \ {Current(c)}
  PROVE  IInv'
<1> DEFINE m == Current(c)
<1>0. TypeOK /\ RowsInv /\ EffectInv /\ SpendInv
  BY DEF IInv
<1>1. CASE Failed(c, m, 1)
  BY <1>1, FailedKeepsInv
<1>2. CASE /\ Mark(m, "delivered") /\ GoOn(c) /\ faults' = faults
           /\ attempts' = [attempts EXCEPT ![m] = 0]
  <2>1. m \in Messages /\ mark[m] = "none"
    BY <1>0, CurrentRow
  <2>2. /\ rows' = rows /\ adapter' = adapter /\ polling' = polling
        /\ shown' = shown /\ crashes' = crashes /\ stops' = stops
    BY DEF Elsewhere
  <2>3. MarksOnly(c) /\ mark'[m] = "delivered"
    BY <1>0, <1>2, <2>1 DEF MarksOnly, Mark, TypeOK
  <2>4. /\ RowsInv'
        /\ at' \in [Chains -> {"off", "woken", "loop"} \cup Busy]
        /\ inflight' \subseteq Sessions
        /\ on' \in [Chains -> Sessions \cup {None}]
        /\ batch' \in [Chains -> SUBSET DOMAIN rows']
        /\ todo' = todo
        /\ \A d \in Chains : /\ (at'[d] \in Busy <=> batch'[d] # {})
                             /\ (at'[d] \in Busy <=> on'[d] # None)
        /\ \A d \in Chains : /\ at'[d] = "shown" => d # c /\ at[d] = "shown"
                             /\ d # c => batch'[d] = batch[d] /\ at'[d] = at[d]
    BY <1>0, <1>2, <2>3, GoOnKeepsRows
  <2>5. attempts' \in [Messages -> 0..(MAX_DELIVERY_ATTEMPTS - 1 + faults')]
    BY <1>0, <1>2, <2>1 DEF TypeOK, MAX_DELIVERY_ATTEMPTS
  <2>6. TypeOK'
    BY <1>0, <1>2, <2>2, <2>3, <2>4, <2>5 DEF TypeOK, MarksOnly
  <2>7. EffectInv'
    <3>1. \A d \in Chains : d # c => Current(d)' = Current(d)
      BY <2>2, <2>4 DEF Current, First
    <3>2. NoDuplicates'
      BY <1>0, <1>2, <2>2 DEF EffectInv, NoDuplicates
    <3>3. ASSUME NEW n \in Messages, mark'[n] = "none", shown'[n] > faults' + crashes'
          PROVE  \E d \in Chains : at'[d] = "shown" /\ Current(d)' = n
      <4>1. n # m /\ mark[n] = "none" /\ shown[n] > faults + crashes
        BY <1>2, <2>2, <2>3, <3>3 DEF MarksOnly
      <4>2. PICK d \in Chains : at[d] = "shown" /\ Current(d) = n
        BY <1>0, <4>1 DEF EffectInv
      <4> QED
        BY <2>4, <3>1, <4>1, <4>2
    <3>4. ASSUME NEW d \in Chains, at'[d] = "shown" PROVE shown'[Current(d)'] > 0
      BY <1>0, <2>2, <2>4, <3>1, <3>4 DEF EffectInv
    <3> QED
      BY <3>2, <3>3, <3>4 DEF EffectInv
  <2>8. SpendInv'
    <3>1. ASSUME NEW n \in Messages, KindOf[n] # "denied" PROVE attempts'[n] <= faults'
      BY <1>0, <1>2, <2>1, <3>1 DEF SpendInv, TypeOK
    <3>2. FailedForAReason'
      BY <1>0, <1>2, <2>3 DEF SpendInv, NothingGivenUpEarly, FailedForAReason, MarksOnly
    <3>3. FilesKeptUntilShown'
      BY <1>0, <2>1, <2>2 DEF SpendInv, NothingGivenUpEarly, FilesKeptUntilShown, EffectInv,
         TypeOK, Contains
    <3> QED
      BY <3>1, <3>2, <3>3 DEF SpendInv, NothingGivenUpEarly
  <2> QED
    BY <2>4, <2>6, <2>7, <2>8 DEF IInv
<1> QED
  BY <1>1, <1>2 DEF Returned

-----------------------------------------------------------------------------
(* One lemma per group of actions *)

LEMMA InitHasInv == Init => IInv
<1> SUFFICES ASSUME Init PROVE IInv
  OBVIOUS
<1>1. TypeOK
  <2>1. rows \in Seq(Messages) /\ DOMAIN rows = {}
    BY DEF Init
  <2>2. attempts \in [Messages -> 0..(MAX_DELIVERY_ATTEMPTS - 1 + faults)]
    BY DEF Init, MAX_DELIVERY_ATTEMPTS
  <2>3. /\ batch \in [Chains -> SUBSET DOMAIN rows] /\ todo \in [Chains -> SUBSET Sessions]
        /\ on \in [Chains -> Sessions \cup {None}]
    BY <2>1 DEF Init
  <2>4. at \in [Chains -> {"off", "woken", "loop"} \cup Busy]
    BY DEF Init
  <2> QED
    BY <2>1, <2>2, <2>3, <2>4 DEF Init, TypeOK, Busy
<1>2. RowsInv
  BY DEF Init, RowsInv
<1>3. EffectInv
  BY DEF Init, EffectInv, NoDuplicates
<1>4. SpendInv
  BY DEF Init, SpendInv, NothingGivenUpEarly, FilesKeptUntilShown, FailedForAReason,
     Contains
<1> QED
  BY <1>1, <1>2, <1>3, <1>4 DEF IInv

\* A new row is the last one, and moves no other.
LEMMA WriteKeepsInv ==
  ASSUME IInv, NEW m \in Messages, Write(m)
  PROVE  IInv'
<1>0. TypeOK /\ RowsInv /\ EffectInv /\ SpendInv
  BY DEF IInv
<1>1. /\ rows' = Append(rows, m) /\ rows \in Seq(Messages)
      /\ mark' = mark /\ adapter' = adapter /\ polling' = polling
      /\ inflight' = inflight /\ attempts' = attempts /\ at' = at /\ todo' = todo
      /\ on' = on /\ batch' = batch /\ shown' = shown
      /\ faults' = faults /\ crashes' = crashes /\ stops' = stops
      /\ outbox' = IF KindOf[m] = "files" THEN outbox \cup {m} ELSE outbox
  BY <1>0 DEF Write, host, chain, counters, TypeOK
<1>2. /\ rows' \in Seq(Messages) /\ DOMAIN rows = 1..Len(rows) /\ Len(rows) \in Nat
      /\ DOMAIN rows' = 1..Len(rows) + 1
      /\ \A i \in DOMAIN rows : rows'[i] = rows[i]
      /\ rows'[Len(rows) + 1] = m
  BY <1>1
<1>3. \A i \in DOMAIN rows : rows[i] # m
  BY <1>2 DEF Write, Contains
<1>4. \A c \in Chains : batch[c] \subseteq DOMAIN rows
  BY <1>0 DEF TypeOK
<1>5. TypeOK'
  <2>1. batch' \in [Chains -> SUBSET DOMAIN rows']
    <3>1. DOMAIN rows \subseteq DOMAIN rows'
      BY <1>2
    <3> QED
      BY <1>0, <1>1, <3>1 DEF TypeOK
  <2>2. outbox' \subseteq Messages
    BY <1>0, <1>1 DEF TypeOK
  <2> QED
    BY <1>0, <1>1, <1>2, <2>1, <2>2 DEF TypeOK
<1>6. RowsInv'
  <2>1. ASSUME NEW i \in DOMAIN rows', NEW j \in DOMAIN rows', rows'[i] = rows'[j]
        PROVE  i = j
    <3>1. i \in DOMAIN rows \/ i = Len(rows) + 1
      BY <1>2
    <3>2. j \in DOMAIN rows \/ j = Len(rows) + 1
      BY <1>2
    <3> QED
      BY <1>0, <1>2, <1>3, <2>1, <3>1, <3>2 DEF RowsInv
  <2>2. \A c \in Chains : \A i \in batch'[c] :
          mark'[rows'[i]] = "none" /\ SessionOf[rows'[i]] = on'[c]
    BY <1>0, <1>1, <1>2, <1>4 DEF RowsInv
  <2> QED
    <3>1. /\ \A c, d \in Chains : on'[c] = on'[d] /\ on'[c] # None => c = d
          /\ inflight' = {on'[c] : c \in Chains} \ {None}
      BY <1>0, <1>1 DEF RowsInv
    <3> QED
      BY <2>1, <2>2, <3>1 DEF RowsInv
<1>7. \A c \in Chains : at[c] = "shown" => Current(c)' = Current(c)
  <2> SUFFICES ASSUME NEW c \in Chains, at[c] = "shown" PROVE Current(c)' = Current(c)
    OBVIOUS
  <2>1. First(c) \in DOMAIN rows
    BY <1>0, CurrentRow DEF Held, Busy
  <2>2. First(c)' = First(c)
    BY <1>1 DEF First
  <2> QED
    BY <1>2, <2>1, <2>2 DEF Current
<1>8. EffectInv'
  BY <1>0, <1>1, <1>7 DEF EffectInv, NoDuplicates
<1>9. SpendInv'
  <2>1. FilesKeptUntilShown'
    <3> SUFFICES ASSUME NEW n \in Messages, KindOf[n] = "files",
                        Contains(rows', n), shown'[n] = 0
                 PROVE  n \in outbox'
      BY DEF FilesKeptUntilShown
    <3>1. CASE n = m
      BY <1>1, <3>1
    <3>2. CASE n # m
      <4>1. PICK i \in 1..Len(rows') : rows'[i] = n
        BY DEF Contains
      <4>2. i \in 1..Len(rows) /\ rows[i] = n
        BY <1>1, <1>2, <3>2, <4>1
      <4>3. Contains(rows, n)
        BY <4>2 DEF Contains
      <4> QED
        BY <1>0, <1>1, <4>3 DEF SpendInv, NothingGivenUpEarly, FilesKeptUntilShown
    <3> QED
      BY <3>1, <3>2
  <2> QED
    BY <1>0, <1>1, <2>1 DEF SpendInv, NothingGivenUpEarly, FailedForAReason
<1> QED
  BY <1>5, <1>6, <1>8, <1>9 DEF IInv

\* The polls around a drain leave rows, batches and messages alone.
LEMMA AroundKeepsInv ==
  ASSUME IInv,
         \/ SetAdapter \/ StopPolls
         \/ \E c \in Chains : \/ StartPoll(c) \/ Poll(c) \/ Sleep(c) \/ PollFails(c)
                              \/ \E s \in Sessions : ReadFails(c, s)
  PROVE  IInv'
<1>0. TypeOK /\ RowsInv /\ EffectInv /\ SpendInv
  BY DEF IInv
<1>1. /\ rows' = rows /\ mark' = mark /\ outbox' = outbox /\ inflight' = inflight
      /\ attempts' = attempts /\ on' = on /\ batch' = batch /\ shown' = shown
      /\ crashes' = crashes
  BY DEF SetAdapter, StartPoll, StopPolls, Poll, Sleep, PollFails, ReadFails, host, chain,
     counters
<1>2. /\ adapter' \in BOOLEAN
      /\ polling' \subseteq {"active", "sweep"}
      /\ todo' \in [Chains -> SUBSET Sessions]
  <2>1. adapter' \in BOOLEAN
    BY <1>0 DEF TypeOK, SetAdapter, StartPoll, StopPolls, Poll, Sleep, PollFails, ReadFails,
       host
  <2>2. polling' \subseteq {"active", "sweep"}
    <3>1. ASSUME NEW c \in Chains, StartPoll(c) PROVE polling' \subseteq {"active", "sweep"}
      <4>1. PollOf[c] \in {"active", "sweep"}
        OBVIOUS
      <4> QED
        BY <1>0, <3>1, <4>1 DEF TypeOK, StartPoll
    <3>2. polling' = polling \/ polling' = {} \/ \E c \in Chains : StartPoll(c)
      BY DEF SetAdapter, StopPolls, Poll, Sleep, PollFails, ReadFails, host
    <3> QED
      BY <1>0, <3>1, <3>2 DEF TypeOK
  <2>3. todo' \in [Chains -> SUBSET Sessions]
    <3>1. CASE \E c \in Chains : Poll(c)
      BY <1>0, <3>1 DEF TypeOK, Poll
    <3>2. CASE \E c \in Chains : \E s \in Sessions : ReadFails(c, s)
      BY <1>0, <3>2 DEF TypeOK, ReadFails
    <3> QED
      BY <1>0, <3>1, <3>2 DEF TypeOK, SetAdapter, StartPoll, StopPolls, Sleep, PollFails,
         chain
  <2> QED
    BY <2>1, <2>2, <2>3
<1>3. faults' \in Nat /\ faults' >= faults /\ stops' \in Nat
  BY <1>0 DEF TypeOK, SetAdapter, StartPoll, StopPolls, Poll, Sleep, PollFails, ReadFails,
     Fault, counters
<1>4. /\ at' \in [Chains -> {"off", "woken", "loop"} \cup Busy]
      /\ \A d \in Chains : \/ at'[d] = at[d]
                           \/ at[d] \notin Busy /\ at'[d] \notin Busy
  <2>1. ASSUME NEW c \in Chains, NEW v \in {"off", "woken", "loop"},
               at[c] \notin Busy, at' = [at EXCEPT ![c] = v]
        PROVE  /\ at' \in [Chains -> {"off", "woken", "loop"} \cup Busy]
               /\ \A d \in Chains : \/ at'[d] = at[d]
                                    \/ at[d] \notin Busy /\ at'[d] \notin Busy
    BY <1>0, <2>1 DEF TypeOK, Busy
  <2>2. \/ at' = at
        \/ \E c \in Chains, v \in {"off", "woken", "loop"} :
             at[c] \notin Busy /\ at' = [at EXCEPT ![c] = v]
    BY DEF SetAdapter, StartPoll, StopPolls, Poll, Sleep, PollFails, ReadFails, chain, Busy
  <2> QED
    BY <1>0, <2>1, <2>2 DEF TypeOK
<1>5. TypeOK'
  <2>1. attempts' \in [Messages -> 0..(MAX_DELIVERY_ATTEMPTS - 1 + faults')]
    BY <1>0, <1>1, <1>3 DEF TypeOK, MAX_DELIVERY_ATTEMPTS
  <2> QED
    BY <1>0, <1>1, <1>2, <1>3, <1>4, <2>1 DEF TypeOK
<1>6. RowsInv'
  BY <1>0, <1>1 DEF RowsInv
<1>7. EffectInv'
  <2>1. \A d \in Chains : (at'[d] = "shown" <=> at[d] = "shown") /\ Current(d)' = Current(d)
    BY <1>1, <1>4 DEF Busy, Current, First
  <2>2. \A m \in Messages : shown[m] \in Nat
    BY <1>0 DEF TypeOK
  <2>3. faults \in Nat /\ crashes \in Nat
    BY <1>0 DEF TypeOK
  <2> QED
    BY <1>0, <1>1, <1>3, <2>1, <2>2, <2>3 DEF EffectInv, NoDuplicates
<1>8. SpendInv'
  <2>1. /\ faults \in Nat
        /\ \A m \in Messages : attempts[m] \in Nat
    BY <1>0 DEF TypeOK, MAX_DELIVERY_ATTEMPTS
  <2> QED
    BY <1>0, <1>1, <1>3, <2>1 DEF SpendInv, NothingGivenUpEarly, FilesKeptUntilShown,
       FailedForAReason, MAX_DELIVERY_ATTEMPTS
<1> QED
  BY <1>5, <1>6, <1>7, <1>8 DEF IInv

\* The host dies: what was shown and not marked may be shown once more.
LEMMA CrashKeepsInv ==
  ASSUME IInv, Crash
  PROVE  IInv'
<1>0. TypeOK /\ RowsInv /\ EffectInv /\ SpendInv
  BY DEF IInv
<1>1. TypeOK'
  <2>1. attempts' \in [Messages -> 0..(MAX_DELIVERY_ATTEMPTS - 1 + faults')]
    BY <1>0 DEF TypeOK, Crash, MAX_DELIVERY_ATTEMPTS
  <2>2. /\ at' \in [Chains -> {"off", "woken", "loop"} \cup Busy]
        /\ batch' \in [Chains -> SUBSET DOMAIN rows'] /\ todo' \in [Chains -> SUBSET Sessions]
        /\ on' \in [Chains -> Sessions \cup {None}]
    BY DEF Crash
  <2> QED
    <3>1. \A d \in Chains : at'[d] = "off" /\ batch'[d] = {} /\ on'[d] = None
      BY DEF Crash
    <3>2. /\ rows' = rows /\ mark' = mark /\ outbox' = outbox /\ adapter' = FALSE
          /\ polling' = {} /\ inflight' = {} /\ shown' = shown /\ faults' = faults
          /\ stops' = stops /\ crashes' = crashes + 1
      BY DEF Crash
    <3>3. adapter' \in BOOLEAN
      BY <3>2
    <3> QED
      BY <1>0, <2>1, <2>2, <3>1, <3>2, <3>3 DEF TypeOK, Busy
<1>2. RowsInv'
  BY <1>0 DEF RowsInv, Crash
<1>3. EffectInv'
  BY <1>0 DEF EffectInv, NoDuplicates, Crash, TypeOK
<1>4. SpendInv'
  BY <1>0 DEF SpendInv, NothingGivenUpEarly, FilesKeptUntilShown, FailedForAReason, Crash,
     TypeOK
<1> QED
  BY <1>1, <1>2, <1>3, <1>4 DEF IInv

\* A chain takes a session that nobody drains, with what is undelivered there.
LEMMA VisitKeepsInv ==
  ASSUME IInv, NEW c \in Chains, NEW s \in Sessions, Visit(c, s)
  PROVE  IInv'
<1>0. TypeOK /\ RowsInv /\ EffectInv /\ SpendInv
  BY DEF IInv
<1>1. /\ rows' = rows /\ mark' = mark /\ outbox' = outbox /\ adapter' = adapter
      /\ polling' = polling /\ attempts' = attempts /\ shown' = shown
      /\ faults' = faults /\ crashes' = crashes /\ stops' = stops
      /\ todo' \in [Chains -> SUBSET Sessions]
  BY <1>0 DEF Visit, counters, TypeOK
<1>2. CASE UNCHANGED <<inflight, at, on, batch>>
  <2>1. TypeOK'
    BY <1>0, <1>1, <1>2 DEF TypeOK
  <2>2. RowsInv'
    BY <1>0, <1>1, <1>2 DEF RowsInv
  <2>3. EffectInv'
    BY <1>0, <1>1, <1>2 DEF EffectInv, NoDuplicates, Current, First
  <2>4. SpendInv'
    BY <1>0, <1>1, <1>2 DEF SpendInv, NothingGivenUpEarly, FilesKeptUntilShown, FailedForAReason
  <2> QED
    BY <2>1, <2>2, <2>3, <2>4 DEF IInv
<1>3. CASE /\ ~BeingDrained(s) /\ Undelivered(s) # {}
           /\ inflight' = inflight \cup {s}
           /\ on' = [on EXCEPT ![c] = s]
           /\ batch' = [batch EXCEPT ![c] = Undelivered(s)]
           /\ at' = [at EXCEPT ![c] = "next"]
  <2>1. at[c] = "loop" /\ on[c] = None
    BY <1>0 DEF Visit, TypeOK, Busy
  <2>2. Undelivered(s) \subseteq DOMAIN rows
    BY DEF Undelivered
  <2>3. /\ on' \in [Chains -> Sessions \cup {None}] /\ on'[c] = s
        /\ \A d \in Chains : d # c => on'[d] = on[d]
    BY <1>0, <1>3 DEF TypeOK
  <2>4. /\ batch' \in [Chains -> SUBSET DOMAIN rows] /\ batch'[c] = Undelivered(s)
        /\ \A d \in Chains : d # c => batch'[d] = batch[d]
    BY <1>0, <1>3, <2>2 DEF TypeOK
  <2>5. /\ at' \in [Chains -> {"off", "woken", "loop"} \cup Busy] /\ at'[c] = "next"
        /\ \A d \in Chains : d # c => at'[d] = at[d]
    BY <1>0, <1>3 DEF TypeOK, Busy
  <2>6. TypeOK'
    BY <1>0, <1>1, <1>3, <2>3, <2>4, <2>5 DEF TypeOK, Busy
  <2>7. RowsInv'
    <3>1. \A d \in Chains : on[d] # s
      BY <1>0, <1>3 DEF RowsInv, BeingDrained
    <3>2. \A d, e \in Chains : on'[d] = on'[e] /\ on'[d] # None => d = e
      BY <1>0, <2>3, <3>1 DEF RowsInv
    <3>3. inflight' = {on'[d] : d \in Chains} \ {None}
      BY <1>0, <1>3, <2>1, <2>3, <3>1 DEF RowsInv
    <3>4. \A d \in Chains : \A i \in batch'[d] :
            mark'[rows'[i]] = "none" /\ SessionOf[rows'[i]] = on'[d]
      BY <1>0, <1>1, <2>3, <2>4 DEF RowsInv, Undelivered
    <3> QED
      BY <1>0, <1>1, <3>2, <3>3, <3>4 DEF RowsInv
  <2>8. EffectInv'
    <3>1. \A d \in Chains : /\ at'[d] = "shown" <=> at[d] = "shown"
                            /\ at[d] = "shown" => Current(d)' = Current(d)
      BY <1>1, <2>1, <2>4, <2>5 DEF Current, First
    <3> QED
      BY <1>0, <1>1, <3>1 DEF EffectInv, NoDuplicates
  <2>9. SpendInv'
    BY <1>0, <1>1 DEF SpendInv, NothingGivenUpEarly, FilesKeptUntilShown, FailedForAReason
  <2> QED
    BY <2>6, <2>7, <2>8, <2>9 DEF IInv
<1> QED
  BY <1>2, <1>3 DEF Visit

\* The adapter is called, and the message takes effect.
LEMMA CallKeepsInv ==
  ASSUME IInv, NEW c \in Chains, Call(c) \/ TakesEffect(c)
  PROVE  IInv'
<1>0. TypeOK /\ RowsInv /\ EffectInv /\ SpendInv
  BY DEF IInv
<1>1. /\ rows' = rows /\ mark' = mark /\ outbox' = outbox /\ adapter' = adapter
      /\ polling' = polling /\ inflight' = inflight /\ attempts' = attempts
      /\ todo' = todo /\ on' = on /\ batch' = batch
      /\ faults' = faults /\ crashes' = crashes /\ stops' = stops
  BY DEF Call, TakesEffect, OutboxWhenRead, host, counters
<1>2. Held(c) /\ Current(c) \in Messages /\ mark[Current(c)] = "none"
  BY <1>0, CurrentRow DEF Call, TakesEffect, Held, Busy
<1>3. /\ at' \in [Chains -> {"off", "woken", "loop"} \cup Busy] /\ at'[c] \in Busy
      /\ \A d \in Chains : d # c => at'[d] = at[d]
  BY <1>0 DEF Call, TakesEffect, TypeOK, Busy
<1>4. \A d \in Chains : Current(d)' = Current(d)
  BY <1>1 DEF Current, First
<1>5. shown' \in [Messages -> Nat] /\ \A n \in Messages : shown'[n] >= shown[n]
  <2>1. CASE Call(c)
    BY <1>0, <2>1 DEF Call, TypeOK
  <2>2. CASE TakesEffect(c)
    <3>1. /\ shown \in [Messages -> Nat]
          /\ shown' = [shown EXCEPT ![Current(c)] = shown[Current(c)] + 1]
      BY <1>0, <2>2 DEF TakesEffect, TypeOK
    <3> QED
      BY <1>2, <3>1
  <2> QED
    BY <2>1, <2>2
<1>6. TypeOK'
  BY <1>0, <1>1, <1>2, <1>3, <1>5 DEF TypeOK, Held
<1>7. RowsInv'
  BY <1>0, <1>1 DEF RowsInv
<1>8. EffectInv'
  <2>1. CASE Call(c)
    <3>1. shown' = shown /\ at[c] = "next" /\ at'[c] = "called"
      BY <1>0, <2>1 DEF Call, TypeOK
    <3> QED
      BY <1>0, <1>1, <1>3, <1>4, <3>1 DEF EffectInv, NoDuplicates
  <2>2. CASE TakesEffect(c)
    <3>1. /\ at[c] = "called" /\ at'[c] = "shown"
          /\ shown'[Current(c)] = shown[Current(c)] + 1
          /\ \A n \in Messages : n # Current(c) => shown'[n] = shown[n]
      BY <1>0, <1>2, <2>2 DEF TakesEffect, TypeOK
    \* Nobody else is at this message.
    <3>2. ASSUME NEW d \in Chains, d # c, at[d] = "shown" PROVE Current(d) # Current(c)
      <4>1. First(d) \in batch[d]
        BY <1>0, <3>2, CurrentRow DEF Held, Busy
      <4> QED
        BY <1>0, <1>2, <3>2, <4>1, OneHolderOfARow DEF Current
    <3>3. shown[Current(c)] <= faults + crashes
      <4>1. shown[Current(c)] \in Nat /\ faults \in Nat /\ crashes \in Nat
        BY <1>0, <1>2 DEF TypeOK
      <4>2. ~ \E d \in Chains : at[d] = "shown" /\ Current(d) = Current(c)
        BY <3>1, <3>2
      <4>3. ~ (shown[Current(c)] > faults + crashes)
        BY <1>0, <1>2, <4>2 DEF EffectInv
      <4> QED
        BY <4>1, <4>3
    <3>4. NoDuplicates'
      <4> SUFFICES ASSUME NEW n \in Messages
                   PROVE  shown'[n] <= 1 + faults + crashes
        BY <1>1 DEF NoDuplicates
      <4>1. shown[n] \in Nat /\ faults \in Nat /\ crashes \in Nat
        BY <1>0 DEF TypeOK
      <4>2. shown[n] <= 1 + faults + crashes
        BY <1>0 DEF EffectInv, NoDuplicates
      <4> QED
        BY <3>1, <3>3, <4>1, <4>2
    <3>5. ASSUME NEW n \in Messages, mark'[n] = "none", shown'[n] > faults' + crashes'
          PROVE  \E d \in Chains : at'[d] = "shown" /\ Current(d)' = n
      <4>1. CASE n = Current(c)
        BY <1>4, <3>1, <4>1
      <4>2. CASE n # Current(c)
        <5>1. PICK d \in Chains : at[d] = "shown" /\ Current(d) = n
          BY <1>0, <1>1, <3>1, <3>5, <4>2 DEF EffectInv
        <5> QED
          BY <1>3, <1>4, <3>1, <5>1
      <4> QED
        BY <4>1, <4>2
    <3>6. ASSUME NEW d \in Chains, at'[d] = "shown" PROVE shown'[Current(d)'] > 0
      <4>1. CASE d = c
        BY <1>0, <1>2, <1>4, <3>1, <4>1 DEF TypeOK
      <4>2. CASE d # c
        BY <1>0, <1>3, <1>4, <3>1, <3>2, <3>6, <4>2, CurrentRow DEF EffectInv, Held, Busy
      <4> QED
        BY <4>1, <4>2
    <3> QED
      BY <3>4, <3>5, <3>6 DEF EffectInv
  <2> QED
    BY <2>1, <2>2
<1>9. SpendInv'
  BY <1>0, <1>1, <1>5 DEF SpendInv, NothingGivenUpEarly, FilesKeptUntilShown, FailedForAReason,
     TypeOK
<1> QED
  BY <1>6, <1>7, <1>8, <1>9 DEF IInv

\* A delivery ends, in one of its ways.
LEMMA EndKeepsInv ==
  ASSUME IInv, NEW c \in Chains, AtOnce(c) \/ Resolves(c) \/ Throws(c)
  PROVE  IInv'
<1>1. Held(c)
  BY DEF AtOnce, Resolves, Throws, Held, Busy
<1>2. CASE AtOnce(c)
  <2>1. Elsewhere /\ outbox' = outbox /\ at[c] = "next"
    BY <1>2 DEF AtOnce, Elsewhere
  <2>2. CASE Returned(c, Current(c))
    BY <1>1, <2>1, <2>2, ReturnedKeepsInv
  <2>3. CASE KindOf[Current(c)] = "denied" /\ Failed(c, Current(c), 0)
    BY <1>1, <2>1, <2>3, FailedKeepsInv
  <2> QED
    BY <1>2, <2>2, <2>3 DEF AtOnce
<1>3. CASE Resolves(c)
  <2>1. /\ Elsewhere /\ at[c] = "shown" /\ Returned(c, Current(c))
        /\ outbox' = outbox \/ outbox' = outbox \ {Current(c)}
    BY <1>3 DEF Resolves, Elsewhere, Cleared
  <2> QED
    BY <1>1, <2>1, ReturnedKeepsInv
<1>4. CASE Throws(c)
  <2>1. Elsewhere /\ outbox' = outbox /\ Failed(c, Current(c), 1)
    BY <1>4 DEF Throws, Elsewhere
  <2> QED
    BY <1>1, <2>1, FailedKeepsInv
<1> QED
  BY <1>2, <1>3, <1>4

LEMMA NextKeepsInv == IInv /\ [Next]_vars => IInv'
<1> SUFFICES ASSUME IInv, [Next]_vars PROVE IInv'
  OBVIOUS
<1>1. CASE \E m \in Messages : Write(m)
  BY <1>1, WriteKeepsInv
<1>2. CASE SetAdapter \/ StopPolls
  BY <1>2, AroundKeepsInv
<1>3. CASE Crash
  BY <1>3, CrashKeepsInv
<1>4. ASSUME NEW c \in Chains,
             \/ StartPoll(c) \/ Advance(c) \/ PollFails(c) \/ Throws(c)
             \/ \E s \in Sessions : ReadFails(c, s)
      PROVE  IInv'
  <2>1. CASE \E s \in Sessions : Visit(c, s)
    BY <2>1, VisitKeepsInv
  <2>2. CASE Call(c) \/ TakesEffect(c)
    BY <2>2, CallKeepsInv
  <2>3. CASE AtOnce(c) \/ Resolves(c) \/ Throws(c)
    BY <2>3, EndKeepsInv
  <2> QED
    BY <1>4, <2>1, <2>2, <2>3, AroundKeepsInv DEF Advance
<1>5. CASE UNCHANGED vars
  <2>1. /\ TypeOK' /\ RowsInv'
    BY <1>5 DEF IInv, TypeOK, RowsInv, vars, host, chain, counters
  <2>2. EffectInv'
    BY <1>5 DEF IInv, EffectInv, NoDuplicates, Current, First, vars, host, chain, counters
  <2>3. SpendInv'
    BY <1>5 DEF IInv, SpendInv, NothingGivenUpEarly, FilesKeptUntilShown, FailedForAReason,
       vars, host, chain, counters
  <2> QED
    BY <2>1, <2>2, <2>3 DEF IInv
<1> QED
  BY <1>1, <1>2, <1>3, <1>4, <1>5 DEF Next

-----------------------------------------------------------------------------
(* Theorems *)

\* For any messages, sessions and chains: the invariant holds.
THEOREM InvHolds == Spec => []IInv
<1>1. Init => IInv
  BY InitHasInv
<1>2. IInv /\ [Next]_vars => IInv'
  BY NextKeepsInv
<1> QED
  BY <1>1, <1>2, PTL DEF Spec

\* However many chains of polls run, are stopped, started again or cut short by a
\* crash: a session has at most one drain, and is in the in-flight set exactly
\* while it has one (delivery.ts:151-162).
THEOREM OneDrain == Spec => []OneDrainPerSession
<1>1. IInv => OneDrainPerSession
  <2> SUFFICES ASSUME IInv, NEW s \in Sessions
               PROVE  /\ Cardinality(Draining(s)) <= 1
                      /\ (s \in inflight) <=> (Draining(s) # {})
    BY DEF IInv, OneDrainPerSession
  <2>1. \A c, d \in Draining(s) : c = d
    BY DEF IInv, RowsInv, Draining
  <2>2. (s \in inflight) <=> (Draining(s) # {})
    BY DEF IInv, RowsInv, Draining
  <2>3. CASE Draining(s) = {}
    BY <2>2, <2>3, FS_EmptySet
  <2>4. CASE Draining(s) # {}
    <3>1. PICK c \in Draining(s) : TRUE
      BY <2>4
    <3>2. Draining(s) = {c}
      BY <2>1, <3>1
    <3>3. Cardinality({c}) = 1
      BY FS_Singleton
    <3> QED
      BY <2>2, <3>2, <3>3
  <2> QED
    BY <2>3, <2>4
<1> QED
  BY <1>1, InvHolds, PTL

\* A message is shown at most once more than there were faults and crashes,
\* whatever the polls do (delivery.ts:43, 154).
THEOREM ShownOnce == Spec => []NoDuplicates
<1>1. IInv => NoDuplicates
  BY DEF IInv, EffectInv
<1> QED
  BY <1>1, InvHolds, PTL

\* Attachments last until the message was shown, and nothing that can be
\* delivered is given up on before three faults (delivery.ts:205-217, 350-370).
THEOREM KeptUntilShown == Spec => []NothingGivenUpEarly
<1>1. IInv => NothingGivenUpEarly
  BY DEF IInv, SpendInv
<1> QED
  BY <1>1, InvHolds, PTL

=============================================================================
