---------------------------- MODULE PoolsProofs ----------------------------
(***************************************************************************)
(* The two pools under the fetches, for any number of jobs, workers,       *)
(* renders, launches and places: the extraction pool uses its capacity and *)
(* nothing more and settles each job with its own answer or an error; the  *)
(* browser is one, known to its manager, and its permits are conserved.    *)
(***************************************************************************)
EXTENDS MCPools, FiniteSetTheorems, SequenceTheorems, TLAPS

-----------------------------------------------------------------------------
(* Queues *)

\* r is q without its g-th element.
Removes(q, g, r, S) ==
  /\ r \in Seq(S)
  /\ Len(r) = Len(q) - 1
  /\ \A i \in 1..Len(r) : r[i] = q[IF i < g THEN i ELSE i + 1]

Distinct(q) == \A i, k \in 1..Len(q) : q[i] = q[k] => i = k

Elements(q) == {q[i] : i \in 1..Len(q)}

LEMMA TailRemoves ==
  ASSUME NEW S, NEW q \in Seq(S), q # <<>>
  PROVE  Removes(q, 1, Tail(q), S) /\ Len(q) >= 1 /\ Head(q) = q[1]
  BY HeadTailProperties, EmptySeq DEF Removes

LEMMA SpliceRemoves ==
  ASSUME NEW S, NEW q \in Seq(S), NEW g \in 1..Len(q)
  PROVE  Removes(q, g, SubSeq(q, 1, g - 1) \o SubSeq(q, g + 1, Len(q)), S)
<1> DEFINE b == SubSeq(q, 1, g - 1)
           e == SubSeq(q, g + 1, Len(q))
<1>1. Len(q) \in Nat /\ g \in Nat /\ 1 <= g /\ g <= Len(q) /\ \A i \in 1..Len(q) : q[i] \in S
  BY LenProperties, ElementOfSeq
<1>2. /\ b \in Seq(S) /\ Len(b) = g - 1 /\ \A i \in 1..(g - 1) : b[i] = q[i]
  <2>1. \A i \in 1..(g - 1) : q[i] \in S
    BY <1>1
  <2>2. /\ b \in Seq(S)
        /\ Len(b) = IF 1 <= g - 1 THEN (g - 1) - 1 + 1 ELSE 0
        /\ \A i \in 1..((g - 1) - 1 + 1) : b[i] = q[1 + i - 1]
    BY <1>1, <2>1, SubSeqProperties
  <2> QED
    BY <1>1, <2>2
<1>3. /\ e \in Seq(S) /\ Len(e) = Len(q) - g
      /\ \A i \in 1..(Len(q) - g) : e[i] = q[g + i]
  <2>1. \A i \in (g + 1)..Len(q) : q[i] \in S
    BY <1>1
  <2>2. /\ e \in Seq(S)
        /\ Len(e) = IF g + 1 <= Len(q) THEN Len(q) - (g + 1) + 1 ELSE 0
        /\ \A i \in 1..(Len(q) - (g + 1) + 1) : e[i] = q[(g + 1) + i - 1]
    BY <1>1, <2>1, SubSeqProperties
  <2> QED
    BY <1>1, <2>2
<1> HIDE DEF b, e
<1>4. /\ b \o e \in Seq(S) /\ Len(b \o e) = Len(b) + Len(e)
      /\ \A i \in 1..(Len(b) + Len(e)) :
           (b \o e)[i] = IF i <= Len(b) THEN b[i] ELSE e[i - Len(b)]
  BY <1>2, <1>3, ConcatProperties
<1>5. Removes(q, g, b \o e, S)
  <2>1. Len(b \o e) = Len(q) - 1
    BY <1>1, <1>2, <1>3, <1>4
  <2>2. ASSUME NEW i \in 1..(Len(q) - 1)
        PROVE  (b \o e)[i] = q[IF i < g THEN i ELSE i + 1]
    <3>1. (b \o e)[i] = IF i <= g - 1 THEN b[i] ELSE e[i - (g - 1)]
      BY <1>1, <1>2, <1>3, <1>4
    <3>2. CASE i < g
      BY <1>1, <1>2, <3>1, <3>2
    <3>3. CASE ~(i < g)
      <4>1. i - (g - 1) \in 1..(Len(q) - g) /\ g + (i - (g - 1)) = i + 1
        BY <1>1, <3>3
      <4> QED
        BY <1>1, <1>3, <3>1, <3>3, <4>1
    <3> QED
      BY <3>2, <3>3
  <2> QED
    BY <1>4, <2>1, <2>2 DEF Removes
<1> QED
  BY <1>5 DEF b, e

\* What is left of a queue without doubles.
LEMMA RemovedQueue ==
  ASSUME NEW S, NEW q \in Seq(S), NEW g \in 1..Len(q), NEW r, Removes(q, g, r, S),
         Distinct(q)
  PROVE  /\ Elements(r) = Elements(q) \ {q[g]}
         /\ Distinct(r)
         /\ r \in Seq(S) /\ Len(r) = Len(q) - 1 /\ Len(q) \in Nat
<1>1. Len(q) \in Nat /\ g \in Nat /\ r \in Seq(S) /\ Len(r) = Len(q) - 1
  BY LenProperties DEF Removes
<1>2. ASSUME NEW i \in 1..Len(r)
      PROVE  /\ (IF i < g THEN i ELSE i + 1) \in 1..Len(q) /\ (IF i < g THEN i ELSE i + 1) # g
             /\ r[i] = q[IF i < g THEN i ELSE i + 1]
  BY <1>1, <1>2 DEF Removes
<1>3. ASSUME NEW k \in 1..Len(q), k # g
      PROVE  \E i \in 1..Len(r) : r[i] = q[k]
  <2>1. CASE k < g
    <3>1. k \in 1..Len(r)
      BY <1>1, <2>1
    <3> QED
      BY <1>2, <2>1, <3>1
  <2>2. CASE k > g
    <3>1. k - 1 \in 1..Len(r) /\ ~(k - 1 < g) /\ (k - 1) + 1 = k
      BY <1>1, <2>2
    <3>2. r[k - 1] = q[IF k - 1 < g THEN k - 1 ELSE (k - 1) + 1]
      BY <1>2, <3>1
    <3> QED
      BY <3>1, <3>2
  <2> QED
    BY <1>1, <1>3, <2>1, <2>2
<1>4. Elements(r) = Elements(q) \ {q[g]}
  <2>1. ASSUME NEW i \in 1..Len(r) PROVE r[i] \in Elements(q) \ {q[g]}
    <3> DEFINE k == IF i < g THEN i ELSE i + 1
    <3>1. k \in 1..Len(q) /\ k # g /\ r[i] = q[k]
      BY <1>2
    <3> HIDE DEF k
    <3> QED
      BY <3>1 DEF Distinct, Elements
  <2>2. ASSUME NEW k \in 1..Len(q), q[k] # q[g] PROVE q[k] \in Elements(r)
    <3>1. k # g
      BY <2>2
    <3> QED
      BY <1>3, <3>1 DEF Elements
  <2>3. Elements(r) \subseteq Elements(q) \ {q[g]}
    BY <2>1 DEF Elements
  <2>4. Elements(q) \ {q[g]} \subseteq Elements(r)
    BY <2>2 DEF Elements
  <2> QED
    BY <2>3, <2>4
<1>5. ASSUME NEW i \in 1..Len(r), NEW k \in 1..Len(r), r[i] = r[k] PROVE i = k
  <2>1. (IF i < g THEN i ELSE i + 1) = (IF k < g THEN k ELSE k + 1)
    BY <1>2, <1>5 DEF Distinct
  <2> QED
    BY <1>1, <2>1
<1> QED
  BY <1>1, <1>4, <1>5 DEF Distinct

\* A new element at the end of a queue without doubles.
LEMMA AppendedQueue ==
  ASSUME NEW S, NEW q \in Seq(S), NEW e \in S, e \notin Elements(q), Distinct(q)
  PROVE  /\ Elements(Append(q, e)) = Elements(q) \cup {e}
         /\ Distinct(Append(q, e))
         /\ Append(q, e) \in Seq(S) /\ Len(Append(q, e)) = Len(q) + 1 /\ Len(q) \in Nat
<1> DEFINE r == Append(q, e)
<1>1. /\ r \in Seq(S) /\ Len(r) = Len(q) + 1 /\ Len(q) \in Nat
      /\ \A i \in 1..Len(q) : r[i] = q[i]
      /\ r[Len(q) + 1] = e
  BY AppendProperties, LenProperties
<1> HIDE DEF r
<1>2. /\ \A i \in 1..Len(r) : i \in 1..Len(q) \/ i = Len(q) + 1
      /\ \A i \in 1..Len(q) : i \in 1..Len(r)
      /\ Len(q) + 1 \in 1..Len(r)
  BY <1>1
<1>3. Elements(r) = Elements(q) \cup {e}
  <2>1. Elements(r) \subseteq Elements(q) \cup {e}
    BY <1>1, <1>2 DEF Elements
  <2>2. Elements(q) \subseteq Elements(r)
    <3>1. ASSUME NEW i \in 1..Len(q) PROVE q[i] \in Elements(r)
      <4>1. i \in 1..Len(r) /\ q[i] = r[i]
        BY <1>1, <1>2
      <4> QED
        BY <4>1 DEF Elements
    <3> QED
      BY <3>1 DEF Elements
  <2>3. e \in Elements(r)
    BY <1>1, <1>2 DEF Elements
  <2> QED
    BY <2>1, <2>2, <2>3
<1>4. Distinct(r)
  <2>1. \A i \in 1..Len(q) : q[i] # e
    BY DEF Elements
  <2> QED
    BY <1>1, <1>2, <2>1 DEF Distinct
<1> QED
  BY <1>1, <1>3, <1>4 DEF r

-----------------------------------------------------------------------------
(* The extraction pool: what becomes of jobs *)

\* The states of a job and the outcomes of its promise are told apart.
LEMMA Outcomes ==
  /\ Pending \in Outcome /\ Failed \in Outcome /\ \A j \in Jobs : ResultOf(j) \in Outcome
  /\ Failed # Pending /\ \A j \in Jobs : ResultOf(j) # Pending
<1>1. Pending \in Outcome /\ Failed \in Outcome /\ \A j \in Jobs : ResultOf(j) \in Outcome
  BY DEF Pending, Failed, ResultOf, Outcome
<1>2. Pending.kind = "pending" /\ Failed.kind = "error" /\ \A j \in Jobs : ResultOf(j).kind = "result"
  BY DEF Pending, Failed, ResultOf
<1> QED
  BY <1>1, <1>2

\* Settling a set of jobs that are not settled.
LEMMA SettleOutcomes ==
  ASSUME JobsInv, NEW js, NEW how, Settle(js, how),
         \A j \in Jobs : j \in js => job[j] # "settled" /\ how \in {Failed, ResultOf(j)}
  PROVE  /\ job' \in [Jobs -> {"new", "queued", "active", "settled"}]
         /\ outcome' \in [Jobs -> Outcome]
         /\ \A j \in Jobs : outcome'[j] \in {Pending, Failed, ResultOf(j)}
         /\ \A j \in Jobs : job'[j] = "settled" <=> outcome'[j] # Pending
         /\ \A j \in Jobs : job'[j] = IF j \in js THEN "settled" ELSE job[j]
<1>1. /\ job' = [j \in Jobs |-> IF j \in js THEN "settled" ELSE job[j]]
      /\ outcome' = [j \in Jobs |-> IF j \in js /\ job[j] # "settled" THEN how ELSE outcome[j]]
  BY DEF Settle
<1>2. /\ \A j \in Jobs : job[j] \in {"new", "queued", "active", "settled"}
      /\ \A j \in Jobs : outcome[j] \in Outcome
      /\ \A j \in Jobs : outcome[j] \in {Pending, Failed, ResultOf(j)}
      /\ \A j \in Jobs : job[j] = "settled" <=> outcome[j] # Pending
  BY DEF JobsInv
<1>3. ASSUME NEW j \in Jobs
      PROVE  /\ job'[j] = IF j \in js THEN "settled" ELSE job[j]
             /\ outcome'[j] = IF j \in js THEN how ELSE outcome[j]
  BY <1>1
<1>4. ASSUME NEW j \in Jobs
      PROVE  /\ outcome'[j] \in Outcome
             /\ outcome'[j] \in {Pending, Failed, ResultOf(j)}
             /\ job'[j] = "settled" <=> outcome'[j] # Pending
  BY <1>2, <1>3, Outcomes
<1>5. job' \in [Jobs -> {"new", "queued", "active", "settled"}]
  BY <1>1, <1>2
<1>6. outcome' \in [Jobs -> Outcome]
  BY <1>1, <1>4
<1> QED
  BY <1>3, <1>4, <1>5, <1>6

\* A worker is freed of its job, which settles with it, if it has one.
LEMMA FreeKeepsJobs ==
  ASSUME JobsInv, NEW w \in Workers, NEW how, Settle({active[w]}, how), active' = Freed(w),
         \A j \in Jobs : active[w] = j => how \in {Failed, ResultOf(j)},
         queue' = queue
  PROVE  JobsInv'
<1>1. /\ active' = [active EXCEPT ![w] = None] /\ active \in [Workers -> Jobs \cup {None}]
      /\ queue \in Seq(Jobs) /\ None \notin Jobs
  BY ExtractionPoolAssumption DEF Freed, JobsInv
<1>2. /\ active' \in [Workers -> Jobs \cup {None}]
      /\ \A v \in Workers : active'[v] = IF v = w THEN None ELSE active[v]
  BY <1>1
<1>3. /\ \A j \in Jobs : job[j] = "active" <=> \E v \in Workers : active[v] = j
      /\ \A j \in Jobs : job[j] = "queued" <=> j \in Queued
      /\ \A v, x \in Workers : active[v] # None /\ active[v] = active[x] => v = x
  BY DEF JobsInv
<1>4. \A j \in Jobs : j \in {active[w]} => job[j] # "settled" /\ how \in {Failed, ResultOf(j)}
  BY <1>3
<1>5. /\ job' \in [Jobs -> {"new", "queued", "active", "settled"}]
      /\ outcome' \in [Jobs -> Outcome]
      /\ \A j \in Jobs : outcome'[j] \in {Pending, Failed, ResultOf(j)}
      /\ \A j \in Jobs : job'[j] = "settled" <=> outcome'[j] # Pending
      /\ \A j \in Jobs : job'[j] = IF j \in {active[w]} THEN "settled" ELSE job[j]
  BY <1>4, SettleOutcomes
<1>6. ASSUME NEW j \in Jobs
      PROVE  job'[j] = "active" <=> \E v \in Workers : active'[v] = j
  <2>1. CASE active[w] = j
    <3>1. ~\E v \in Workers : active'[v] = j
      BY <1>1, <1>2, <1>3, <2>1
    <3> QED
      BY <1>5, <2>1, <3>1
  <2>2. CASE active[w] # j
    <3>1. (\E v \in Workers : active'[v] = j) <=> \E v \in Workers : active[v] = j
      BY <1>1, <1>2, <2>2
    <3> QED
      BY <1>3, <1>5, <2>2, <3>1
  <2> QED
    BY <2>1, <2>2
<1>7. ASSUME NEW j \in Jobs
      PROVE  job'[j] = "queued" <=> j \in Queued'
  <2>1. Queued' = Queued
    BY DEF Queued
  <2>2. active[w] = j => job[j] = "active"
    BY <1>3
  <2> QED
    BY <1>3, <1>5, <2>1, <2>2
<1>8. \A v, x \in Workers : active'[v] # None /\ active'[v] = active'[x] => v = x
  BY <1>2, <1>3
<1>9. queue' \in Seq(Jobs) /\ \A i, k \in 1..Len(queue') : queue'[i] = queue'[k] => i = k
  BY DEF JobsInv
<1> QED
  BY <1>2, <1>5, <1>6, <1>7, <1>8, <1>9 DEF JobsInv

\* A job leaves the queue and fails.
LEMMA DropKeepsJobs ==
  ASSUME JobsInv, NEW g \in 1..Len(queue), Removes(queue, g, queue', Jobs),
         Settle({queue[g]}, Failed), active' = active
  PROVE  JobsInv' /\ Len(queue') = Len(queue) - 1
<1>1. /\ queue \in Seq(Jobs) /\ queue[g] \in Jobs
      /\ Distinct(queue)
  BY ElementOfSeq DEF JobsInv, Distinct
<1>2. /\ Queued' = Queued \ {queue[g]}
      /\ Distinct(queue')
      /\ queue' \in Seq(Jobs) /\ Len(queue') = Len(queue) - 1
  <2>1. ASSUME NEW r, Removes(queue, g, r, Jobs)
        PROVE  /\ Elements(r) = Elements(queue) \ {queue[g]}
               /\ Distinct(r)
               /\ r \in Seq(Jobs) /\ Len(r) = Len(queue) - 1
    BY <1>1, <2>1, RemovedQueue
  <2> QED
    BY <2>1 DEF Queued, Elements
<1>3. /\ \A j \in Jobs : job[j] = "active" <=> \E v \in Workers : active[v] = j
      /\ \A j \in Jobs : job[j] = "queued" <=> j \in Queued
      /\ queue[g] \in Queued
  BY DEF JobsInv, Queued
<1>4. job[queue[g]] = "queued"
  BY <1>1, <1>3
<1>5. /\ job' \in [Jobs -> {"new", "queued", "active", "settled"}]
      /\ outcome' \in [Jobs -> Outcome]
      /\ \A j \in Jobs : outcome'[j] \in {Pending, Failed, ResultOf(j)}
      /\ \A j \in Jobs : job'[j] = "settled" <=> outcome'[j] # Pending
      /\ \A j \in Jobs : job'[j] = IF j \in {queue[g]} THEN "settled" ELSE job[j]
  BY <1>4, SettleOutcomes
<1>6. \A j \in Jobs : job'[j] = "active" <=> \E v \in Workers : active'[v] = j
  BY <1>3, <1>4, <1>5
<1>7. \A j \in Jobs : job'[j] = "queued" <=> j \in Queued'
  BY <1>2, <1>3, <1>5
<1> QED
  BY <1>2, <1>5, <1>6, <1>7 DEF JobsInv, Distinct

\* A job joins the queue at its end.
LEMMA ExtractKeepsJobs ==
  ASSUME JobsInv, NEW j \in Jobs, Extract(j)
  PROVE  JobsInv' /\ Len(queue') = Len(queue) + 1
<1>1. /\ job[j] = "new" /\ job' = [job EXCEPT ![j] = "queued"]
      /\ queue' = Append(queue, j) /\ outcome' = outcome /\ active' = active
      /\ job \in [Jobs -> {"new", "queued", "active", "settled"}] /\ queue \in Seq(Jobs)
  BY DEF Extract, JobsInv
<1>2. j \notin Queued
  BY <1>1 DEF JobsInv
<1>3. /\ queue' \in Seq(Jobs) /\ Len(queue') = Len(queue) + 1
      /\ Queued' = Queued \cup {j}
      /\ Distinct(queue')
  <2>1. Distinct(queue) /\ j \notin Elements(queue)
    BY <1>2 DEF JobsInv, Distinct, Elements, Queued
  <2> QED
    BY <1>1, <2>1, AppendedQueue DEF Elements, Queued
<1>4. \A i, k \in 1..Len(queue') : queue'[i] = queue'[k] => i = k
  BY <1>3 DEF Distinct
<1>6. /\ job' \in [Jobs -> {"new", "queued", "active", "settled"}]
      /\ \A k \in Jobs : job'[k] = IF k = j THEN "queued" ELSE job[k]
  BY <1>1
<1>7. \A k \in Jobs : job'[k] = "active" <=> \E w \in Workers : active'[w] = k
  BY <1>1, <1>6 DEF JobsInv
<1>8. \A k \in Jobs : job'[k] = "queued" <=> k \in Queued'
  BY <1>3, <1>6 DEF JobsInv
<1>9. \A k \in Jobs : job'[k] = "settled" <=> outcome'[k] # Pending
  BY <1>1, <1>6 DEF JobsInv
<1> QED
  BY <1>1, <1>3, <1>4, <1>6, <1>7, <1>8, <1>9 DEF JobsInv

\* A job that has no place fails.
LEMMA RejectKeepsJobs ==
  ASSUME JobsInv, NEW j \in Jobs, job[j] = "new", Settle({j}, Failed),
         queue' = queue, active' = active
  PROVE  JobsInv'
<1>1. /\ job' \in [Jobs -> {"new", "queued", "active", "settled"}]
      /\ outcome' \in [Jobs -> Outcome]
      /\ \A k \in Jobs : outcome'[k] \in {Pending, Failed, ResultOf(k)}
      /\ \A k \in Jobs : job'[k] = "settled" <=> outcome'[k] # Pending
      /\ \A k \in Jobs : job'[k] = IF k \in {j} THEN "settled" ELSE job[k]
  BY SettleOutcomes
<1>2. \A k \in Jobs : job'[k] = "active" <=> \E w \in Workers : active'[w] = k
  BY <1>1 DEF JobsInv
<1>3. Queued' = Queued
  BY DEF Queued
<1>4. \A k \in Jobs : job'[k] = "queued" <=> k \in Queued'
  BY <1>1, <1>3 DEF JobsInv
<1> QED
  BY <1>1, <1>2, <1>4 DEF JobsInv

\* The head of the queue becomes a worker's job.
LEMMA AssignKeepsJobs ==
  ASSUME JobsInv, NEW w \in Workers, active[w] = None, queue # <<>>,
         queue' = Tail(queue), job' = [job EXCEPT ![Head(queue)] = "active"],
         active' = [active EXCEPT ![w] = Head(queue)], outcome' = outcome
  PROVE  JobsInv' /\ Len(queue') = Len(queue) - 1
<1> DEFINE h == Head(queue)
<1>1. /\ queue \in Seq(Jobs) /\ job \in [Jobs -> {"new", "queued", "active", "settled"}]
      /\ active \in [Workers -> Jobs \cup {None}] /\ None \notin Jobs
      /\ Distinct(queue)
  BY ExtractionPoolAssumption DEF JobsInv, Distinct
<1>2. Removes(queue, 1, Tail(queue), Jobs) /\ Len(queue) >= 1 /\ h = queue[1] /\ h \in Jobs
  BY <1>1, TailRemoves, HeadTailProperties
<1>3. 1 \in 1..Len(queue)
  BY <1>1, <1>2, LenProperties
<1>4. /\ Elements(Tail(queue)) = Elements(queue) \ {queue[1]}
      /\ Distinct(Tail(queue))
      /\ Tail(queue) \in Seq(Jobs) /\ Len(Tail(queue)) = Len(queue) - 1
  BY <1>1, <1>2, <1>3, RemovedQueue
<1>5. /\ Queued' = Queued \ {h} /\ h \in Queued
      /\ Distinct(queue') /\ queue' \in Seq(Jobs) /\ Len(queue') = Len(queue) - 1
  BY <1>2, <1>3, <1>4 DEF Queued, Elements
<1> HIDE DEF h
<1>6. /\ job' = [job EXCEPT ![h] = "active"] /\ active' = [active EXCEPT ![w] = h]
  BY DEF h
<1>7. /\ job' \in [Jobs -> {"new", "queued", "active", "settled"}]
      /\ \A k \in Jobs : job'[k] = IF k = h THEN "active" ELSE job[k]
      /\ active' \in [Workers -> Jobs \cup {None}]
      /\ \A v \in Workers : active'[v] = IF v = w THEN h ELSE active[v]
  BY <1>1, <1>2, <1>6
<1>8. /\ \A j \in Jobs : job[j] = "active" <=> \E v \in Workers : active[v] = j
      /\ \A j \in Jobs : job[j] = "queued" <=> j \in Queued
      /\ \A v, x \in Workers : active[v] # None /\ active[v] = active[x] => v = x
  BY DEF JobsInv
<1>9. job[h] = "queued" /\ \A v \in Workers : active[v] # h
  BY <1>2, <1>5, <1>8
<1>10. ASSUME NEW j \in Jobs
       PROVE  job'[j] = "active" <=> \E v \in Workers : active'[v] = j
  <2>1. CASE j = h
    BY <1>7, <2>1
  <2>2. CASE j # h
    <3>1. (\E v \in Workers : active'[v] = j) <=> \E v \in Workers : active[v] = j
      BY <1>1, <1>7, <2>2
    <3> QED
      BY <1>7, <1>8, <2>2, <3>1
  <2> QED
    BY <2>1, <2>2
<1>11. \A j \in Jobs : job'[j] = "queued" <=> j \in Queued'
  BY <1>5, <1>7, <1>8
<1>12. \A v, x \in Workers : active'[v] # None /\ active'[v] = active'[x] => v = x
  BY <1>7, <1>8, <1>9
<1>13. \A j \in Jobs : job'[j] = "settled" <=> outcome'[j] # Pending
  BY <1>7, <1>9 DEF JobsInv
<1> QED
  BY <1>5, <1>7, <1>10, <1>11, <1>12, <1>13 DEF JobsInv, Distinct

\* close() settles every job that has a place.
LEMMA CloseKeepsJobs ==
  ASSUME JobsInv, Close
  PROVE  JobsInv' /\ \A j \in Jobs : job'[j] \in {"new", "settled"}
<1>1. /\ Settle(Unsettled, Failed) /\ queue' = <<>> /\ active' = [w \in Workers |-> None]
      /\ None \notin Jobs
  BY ExtractionPoolAssumption DEF Close
<1>2. /\ \A j \in Jobs : job[j] = "active" <=> \E v \in Workers : active[v] = j
      /\ \A j \in Jobs : job[j] = "queued" <=> j \in Queued
      /\ \A j \in Jobs : job[j] \in {"new", "queued", "active", "settled"}
  BY DEF JobsInv
<1>3. \A j \in Jobs : j \in Unsettled <=> job[j] \in {"queued", "active"}
  BY <1>2 DEF Unsettled
<1>4. /\ job' \in [Jobs -> {"new", "queued", "active", "settled"}]
      /\ outcome' \in [Jobs -> Outcome]
      /\ \A k \in Jobs : outcome'[k] \in {Pending, Failed, ResultOf(k)}
      /\ \A k \in Jobs : job'[k] = "settled" <=> outcome'[k] # Pending
      /\ \A k \in Jobs : job'[k] = IF k \in Unsettled THEN "settled" ELSE job[k]
  BY <1>1, <1>3, SettleOutcomes
<1>5. \A j \in Jobs : job'[j] \in {"new", "settled"}
  BY <1>2, <1>3, <1>4
<1>6. /\ queue' \in Seq(Jobs) /\ Len(queue') = 0 /\ Queued' = {}
      /\ active' \in [Workers -> Jobs \cup {None}]
      /\ \A w \in Workers : active'[w] \notin Jobs /\ active'[w] = None
  BY <1>1, EmptySeq DEF Queued
<1> QED
  BY <1>4, <1>5, <1>6 DEF JobsInv

LEMMA SameKeepsJobs ==
  ASSUME JobsInv, UNCHANGED <<job, outcome, queue, active>>
  PROVE  JobsInv'
  BY DEF JobsInv, Queued

-----------------------------------------------------------------------------
(* The extraction pool: workers and waiting *)

LEMMA SlotsFinite ==
  /\ IsFiniteSet(Slots) /\ Cardinality(Slots) \in Nat
<1>1. Slots \subseteq Workers
  BY DEF Slots
<1> QED
  BY <1>1, ExtractionPoolAssumption, FS_Subset, FS_CardinalityType

\* No worker has begun.
LEMMA FewerSlots ==
  ASSUME WorkersBounded, Slots' \subseteq Slots
  PROVE  WorkersBounded'
<1>1. IsFiniteSet(Slots') /\ Cardinality(Slots') <= Cardinality(Slots) /\ Cardinality(Slots') \in Nat
  BY SlotsFinite, FS_Subset, FS_CardinalityType
<1> QED
  BY <1>1, SlotsFinite, ExtractionPoolAssumption DEF WorkersBounded

\* One has begun, where there was room.
LEMMA OneSlotMore ==
  ASSUME RoomForWorker, NEW w, Slots' = Slots \cup {w}
  PROVE  WorkersBounded'
<1>1. Cardinality(Slots \cup {w}) = IF w \in Slots THEN Cardinality(Slots) ELSE Cardinality(Slots) + 1
  BY SlotsFinite, FS_AddElement
<1> QED
  BY <1>1, SlotsFinite, ExtractionPoolAssumption DEF WorkersBounded, RoomForWorker

\* A worker that loses its job and its slot, or is terminated.
LEMMA LeaveKeepsWorkers ==
  ASSUME JobsInv, WorkersInv, NEW w \in Workers,
         active' = Freed(w), active' \in [Workers -> Jobs \cup {None}],
         \/ /\ slot' = Retired(w) /\ slot[w] # "unused"
            /\ posted' = posted
         \/ /\ slot' = [slot EXCEPT ![w] = "unused"]
            /\ posted' = [posted EXCEPT ![w] = {}]
  PROVE  /\ WorkersInv' /\ Slots' \subseteq Slots /\ Idle' \subseteq Idle
         /\ slot' = Retired(w) => Slots' = Slots
<1>1. /\ active \in [Workers -> Jobs \cup {None}]
      /\ slot \in [Workers -> {"unused", "live", "retiring"}]
      /\ posted \in [Workers -> SUBSET Jobs]
  BY DEF JobsInv, WorkersInv
<1>2. \A v \in Workers : active'[v] = IF v = w THEN None ELSE active[v]
  BY <1>1 DEF Freed
<1>3. /\ slot' \in [Workers -> {"unused", "live", "retiring"}]
      /\ posted' \in [Workers -> SUBSET Jobs]
      /\ \A v \in Workers \ {w} : slot'[v] = slot[v] /\ posted'[v] = posted[v]
      /\ slot'[w] \in {"unused", "retiring"}
      /\ slot'[w] = "unused" => posted'[w] = {}
      /\ slot'[w] # "unused" => slot[w] # "unused"
      /\ slot' = Retired(w) => slot'[w] = "retiring" /\ slot[w] # "unused"
  BY <1>1 DEF Retired
<1>4. Slots' \subseteq Slots /\ Idle' \subseteq Idle
  BY <1>2, <1>3 DEF Slots, Idle
<1>5. slot' = Retired(w) => Slots' = Slots
  BY <1>3 DEF Slots
<1>6. \A v \in Workers : active'[v] # None => slot'[v] = "live"
  BY <1>2, <1>3 DEF WorkersInv
<1>7. \A v \in Workers :
        slot'[v] = "live" => posted'[v] = IF active'[v] = None THEN {} ELSE {active'[v]}
  BY <1>2, <1>3 DEF WorkersInv
<1>8. \A v \in Workers : slot'[v] = "unused" => posted'[v] = {}
  BY <1>3 DEF WorkersInv
<1>9. WorkersBounded'
  BY <1>4, FewerSlots DEF WorkersInv
<1> QED
  BY <1>3, <1>4, <1>5, <1>6, <1>7, <1>8, <1>9 DEF WorkersInv

LEMMA SameKeepsWorkers ==
  ASSUME WorkersInv, UNCHANGED <<slot, active, posted>>
  PROVE  WorkersInv' /\ Slots' = Slots /\ Idle' = Idle /\ (RoomForWorker' <=> RoomForWorker)
<1>1. Slots' = Slots /\ Idle' = Idle
  BY DEF Slots, Idle
<1> QED
  BY <1>1 DEF WorkersInv, WorkersBounded, RoomForWorker

\* A handler comes to dispatch(): the queue is within its limit.
LEMMA DispatchKeepsWait ==
  ASSUME JobsInv, WaitInv, ~dispatching, Dispatch, pool' = pool, queue' = queue,
         \A j \in Jobs : job[j] \in {"new", "settled"} => job'[j] = job[j],
         \A j \in Jobs : job'[j] # job[j] => job'[j] = "settled",
         Slots' \subseteq Slots
  PROVE  WaitInv'
<1>1. dispatching' = (pool = "open")
  BY DEF Dispatch
<1>2. dispatching' \in BOOLEAN /\ (dispatching' <=> pool = "open")
  BY <1>1
<1>3. pool = "open" => Len(queue) <= MaxQueue
  BY DEF WaitInv, NoNeedlessWait
<1>4. NoNeedlessWait'
  BY <1>2 DEF NoNeedlessWait
<1>5. pool = "closed" => Slots' = {}
  BY DEF WaitInv
<1>6. pool # "open" => \A j \in Jobs : job'[j] \in {"new", "settled"}
  BY DEF WaitInv
<1> QED
  BY <1>2, <1>3, <1>4, <1>5, <1>6 DEF WaitInv

\* A handler that does not: there is no more room or idle worker than there was.
LEMMA RestKeepsWait ==
  ASSUME JobsInv, WaitInv, ~dispatching, dispatching' = dispatching, pool' = pool,
         Len(queue') \in Nat, Len(queue') <= Len(queue), Len(queue) \in Nat,
         queue' # <<>> => queue # <<>>,
         \A j \in Jobs : job[j] \in {"new", "settled"} => job'[j] \in {"new", "settled"},
         \A j \in Jobs : job'[j] # job[j] => job'[j] = "settled",
         Slots' = Slots, Idle' \subseteq Idle
  PROVE  WaitInv'
<1>1. RoomForWorker' <=> RoomForWorker
  BY DEF RoomForWorker
<1>2. ASSUME pool = "open"
      PROVE  (queue' # <<>> => Idle' = {} /\ ~RoomForWorker') /\ Len(queue') <= MaxQueue
  BY <1>1, <1>2, ExtractionPoolAssumption DEF WaitInv, NoNeedlessWait
<1>3. NoNeedlessWait'
  BY <1>2 DEF NoNeedlessWait
<1>4. pool # "open" => \A j \in Jobs : job'[j] \in {"new", "settled"}
  BY DEF WaitInv
<1> QED
  BY <1>3, <1>4 DEF WaitInv

-----------------------------------------------------------------------------
(* The extraction pool: its actions *)

LEMMA QueueLength == JobsInv => Len(queue) \in Nat /\ (queue = <<>> <=> Len(queue) = 0)
  BY EmptySeq, LenProperties DEF JobsInv

LEMMA ExtractKeepsInv ==
  ASSUME PoolInv, NEW j \in Jobs, Extract(j)
  PROVE  PoolInv'
<1>1. JobsInv' /\ Len(queue') = Len(queue) + 1 /\ Len(queue) \in Nat
  BY ExtractKeepsJobs, QueueLength DEF PoolInv
<1>2. /\ UNCHANGED <<slot, active, posted, pool>> /\ pool = "open" /\ HasCapacity
      /\ ~dispatching /\ dispatching' = TRUE
  BY DEF Extract, Dispatch
<1>3. WorkersInv' /\ Slots' = Slots /\ Idle' = Idle /\ (RoomForWorker' <=> RoomForWorker)
  BY <1>2, SameKeepsWorkers DEF PoolInv
<1>4. (queue # <<>> => Idle = {} /\ ~RoomForWorker) /\ Len(queue) <= MaxQueue
  BY <1>2 DEF PoolInv, WaitInv, NoNeedlessWait
<1>5. Len(queue') <= MaxQueue \/ (Len(queue') = 1 /\ (Idle' # {} \/ RoomForWorker'))
  <2>1. CASE Len(queue) < MaxQueue
    BY <1>1, <2>1, ExtractionPoolAssumption
  <2>2. CASE Idle # {} \/ RoomForWorker
    BY <1>1, <1>3, <1>4, <2>2, QueueLength DEF PoolInv
  <2> QED
    BY <1>2, <2>1, <2>2 DEF HasCapacity
<1>6. WaitInv'
  BY <1>2, <1>5 DEF WaitInv, NoNeedlessWait
<1> QED
  BY <1>1, <1>3, <1>6 DEF PoolInv

LEMMA ExtractRejectedKeepsInv ==
  ASSUME PoolInv, NEW j \in Jobs, NEW ab \in BOOLEAN, ExtractRejected(j, ab)
  PROVE  PoolInv'
<1>1. /\ job[j] = "new" /\ Settle({j}, Failed) /\ ~dispatching
      /\ UNCHANGED <<queue, slot, active, posted, dispatching, pool>>
  BY DEF ExtractRejected
<1>2. JobsInv'
  BY <1>1, RejectKeepsJobs DEF PoolInv
<1>3. WorkersInv' /\ Slots' = Slots /\ Idle' = Idle
  BY <1>1, SameKeepsWorkers DEF PoolInv
<1>4. \A k \in Jobs : job'[k] = IF k = j THEN "settled" ELSE job[k]
  BY <1>1 DEF Settle
<1>5. WaitInv'
  BY <1>1, <1>3, <1>4, QueueLength, RestKeepsWait DEF PoolInv
<1> QED
  BY <1>2, <1>3, <1>5 DEF PoolInv

LEMMA GiveUpQueuedKeepsInv ==
  ASSUME PoolInv, NEW j \in Jobs, GiveUpQueued(j)
  PROVE  PoolInv'
<1>1. /\ job[j] = "queued" /\ Settle({j}, Failed) /\ ~dispatching
      /\ queue' = Without(j)
      /\ UNCHANGED <<slot, active, posted, dispatching, pool>>
  BY DEF GiveUpQueued
<1>2. queue \in Seq(Jobs) /\ j \in Queued
  BY <1>1 DEF PoolInv, JobsInv
<1>3. PICK g \in 1..Len(queue) :
        queue[g] = j /\ Without(j) = SubSeq(queue, 1, g - 1) \o SubSeq(queue, g + 1, Len(queue))
  <2> DEFINE g == CHOOSE k \in 1..Len(queue) : queue[k] = j
  <2>1. \E k \in 1..Len(queue) : queue[k] = j
    BY <1>2 DEF Queued
  <2>2. g \in 1..Len(queue) /\ queue[g] = j
    BY <2>1
  <2>3. Without(j) = SubSeq(queue, 1, g - 1) \o SubSeq(queue, g + 1, Len(queue))
    BY DEF Without
  <2> HIDE DEF g
  <2> QED
    BY <2>2, <2>3
<1>4. Removes(queue, g, queue', Jobs) /\ Settle({queue[g]}, Failed)
  BY <1>1, <1>2, <1>3, SpliceRemoves
<1>5. JobsInv' /\ Len(queue') = Len(queue) - 1 /\ Len(queue) \in Nat
  BY <1>1, <1>4, DropKeepsJobs, QueueLength DEF PoolInv
<1>6. WorkersInv' /\ Slots' = Slots /\ Idle' = Idle
  BY <1>1, SameKeepsWorkers DEF PoolInv
<1>7. \A k \in Jobs : job'[k] = IF k = j THEN "settled" ELSE job[k]
  BY <1>1 DEF Settle
<1>8. WaitInv'
  <2>1. queue # <<>>
    BY <1>2, QueueLength DEF PoolInv, Queued
  <2>2. Len(queue) >= 1
    BY <1>5, <2>1, QueueLength DEF PoolInv
  <2>3. Len(queue') \in Nat /\ Len(queue') <= Len(queue)
    BY <1>5, <2>2
  <2> QED
    BY <1>1, <1>5, <1>6, <1>7, <2>1, <2>3, RestKeepsWait DEF PoolInv
<1> QED
  BY <1>5, <1>6, <1>8 DEF PoolInv

\* A worker is freed of its job: given up on, answered, failed or gone.
LEMMA FreedKeepsInv ==
  ASSUME PoolInv, NEW w \in Workers, NEW how, Settle({active[w]}, how), active' = Freed(w),
         \A j \in Jobs : active[w] = j => how \in {Failed, ResultOf(j)},
         ~dispatching, queue' = queue, pool' = pool,
         \/ slot' = Retired(w) /\ slot[w] # "unused" /\ UNCHANGED <<posted, dispatching>>
         \/ /\ slot' = [slot EXCEPT ![w] = "unused"]
            /\ posted' = [posted EXCEPT ![w] = {}]
            /\ Dispatch
  PROVE  PoolInv'
<1>1. JobsInv'
  BY FreeKeepsJobs DEF PoolInv
<1>2. active' \in [Workers -> Jobs \cup {None}]
  BY <1>1 DEF JobsInv
<1>3. /\ WorkersInv' /\ Slots' \subseteq Slots /\ Idle' \subseteq Idle
      /\ slot' = Retired(w) => Slots' = Slots
  BY <1>2, LeaveKeepsWorkers DEF PoolInv
<1>4. \A j \in Jobs : job'[j] = IF j \in {active[w]} THEN "settled" ELSE job[j]
  BY DEF Settle
<1>5. \A j \in Jobs : j \in {active[w]} => job[j] = "active"
  BY DEF PoolInv, JobsInv
<1>6. WaitInv'
  <2>1. CASE slot' = Retired(w) /\ dispatching' = dispatching
    BY <1>3, <1>4, <1>5, <2>1, QueueLength, RestKeepsWait DEF PoolInv
  <2>2. CASE Dispatch
    BY <1>3, <1>4, <1>5, <2>2, DispatchKeepsWait DEF PoolInv
  <2> QED
    BY <2>1, <2>2
<1> QED
  BY <1>1, <1>3, <1>6 DEF PoolInv

LEMMA GiveUpActiveKeepsInv ==
  ASSUME PoolInv, NEW j \in Jobs, GiveUpActive(j)
  PROVE  PoolInv'
<1>1. PICK w \in Workers : active[w] = j /\ active' = Freed(w) /\ slot' = Retired(w)
  BY DEF GiveUpActive
<1>2. slot[w] = "live"
  BY <1>1, ExtractionPoolAssumption DEF PoolInv, WorkersInv
<1> QED
  BY <1>1, <1>2, FreedKeepsInv DEF GiveUpActive

LEMMA WorkerEndsKeepsInv ==
  ASSUME PoolInv, NEW w \in Workers, WorkerError(w) \/ WorkerExit(w)
  PROVE  PoolInv'
  BY FreedKeepsInv DEF WorkerError, WorkerExit

LEMMA MessageKeepsInv ==
  ASSUME PoolInv, NEW w \in Workers, NEW j \in Jobs, NEW how, Message(w, j, how)
  PROVE  PoolInv'
<1>1. /\ ~dispatching /\ j \in posted[w] /\ how \in {Failed, ResultOf(j)}
      /\ posted' = [posted EXCEPT ![w] = posted[w] \ {j}]
      /\ UNCHANGED <<queue, slot, pool>>
  BY DEF Message
<1>2. /\ posted \in [Workers -> SUBSET Jobs] /\ active \in [Workers -> Jobs \cup {None}]
      /\ slot \in [Workers -> {"unused", "live", "retiring"}]
  BY DEF PoolInv, JobsInv, WorkersInv
<1>3. /\ posted' \in [Workers -> SUBSET Jobs]
      /\ \A v \in Workers : posted'[v] = IF v = w THEN posted[w] \ {j} ELSE posted[v]
  BY <1>1, <1>2
<1>4. /\ \A v \in Workers : active[v] # None => slot[v] = "live"
      /\ \A v \in Workers :
           slot[v] = "live" => posted[v] = IF active[v] = None THEN {} ELSE {active[v]}
      /\ \A v \in Workers : slot[v] = "unused" => posted[v] = {}
      /\ WorkersBounded
  BY DEF PoolInv, WorkersInv
<1>5. slot[w] = "live" => active[w] = j
  BY <1>1, <1>4
<1>6. Slots' = Slots
  BY <1>1 DEF Slots
<1>7. WorkersBounded'
  BY <1>4, <1>6 DEF WorkersBounded
<1>8. CASE Awaited(w, j)
  <2>1. /\ active' = Freed(w) /\ Settle({active[w]}, how) /\ Dispatch
    BY <1>8 DEF Message, AfterMessage
  <2>2. active[w] = j
    BY <1>8 DEF Awaited
  <2>3. JobsInv'
    BY <1>1, <2>1, <2>2, FreeKeepsJobs DEF PoolInv
  <2>4. \A v \in Workers : active'[v] = IF v = w THEN None ELSE active[v]
    BY <1>2, <2>1 DEF Freed
  <2>5. WorkersInv'
    BY <1>1, <1>2, <1>3, <1>4, <1>5, <1>7, <2>2, <2>4 DEF WorkersInv
  <2>6. \A k \in Jobs : job'[k] = IF k \in {active[w]} THEN "settled" ELSE job[k]
    BY <2>1 DEF Settle
  <2>7. job[j] = "active"
    BY <2>2 DEF PoolInv, JobsInv
  <2>8. WaitInv'
    BY <1>1, <1>6, <2>1, <2>2, <2>6, <2>7, DispatchKeepsWait DEF PoolInv
  <2> QED
    BY <2>3, <2>5, <2>8 DEF PoolInv
<1>9. CASE ~Awaited(w, j)
  <2>1. UNCHANGED <<active, job, outcome, dispatching>> /\ slot[w] # "live"
    BY <1>5, <1>9 DEF Message, Awaited
  <2>2. JobsInv'
    BY <1>1, <2>1, SameKeepsJobs DEF PoolInv
  <2>3. WorkersInv'
    BY <1>1, <1>2, <1>3, <1>4, <1>7, <2>1 DEF WorkersInv
  <2>4. Idle' = Idle
    BY <1>1, <2>1 DEF Idle
  <2>5. WaitInv'
    BY <1>1, <1>6, <2>1, <2>4, QueueLength, RestKeepsWait DEF PoolInv
  <2> QED
    BY <2>2, <2>3, <2>5 DEF PoolInv
<1> QED
  BY <1>8, <1>9

LEMMA TerminatedKeepsInv ==
  ASSUME PoolInv, NEW w \in Workers, Terminated(w)
  PROVE  PoolInv'
<1>1. /\ slot[w] = "retiring" /\ slot' = [slot EXCEPT ![w] = "unused"] /\ ~dispatching
      /\ posted' = [posted EXCEPT ![w] = {}] /\ Dispatch
      /\ UNCHANGED <<job, outcome, queue, active, pool>>
  BY DEF Terminated
<1>2. active' = Freed(w) /\ active' \in [Workers -> Jobs \cup {None}]
  <2>1. active[w] = None /\ active \in [Workers -> Jobs \cup {None}]
    BY <1>1 DEF PoolInv, JobsInv, WorkersInv
  <2> QED
    BY <1>1, <2>1 DEF Freed
<1>3. JobsInv'
  BY <1>1, SameKeepsJobs DEF PoolInv
<1>4. WorkersInv' /\ Slots' \subseteq Slots
  BY <1>1, <1>2, LeaveKeepsWorkers DEF PoolInv
<1>5. WaitInv'
  BY <1>1, <1>4, DispatchKeepsWait DEF PoolInv
<1> QED
  BY <1>3, <1>4, <1>5 DEF PoolInv

\* While dispatch() runs, the queue gets back within its limit.
LEMMA DispatchingKeepsWait ==
  ASSUME PoolInv, dispatching, dispatching' = dispatching, pool' = pool,
         queue # <<>>, Len(queue') = Len(queue) - 1
  PROVE  WaitInv'
<1>1. Len(queue') <= MaxQueue
  <2>1. Len(queue) <= MaxQueue \/ Len(queue) = 1
    BY DEF PoolInv, WaitInv
  <2> QED
    BY <2>1, QueueLength, ExtractionPoolAssumption DEF PoolInv
<1>2. pool = "open"
  BY DEF PoolInv, WaitInv
<1> QED
  BY <1>1, <1>2 DEF PoolInv, WaitInv, NoNeedlessWait

LEMMA AssignKeepsInv ==
  ASSUME PoolInv, NEW w \in Workers, NEW posts \in BOOLEAN, Assign(w, posts)
  PROVE  PoolInv'
<1> DEFINE h == Head(queue)
<1>1. /\ dispatching /\ queue # <<>> /\ queue' = Tail(queue)
      /\ w \in Idle \/ (Idle = {} /\ RoomForWorker /\ slot[w] = "unused")
      /\ UNCHANGED <<dispatching, pool>>
  BY DEF Assign
<1>2. /\ queue \in Seq(Jobs) /\ active \in [Workers -> Jobs \cup {None}]
      /\ posted \in [Workers -> SUBSET Jobs]
      /\ slot \in [Workers -> {"unused", "live", "retiring"}]
  BY DEF PoolInv, JobsInv, WorkersInv
<1>3. /\ Removes(queue, 1, queue', Jobs) /\ h = queue[1] /\ 1 \in 1..Len(queue) /\ h \in Jobs
  BY <1>1, <1>2, TailRemoves, HeadTailProperties, LenProperties
<1>4. job[h] = "queued"
  BY <1>3 DEF PoolInv, JobsInv, Queued
<1>5. active[w] = None /\ posted[w] = {}
  BY <1>1 DEF Idle, PoolInv, WorkersInv
<1>6. /\ \A v \in Workers : active[v] # None => slot[v] = "live"
      /\ \A v \in Workers :
           slot[v] = "live" => posted[v] = IF active[v] = None THEN {} ELSE {active[v]}
      /\ \A v \in Workers : slot[v] = "unused" => posted[v] = {}
      /\ WorkersBounded
  BY DEF PoolInv, WorkersInv
<1>7. ASSUME Slots' = Slots \cup {w} PROVE WorkersBounded'
  <2>1. CASE w \in Idle
    <3>1. Slots' = Slots
      BY <1>7, <2>1 DEF Idle, Slots
    <3> QED
      BY <1>6, <3>1 DEF WorkersBounded
  <2>2. CASE RoomForWorker
    BY <1>7, <2>2, OneSlotMore
  <2> QED
    BY <1>1, <2>1, <2>2
<1>8. CASE posts
  <2>1. /\ job' = [job EXCEPT ![h] = "active"] /\ active' = [active EXCEPT ![w] = h]
        /\ posted' = [posted EXCEPT ![w] = posted[w] \cup {h}]
        /\ slot' = [slot EXCEPT ![w] = "live"] /\ outcome' = outcome
    BY <1>4, <1>8 DEF Assign
  <2>2. JobsInv' /\ Len(queue') = Len(queue) - 1
    BY <1>1, <1>5, <2>1, AssignKeepsJobs DEF PoolInv
  <2>3. h # None
    BY <1>3, ExtractionPoolAssumption
  <2> HIDE DEF h
  <2>4. /\ \A v \in Workers : active'[v] = IF v = w THEN h ELSE active[v]
        /\ \A v \in Workers : posted'[v] = IF v = w THEN {h} ELSE posted[v]
        /\ \A v \in Workers : slot'[v] = IF v = w THEN "live" ELSE slot[v]
        /\ posted' \in [Workers -> SUBSET Jobs]
        /\ slot' \in [Workers -> {"unused", "live", "retiring"}]
    BY <1>2, <1>3, <1>5, <2>1
  <2>5. Slots' = Slots \cup {w}
    BY <2>4 DEF Slots
  <2>6. WorkersInv'
    <3>1. \A v \in Workers : active'[v] # None => slot'[v] = "live"
      BY <1>6, <2>4
    <3>2. \A v \in Workers :
            slot'[v] = "live" => posted'[v] = IF active'[v] = None THEN {} ELSE {active'[v]}
      BY <1>6, <2>3, <2>4
    <3>3. \A v \in Workers : slot'[v] = "unused" => posted'[v] = {}
      BY <1>6, <2>4
    <3> QED
      BY <1>7, <2>4, <2>5, <3>1, <3>2, <3>3 DEF WorkersInv
  <2> QED
    BY <1>1, <2>2, <2>6, DispatchingKeepsWait DEF PoolInv
<1>9. CASE ~posts
  <2>1. /\ Settle({h}, Failed) /\ slot' = Retired(w) /\ UNCHANGED <<active, posted>>
    BY <1>4, <1>9 DEF Assign
  <2>2. JobsInv' /\ Len(queue') = Len(queue) - 1
    BY <1>3, <2>1, DropKeepsJobs DEF PoolInv
  <2>3. /\ \A v \in Workers : slot'[v] = IF v = w THEN "retiring" ELSE slot[v]
        /\ slot' \in [Workers -> {"unused", "live", "retiring"}]
    BY <1>2, <2>1 DEF Retired
  <2>4. Slots' = Slots \cup {w}
    BY <2>3 DEF Slots
  <2>5. WorkersInv'
    <3>1. \A v \in Workers : active'[v] # None => slot'[v] = "live"
      BY <1>5, <1>6, <2>1, <2>3
    <3>2. \A v \in Workers :
            slot'[v] = "live" => posted'[v] = IF active'[v] = None THEN {} ELSE {active'[v]}
      BY <1>6, <2>1, <2>3
    <3>3. \A v \in Workers : slot'[v] = "unused" => posted'[v] = {}
      BY <1>6, <2>1, <2>3
    <3> QED
      BY <1>2, <1>7, <2>1, <2>3, <2>4, <3>1, <3>2, <3>3 DEF WorkersInv
  <2> QED
    BY <1>1, <2>2, <2>5, DispatchingKeepsWait DEF PoolInv
<1> QED
  BY <1>8, <1>9

LEMMA SpawnFailsKeepsInv ==
  ASSUME PoolInv, SpawnFails
  PROVE  PoolInv'
<1>1. /\ dispatching /\ queue # <<>> /\ queue' = Tail(queue) /\ Settle({Head(queue)}, Failed)
      /\ UNCHANGED <<slot, active, posted, dispatching, pool>>
  BY DEF SpawnFails
<1>2. queue \in Seq(Jobs)
  BY DEF PoolInv, JobsInv
<1>3. Removes(queue, 1, queue', Jobs) /\ Head(queue) = queue[1] /\ 1 \in 1..Len(queue)
  BY <1>1, <1>2, TailRemoves, LenProperties
<1>4. JobsInv' /\ Len(queue') = Len(queue) - 1
  BY <1>1, <1>3, DropKeepsJobs DEF PoolInv
<1>5. WorkersInv'
  BY <1>1, SameKeepsWorkers DEF PoolInv
<1> QED
  BY <1>1, <1>4, <1>5, DispatchingKeepsWait DEF PoolInv

\* dispatch() returns only when nothing waits or nothing can be done for it.
LEMMA DispatchReturnsKeepsInv ==
  ASSUME PoolInv, DispatchReturns
  PROVE  PoolInv'
<1>1. /\ dispatching /\ (queue = <<>> \/ (Idle = {} /\ ~RoomForWorker))
      /\ dispatching' = FALSE
      /\ UNCHANGED <<job, outcome, queue, slot, active, posted, pool>>
  BY DEF DispatchReturns
<1>2. JobsInv'
  BY <1>1, SameKeepsJobs DEF PoolInv
<1>3. WorkersInv' /\ Slots' = Slots /\ Idle' = Idle /\ (RoomForWorker' <=> RoomForWorker)
  BY <1>1, SameKeepsWorkers DEF PoolInv
<1>4. Len(queue) <= MaxQueue
  BY <1>1, QueueLength, ExtractionPoolAssumption DEF PoolInv, WaitInv
<1>5. WaitInv'
  <2>1. dispatching' \in BOOLEAN /\ ~dispatching'
    BY <1>1
  <2>2. NoNeedlessWait'
    BY <1>1, <1>3, <1>4 DEF NoNeedlessWait
  <2> QED
    BY <1>1, <1>3, <2>1, <2>2 DEF PoolInv, WaitInv
<1> QED
  BY <1>2, <1>3, <1>5 DEF PoolInv

LEMMA CloseKeepsInv ==
  ASSUME PoolInv, Close
  PROVE  PoolInv'
<1>1. /\ ~dispatching /\ pool' = "closing"
      /\ active' = [w \in Workers |-> None]
      /\ slot' = [w \in Workers |-> IF slot[w] = "unused" THEN "unused" ELSE "retiring"]
      /\ UNCHANGED <<posted, dispatching>>
  BY DEF Close
<1>2. JobsInv' /\ \A j \in Jobs : job'[j] \in {"new", "settled"}
  BY CloseKeepsJobs DEF PoolInv
<1>3. /\ slot' \in [Workers -> {"unused", "live", "retiring"}]
      /\ \A w \in Workers : slot'[w] # "live" /\ active'[w] = None
      /\ \A w \in Workers : slot'[w] = "unused" <=> slot[w] = "unused"
  BY <1>1
<1>4. WorkersInv'
  <2>1. Slots' = Slots
    BY <1>3 DEF Slots
  <2>2. WorkersBounded'
    BY <2>1 DEF PoolInv, WorkersInv, WorkersBounded
  <2> QED
    BY <1>1, <1>3, <2>2 DEF PoolInv, WorkersInv
<1>5. WaitInv'
  BY <1>1, <1>2 DEF PoolInv, WaitInv, NoNeedlessWait
<1> QED
  BY <1>2, <1>4, <1>5 DEF PoolInv

LEMMA CloseResolvesKeepsInv ==
  ASSUME PoolInv, CloseResolves
  PROVE  PoolInv'
<1>1. /\ pool = "closing" /\ pool' = "closed" /\ Slots = {}
      /\ UNCHANGED <<job, outcome, queue, slot, active, posted, dispatching>>
  BY DEF CloseResolves
<1>2. JobsInv' /\ WorkersInv' /\ Slots' = Slots
  BY <1>1, SameKeepsJobs, SameKeepsWorkers DEF PoolInv
<1>3. WaitInv'
  BY <1>1, <1>2 DEF PoolInv, WaitInv, NoNeedlessWait
<1> QED
  BY <1>2, <1>3 DEF PoolInv

LEMMA InitHasPoolInv == Init => PoolInv
<1> SUFFICES ASSUME Init PROVE PoolInv
  OBVIOUS
<1>1. /\ \A j \in Jobs : job[j] = "new" /\ outcome[j] = Pending
      /\ queue \in Seq(Jobs) /\ Len(queue) = 0 /\ queue = <<>>
      /\ \A w \in Workers : slot[w] = "unused" /\ active[w] = None /\ posted[w] = {}
      /\ dispatching = FALSE /\ pool = "open"
  BY EmptySeq DEF Init
<1>2. JobsInv
  <2>1. /\ job \in [Jobs -> {"new", "queued", "active", "settled"}]
        /\ outcome \in [Jobs -> Outcome] /\ active \in [Workers -> Jobs \cup {None}]
    BY Outcomes DEF Init
  <2>2. Queued = {}
    BY <1>1 DEF Queued
  <2> QED
    BY <1>1, <2>1, <2>2, ExtractionPoolAssumption DEF JobsInv
<1>3. WorkersInv
  <2>1. /\ slot \in [Workers -> {"unused", "live", "retiring"}]
        /\ posted \in [Workers -> SUBSET Jobs]
    BY DEF Init
  <2>2. Cardinality(Slots) = 0
    <3>1. Slots = {}
      BY <1>1 DEF Slots
    <3> QED
      BY <3>1, FS_EmptySet
  <2> QED
    BY <1>1, <2>1, <2>2, ExtractionPoolAssumption DEF WorkersInv, WorkersBounded
<1>4. WaitInv
  <2>1. /\ dispatching \in BOOLEAN
        /\ ~dispatching
    BY DEF Init
  <2>2. Len(queue) <= MaxQueue
    <3>1. Len(queue) = 0 /\ MaxQueue \in Nat
      BY <1>1, ExtractionPoolAssumption
    <3> QED
      BY <3>1
  <2>3. NoNeedlessWait
    BY <1>1, <2>2 DEF NoNeedlessWait
  <2> QED
    BY <1>1, <2>1, <2>3 DEF WaitInv
<1> QED
  BY <1>2, <1>3, <1>4 DEF PoolInv

LEMMA SameKeepsInv ==
  ASSUME PoolInv, UNCHANGED vars
  PROVE  PoolInv'
<1>1. UNCHANGED <<job, outcome, queue, slot, active, posted, dispatching, pool>>
  BY DEF vars
<1>2. JobsInv' /\ WorkersInv' /\ Slots' = Slots /\ Idle' = Idle /\ (RoomForWorker' <=> RoomForWorker)
  BY <1>1, SameKeepsJobs, SameKeepsWorkers DEF PoolInv
<1>3. WaitInv'
  BY <1>1, <1>2 DEF PoolInv, WaitInv, NoNeedlessWait
<1> QED
  BY <1>2, <1>3 DEF PoolInv

LEMMA NextKeepsPoolInv == PoolInv /\ [Next]_vars => PoolInv'
<1> SUFFICES ASSUME PoolInv, [Next]_vars PROVE PoolInv'
  OBVIOUS
<1>1. CASE DispatchStep
  BY <1>1, AssignKeepsInv, SpawnFailsKeepsInv, DispatchReturnsKeepsInv DEF DispatchStep
<1>2. ASSUME NEW w \in Workers, Answers(w) PROVE PoolInv'
  BY <1>2, MessageKeepsInv DEF Answers
<1> QED
  BY <1>1, <1>2, ExtractKeepsInv, ExtractRejectedKeepsInv, GiveUpQueuedKeepsInv,
     GiveUpActiveKeepsInv, WorkerEndsKeepsInv, TerminatedKeepsInv, CloseKeepsInv,
     CloseResolvesKeepsInv, SameKeepsInv DEF Next

-----------------------------------------------------------------------------
(* What the invariant says *)

LEMMA AtMostOne ==
  ASSUME NEW S, \A x, y \in S : x = y
  PROVE  Cardinality(S) <= 1
<1>1. CASE S = {}
  BY <1>1, FS_EmptySet
<1>2. ASSUME NEW x \in S PROVE Cardinality(S) <= 1
  <2>1. S = {x}
    BY <1>2
  <2> QED
    BY <2>1, FS_Singleton
<1> QED
  BY <1>1, <1>2

LEMMA PoolInvSound ==
  ASSUME PoolInv
  PROVE  CapacityIsUsed /\ NoStaleAnswer
<1>1. ASSUME NEW j \in Jobs
      PROVE  /\ Cardinality({w \in Workers : active[w] = j}) <= 1
             /\ Cardinality({i \in 1..Len(queue) : queue[i] = j}) <= 1
  <2>1. \A w, v \in {u \in Workers : active[u] = j} : w = v
    BY ExtractionPoolAssumption DEF PoolInv, JobsInv
  <2>2. \A i, k \in {n \in 1..Len(queue) : queue[n] = j} : i = k
    BY DEF PoolInv, JobsInv
  <2> QED
    BY <2>1, <2>2, AtMostOne
<1>2. OnePlacePerJob
  BY <1>1 DEF OnePlacePerJob, PoolInv, JobsInv
<1>3. TypeOK
  BY <1>2 DEF TypeOK, PoolInv, JobsInv, WorkersInv, WaitInv
<1>4. WorkersBounded /\ NoNeedlessWait
  BY DEF PoolInv, WorkersInv, WaitInv
<1>5. AnswersOnlyItsJob
  BY DEF AnswersOnlyItsJob, PoolInv, JobsInv, WorkersInv
<1>6. CloseLeavesNothing
  BY DEF CloseLeavesNothing, PoolInv, JobsInv, WaitInv
<1> QED
  BY <1>3, <1>4, <1>5, <1>6 DEF CapacityIsUsed, NoStaleAnswer

LEMMA PoolInvHolds == PoolsSpec => []PoolInv
<1>1. PoolsInit => PoolInv
  BY InitHasPoolInv DEF PoolsInit
<1>2. PoolInv /\ [Extracting(Next) \/ Rendering(Browser!Next)]_poolsVars => PoolInv'
  BY NextKeepsPoolInv, SameKeepsInv DEF Extracting, Rendering, poolsVars
<1> QED
  BY <1>1, <1>2, PTL DEF PoolsSpec

\* With any number of jobs and workers and any size and queue limit, there are
\* never more workers than the pool's size, no job waits while a worker is idle
\* or could be started, and the queue keeps to its limit.
THEOREM CapacityAlwaysUsed == PoolsSpec => []CapacityIsUsed
<1>1. PoolInv => CapacityIsUsed
  BY PoolInvSound
<1> QED
  BY <1>1, PoolInvHolds, PTL

\* However jobs are given up on and workers fail, a job settles once, with the
\* answer to its own message or an error, and close() leaves nothing behind.
THEOREM NoAnswerIsStale == PoolsSpec => []NoStaleAnswer
<1>1. PoolInv => NoStaleAnswer
  BY PoolInvSound
<1> QED
  BY <1>1, PoolInvHolds, PTL

-----------------------------------------------------------------------------
(* The browser: what is up, and who knows of it *)

LEMMA Names == \A b \in Browsers : b # None
  BY PoolsAssumption DEF Browser!BrowserPoolAssumption

LEMMA SameKeepsManager ==
  ASSUME Browser!ManagerInv,
         UNCHANGED <<browser, browserPromise, generation, launch, launchGen, alive, unseen,
                     closing>>
  PROVE  Browser!ManagerInv'
  BY DEF Browser!ManagerInv, Browser!LaunchInv, Browser!RefersTo, Browser!ClosingInv,
         Browser!Closing, Browser!NotClosing, Browser!OneUp, Browser!Up, Browser!NoOrphan

\* With no close() under way a browser that is up or being launched is the
\* manager's own.
LEMMA UpIsTheManagers ==
  ASSUME Browser!ManagerInv, ~Browser!Closing, NEW b \in Browser!Up
  PROVE  b \in {browser, browserPromise} /\ b \in Browsers
<1>1. closing = Browser!NotClosing
  BY DEF Browser!ManagerInv, Browser!ClosingInv
<1>2. closing.current = None /\ closing.launching = None
  BY <1>1 DEF Browser!NotClosing
<1>3. b \in Browsers /\ (b \in alive \/ launch[b] = "pending")
  BY DEF Browser!Up, Browser!ManagerInv
<1>4. CASE b \in alive
  BY <1>2, <1>3, <1>4, Names DEF Browser!ManagerInv, Browser!NoOrphan
<1>5. CASE launch[b] = "pending"
  BY <1>2, <1>3, <1>5, Names DEF Browser!ManagerInv, Browser!LaunchInv
<1> QED
  BY <1>3, <1>4, <1>5

\* A launch begins when nothing is up.
LEMMA LaunchKeepsManager ==
  ASSUME Browser!ManagerInv, ~Browser!Closing, browser \notin alive, browserPromise = None,
         NEW b \in Browsers, launch[b] = "unused",
         browserPromise' = b,
         launch' = [launch EXCEPT ![b] = "pending"],
         launchGen' = [launchGen EXCEPT ![b] = generation],
         UNCHANGED <<browser, generation, alive, unseen, closing>>
  PROVE  Browser!ManagerInv'
<1>1. Browser!Up = {}
  <2>1. ASSUME NEW a \in Browser!Up PROVE FALSE
    <3>1. a = browser /\ a \in Browsers
      BY UpIsTheManagers, Names
    <3>2. launch[a] = "pending"
      BY <3>1 DEF Browser!Up
    <3>3. launch[browser] = "resolved"
      BY <3>1, Names DEF Browser!ManagerInv, Browser!LaunchInv, Browser!RefersTo
    <3> QED
      BY <3>1, <3>2, <3>3
  <2> QED
    BY <2>1
<1>2. alive = {} /\ \A a \in Browsers : launch[a] # "pending"
  BY <1>1 DEF Browser!Up
<1>3. /\ launch \in [Browsers -> {"unused", "pending", "resolved", "rejected"}]
      /\ launchGen \in [Browsers -> Nat] /\ generation \in Nat
  BY DEF Browser!ManagerInv, Browser!LaunchInv
<1>4. /\ launch' \in [Browsers -> {"unused", "pending", "resolved", "rejected"}]
      /\ launchGen' \in [Browsers -> Nat]
      /\ \A a \in Browsers : launch'[a] = IF a = b THEN "pending" ELSE launch[a]
      /\ launchGen'[b] = generation
  BY <1>3
<1>5. closing' = closing /\ closing = Browser!NotClosing /\ Browser!ClosingInv'
  BY DEF Browser!ManagerInv, Browser!ClosingInv, Browser!Closing, Browser!NotClosing
<1>6. closing'.current = None /\ closing'.launching = None
  BY <1>5 DEF Browser!NotClosing
<1>7. Browser!LaunchInv'
  <2>1. \A a \in Browsers : launch'[a] = "pending" => a = browserPromise' /\ launchGen'[a] = generation'
    BY <1>2, <1>4
  <2>2. /\ \A a \in alive' : launch'[a] \in {"pending", "resolved"}
        /\ \A a \in unseen' : launch'[a] = "resolved" /\ a \notin alive'
    <3>1. \A a \in unseen : a \in Browsers /\ launch[a] = "resolved" /\ a \notin alive
      BY DEF Browser!ManagerInv, Browser!LaunchInv
    <3> QED
      BY <1>2, <1>4, <3>1
  <2>3. Browser!RefersTo'
    <3>1. browser # None => browser \in Browsers /\ launch[browser] = "resolved"
      BY DEF Browser!ManagerInv, Browser!LaunchInv, Browser!RefersTo
    <3> QED
      BY <1>4, <1>6, <3>1 DEF Browser!RefersTo
  <2> QED
    BY <1>4, <2>1, <2>2, <2>3 DEF Browser!LaunchInv
<1>8. Browser!OneUp'
  BY <1>2, <1>4 DEF Browser!OneUp, Browser!Up
<1>9. Browser!NoOrphan'
  BY <1>2 DEF Browser!NoOrphan
<1> QED
  BY <1>5, <1>7, <1>8, <1>9 DEF Browser!ManagerInv

\* A browser comes up. It becomes the manager's when no close() has come since
\* it was asked for.
LEMMA LaunchedKeepsManager ==
  ASSUME Browser!ManagerInv, NEW b \in Browsers, Browser!Launched(b)
  PROVE  Browser!ManagerInv'
<1>1. /\ launch[b] = "pending" /\ b \notin alive /\ alive' = alive \cup {b}
      /\ UNCHANGED <<launchGen, generation, unseen, closing>>
  BY DEF Browser!Launched
<1>2. Browser!Up = {b}
  BY <1>1 DEF Browser!ManagerInv, Browser!OneUp, Browser!Up
<1>3. alive = {} /\ \A a \in Browsers : launch[a] = "pending" => a = b
  BY <1>1, <1>2 DEF Browser!Up
<1>4. /\ launch \in [Browsers -> {"unused", "pending", "resolved", "rejected"}]
      /\ launchGen \in [Browsers -> Nat] /\ generation \in Nat
      /\ browserPromise \in Browsers \cup {None} /\ browser \in Browsers \cup {None}
      /\ \/ b = browserPromise /\ launchGen[b] = generation
         \/ b = closing.launching /\ launchGen[b] < generation
              /\ closing.step \in {"contexts", "launch"}
      /\ \A a \in unseen : a \in Browsers /\ launch[a] = "resolved"
      /\ Browser!RefersTo /\ Browser!ClosingInv
      /\ closing.current \in Browsers \cup {None} /\ closing.launching \in Browsers \cup {None}
  BY <1>1 DEF Browser!ManagerInv, Browser!LaunchInv, Browser!ClosingInv
<1>5. CASE launchGen[b] = generation
  <2>1. /\ browser' = b
        /\ launch' = [launch EXCEPT ![b] = "resolved"]
        /\ browserPromise' = IF browserPromise = b THEN None ELSE browserPromise
    BY <1>5 DEF Browser!Launched, Browser!PromiseCleared
  <2>2. b = browserPromise
    BY <1>4, <1>5
  <2>3. ~Browser!Closing
    BY <1>4, <2>2, Names DEF Browser!ClosingInv
  <2>4. closing = Browser!NotClosing /\ closing.current = None /\ closing.launching = None
    BY <1>4, <2>3 DEF Browser!ClosingInv, Browser!NotClosing
  <2>5. Browser!ClosingInv'
    BY <1>1, <1>4, <2>3 DEF Browser!ClosingInv, Browser!Closing, Browser!NotClosing
  <2>6. /\ launch' \in [Browsers -> {"unused", "pending", "resolved", "rejected"}]
        /\ \A a \in Browsers : launch'[a] = IF a = b THEN "resolved" ELSE launch[a]
    BY <1>4, <2>1
  <2>7. Browser!RefersTo'
    BY <1>1, <2>1, <2>2, <2>4, <2>6 DEF Browser!RefersTo
  <2>8. /\ \A a \in Browsers : launch'[a] # "pending"
        /\ \A a \in alive' : launch'[a] \in {"pending", "resolved"}
        /\ \A a \in unseen' : launch'[a] = "resolved" /\ a \notin alive'
    <3>1. b \notin unseen
      BY <1>1, <1>4
    <3> QED
      BY <1>1, <1>3, <1>4, <2>6, <3>1
  <2>9. Browser!LaunchInv'
    BY <1>1, <1>4, <2>6, <2>7, <2>8 DEF Browser!LaunchInv
  <2>10. Browser!OneUp' /\ Browser!NoOrphan'
    BY <1>1, <1>3, <2>1, <2>8 DEF Browser!OneUp, Browser!Up, Browser!NoOrphan
  <2> QED
    BY <1>1, <1>4, <2>1, <2>2, <2>5, <2>9, <2>10 DEF Browser!ManagerInv
<1>6. CASE launchGen[b] # generation
  <2>1. UNCHANGED <<browser, launch, browserPromise>>
    BY <1>6 DEF Browser!Launched
  <2>2. b = closing.launching
    BY <1>4, <1>6
  <2>3. Browser!ClosingInv'
    BY <1>1, <1>4, <2>1 DEF Browser!ClosingInv, Browser!Closing, Browser!NotClosing
  <2>4. Browser!LaunchInv'
    <3>1. b \notin unseen
      BY <1>1, <1>4
    <3> QED
      BY <1>1, <2>1, <3>1 DEF Browser!ManagerInv, Browser!LaunchInv, Browser!RefersTo
  <2>5. Browser!OneUp' /\ Browser!NoOrphan'
    BY <1>1, <1>3, <2>1, <2>2 DEF Browser!OneUp, Browser!Up, Browser!NoOrphan
  <2> QED
    BY <1>1, <1>4, <2>1, <2>3, <2>4, <2>5 DEF Browser!ManagerInv
<1> QED
  BY <1>5, <1>6

\* A launch that fails, or whose browser close() has made unwanted, is over.
LEMMA RejectedKeepsManager ==
  ASSUME Browser!ManagerInv, NEW b \in Browsers, launch[b] = "pending",
         alive' = alive \ {b},
         launch' = [launch EXCEPT ![b] = "rejected"],
         browserPromise' = Browser!PromiseCleared(b),
         UNCHANGED <<launchGen, browser, generation, unseen, closing>>
  PROVE  Browser!ManagerInv'
<1>1. /\ launch \in [Browsers -> {"unused", "pending", "resolved", "rejected"}]
      /\ browserPromise \in Browsers \cup {None} /\ browser \in Browsers \cup {None}
      /\ closing.current \in Browsers \cup {None} /\ closing.launching \in Browsers \cup {None}
      /\ Browser!RefersTo /\ Browser!ClosingInv /\ Browser!OneUp
  BY DEF Browser!ManagerInv, Browser!LaunchInv, Browser!ClosingInv
<1>2. /\ launch' \in [Browsers -> {"unused", "pending", "resolved", "rejected"}]
      /\ \A a \in Browsers : launch'[a] = IF a = b THEN "rejected" ELSE launch[a]
  BY <1>1
<1>3. browserPromise' = IF browserPromise = b THEN None ELSE browserPromise
  BY DEF Browser!PromiseCleared
<1>4. alive' = {} /\ \A a \in Browsers : launch'[a] # "pending"
  <2>1. Browser!Up = {b}
    BY <1>1 DEF Browser!OneUp, Browser!Up
  <2>2. \A a \in Browsers : a # b => a \notin alive /\ launch[a] # "pending"
    BY <2>1 DEF Browser!Up
  <2>3. alive \subseteq Browsers
    BY DEF Browser!ManagerInv
  <2> QED
    BY <1>2, <2>2, <2>3
<1>5. Browser!RefersTo'
  <2>1. browserPromise' # None => browserPromise' # b /\ browserPromise' = browserPromise
    BY <1>3
  <2>2. browser # b /\ closing.current # b
    BY <1>1, Names DEF Browser!RefersTo
  <2> QED
    BY <1>1, <1>2, <1>3, <2>1, <2>2 DEF Browser!RefersTo
<1>6. Browser!ClosingInv'
  BY <1>1, <1>3 DEF Browser!ClosingInv, Browser!Closing, Browser!NotClosing
<1>7. \A a \in unseen' : launch'[a] = "resolved" /\ a \notin alive'
  <2>1. \A a \in unseen : a \in Browsers /\ launch[a] = "resolved"
    BY DEF Browser!ManagerInv, Browser!LaunchInv
  <2> QED
    BY <1>2, <1>4, <2>1
<1>8. Browser!LaunchInv'
  <2>1. launchGen' \in [Browsers -> Nat]
    BY DEF Browser!ManagerInv, Browser!LaunchInv
  <2> QED
    BY <1>2, <1>4, <1>5, <1>7, <2>1 DEF Browser!LaunchInv
<1>9. Browser!OneUp' /\ Browser!NoOrphan'
  BY <1>4 DEF Browser!OneUp, Browser!Up, Browser!NoOrphan
<1> QED
  BY <1>1, <1>3, <1>4, <1>6, <1>8, <1>9 DEF Browser!ManagerInv

LEMMA LaunchEndsKeepsManager ==
  ASSUME Browser!ManagerInv, NEW b \in Browsers, Browser!LaunchEnds(b)
  PROVE  Browser!ManagerInv'
<1>1. CASE Browser!LaunchInvalidated(b)
  BY <1>1, RejectedKeepsManager DEF Browser!LaunchInvalidated
<1>2. CASE Browser!LaunchFails(b)
  <2>1. alive' = alive \ {b}
    BY <1>2 DEF Browser!LaunchFails
  <2> QED
    BY <1>2, <2>1, RejectedKeepsManager DEF Browser!LaunchFails
<1> QED
  BY <1>1, <1>2, LaunchedKeepsManager DEF Browser!LaunchEnds

LEMMA CrashKeepsManager ==
  ASSUME Browser!ManagerInv, NEW b \in Browsers, Browser!Crash(b)
  PROVE  Browser!ManagerInv'
<1>1. /\ b \in alive /\ launch[b] = "resolved"
      /\ alive' = alive \ {b} /\ unseen' = unseen \cup {b}
      /\ UNCHANGED <<launch, launchGen, browser, browserPromise, generation, closing>>
  BY DEF Browser!Crash, Browser!launchVars
<1>2. Browser!LaunchInv'
  BY <1>1 DEF Browser!ManagerInv, Browser!LaunchInv, Browser!RefersTo
<1>3. Browser!ClosingInv'
  BY <1>1 DEF Browser!ManagerInv, Browser!ClosingInv, Browser!Closing, Browser!NotClosing
<1>4. Browser!OneUp' /\ Browser!NoOrphan'
  BY <1>1 DEF Browser!ManagerInv, Browser!OneUp, Browser!Up, Browser!NoOrphan
<1> QED
  BY <1>1, <1>2, <1>3, <1>4 DEF Browser!ManagerInv

\* The disconnected event is of a browser that is no longer up.
LEMMA DisconnectedKeepsManager ==
  ASSUME Browser!ManagerInv, NEW b \in Browsers, Browser!Disconnected(b)
  PROVE  Browser!ManagerInv'
<1>1. /\ b \in unseen /\ unseen' = unseen \ {b}
      /\ browser' = IF browser = b THEN None ELSE browser
      /\ UNCHANGED <<launch, launchGen, browserPromise, generation, alive, closing>>
  BY DEF Browser!Disconnected, Browser!WithoutBrowser
<1>2. Browser!LaunchInv' /\ b \notin alive
  BY <1>1 DEF Browser!ManagerInv, Browser!LaunchInv, Browser!RefersTo
<1>3. Browser!ClosingInv'
  BY <1>1 DEF Browser!ManagerInv, Browser!ClosingInv, Browser!Closing, Browser!NotClosing
<1>4. Browser!OneUp' /\ Browser!NoOrphan'
  BY <1>1, <1>2 DEF Browser!ManagerInv, Browser!OneUp, Browser!Up, Browser!NoOrphan
<1> QED
  BY <1>1, <1>2, <1>3, <1>4 DEF Browser!ManagerInv

\* close() takes over what the manager had.
LEMMA CloseKeepsManager ==
  ASSUME Browser!ManagerInv, Browser!Close
  PROVE  Browser!ManagerInv'
<1>1. /\ ~Browser!Closing
      /\ generation' = generation + 1 /\ browser' = None /\ browserPromise' = None
      /\ closing' = [step |-> "contexts", current |-> browser, launching |-> browserPromise]
      /\ UNCHANGED <<launch, launchGen, alive, unseen>>
  BY DEF Browser!Close, Browser!LaunchUnderWay
<1>2. /\ browser \in Browsers \cup {None} /\ browserPromise \in Browsers \cup {None}
      /\ generation \in Nat /\ Browser!RefersTo
  BY DEF Browser!ManagerInv, Browser!LaunchInv
<1>3. /\ closing'.step = "contexts" /\ closing'.current = browser
      /\ closing'.launching = browserPromise
      /\ closing' \in [step : {"no", "contexts", "launch", "browsers"},
                       current : Browsers \cup {None}, launching : Browsers \cup {None}]
  BY <1>1, <1>2
<1>4. Browser!ClosingInv'
  BY <1>1, <1>3 DEF Browser!ClosingInv, Browser!Closing
<1>5. ASSUME NEW b \in Browsers, launch[b] = "pending"
      PROVE  b = browserPromise /\ launchGen[b] = generation
  <2>1. closing = Browser!NotClosing
    BY <1>1 DEF Browser!ManagerInv, Browser!ClosingInv
  <2>2. closing.step = "no"
    BY <2>1 DEF Browser!NotClosing
  <2> QED
    BY <1>5, <2>2 DEF Browser!ManagerInv, Browser!LaunchInv
<1>6. Browser!LaunchInv'
  <2>1. ASSUME NEW b \in Browsers, launch'[b] = "pending"
        PROVE  /\ b = closing'.launching /\ launchGen'[b] < generation'
               /\ closing'.step \in {"contexts", "launch"}
    BY <1>1, <1>2, <1>3, <1>5, <2>1
  <2>2. Browser!RefersTo'
    BY <1>1, <1>2, <1>3 DEF Browser!RefersTo
  <2>3. /\ launch' \in [Browsers -> {"unused", "pending", "resolved", "rejected"}]
        /\ launchGen' \in [Browsers -> Nat]
        /\ \A b \in alive' : launch'[b] \in {"pending", "resolved"}
        /\ \A b \in unseen' : launch'[b] = "resolved" /\ b \notin alive'
    BY <1>1 DEF Browser!ManagerInv, Browser!LaunchInv
  <2> QED
    BY <2>1, <2>2, <2>3 DEF Browser!LaunchInv
<1>7. Browser!OneUp'
  BY <1>1 DEF Browser!ManagerInv, Browser!OneUp, Browser!Up
<1>8. Browser!NoOrphan'
  <2>1. \A b \in alive : b \in {browser, browserPromise}
    BY <1>1, UpIsTheManagers DEF Browser!Up
  <2> QED
    BY <1>1, <1>3, <2>1 DEF Browser!NoOrphan
<1> QED
  BY <1>1, <1>2, <1>4, <1>6, <1>7, <1>8 DEF Browser!ManagerInv

\* The steps of close() up to its last: by then no launch is under way.
LEMMA CloseGoesOnKeepsManager ==
  ASSUME Browser!ManagerInv, Browser!CloseContexts \/ Browser!CloseAwaitsLaunch
  PROVE  Browser!ManagerInv'
<1>1. PICK step \in {"launch", "browsers"} :
        /\ closing' = [closing EXCEPT !.step = step]
        /\ Browser!Closing
        /\ step = "browsers" => Browser!LaunchSettled
  BY DEF Browser!CloseContexts, Browser!CloseAwaitsLaunch, Browser!Closing
<1>2. UNCHANGED <<launch, launchGen, browser, browserPromise, generation, alive, unseen>>
  BY DEF Browser!CloseContexts, Browser!CloseAwaitsLaunch, Browser!launchVars
<1>3. /\ closing' \in [step : {"no", "contexts", "launch", "browsers"},
                       current : Browsers \cup {None}, launching : Browsers \cup {None}]
      /\ closing'.step = step
      /\ closing'.current = closing.current /\ closing'.launching = closing.launching
  BY <1>1 DEF Browser!ManagerInv, Browser!ClosingInv
<1>4. Browser!ClosingInv'
  BY <1>1, <1>2, <1>3 DEF Browser!ManagerInv, Browser!ClosingInv, Browser!Closing
<1>5. Browser!LaunchInv'
  <2>1. ASSUME NEW b \in Browsers, launch[b] = "pending"
        PROVE  /\ b = closing'.launching /\ launchGen[b] < generation
               /\ closing'.step \in {"contexts", "launch"}
    <3>1. browserPromise = None
      BY <1>1 DEF Browser!ManagerInv, Browser!ClosingInv
    <3>2. b = closing.launching /\ launchGen[b] < generation
      BY <2>1, <3>1, Names DEF Browser!ManagerInv, Browser!LaunchInv
    <3>3. step # "browsers"
      BY <1>1, <2>1, <3>2, Names DEF Browser!LaunchSettled
    <3> QED
      BY <1>3, <3>2, <3>3
  <2> QED
    BY <1>2, <1>3, <2>1 DEF Browser!ManagerInv, Browser!LaunchInv, Browser!RefersTo
<1>6. Browser!OneUp' /\ Browser!NoOrphan'
  BY <1>2, <1>3 DEF Browser!ManagerInv, Browser!OneUp, Browser!Up, Browser!NoOrphan
<1> QED
  BY <1>2, <1>4, <1>5, <1>6 DEF Browser!ManagerInv

\* When close() resolves it has closed what there was.
LEMMA CloseResolvesKeepsManager ==
  ASSUME Browser!ManagerInv, Browser!CloseResolves
  PROVE  Browser!ManagerInv' /\ alive' = {}
<1> DEFINE targets == {closing.current, closing.launching} \cap alive
<1>1. /\ closing.step = "browsers" /\ closing' = Browser!NotClosing
      /\ alive' = alive \ targets /\ unseen' = unseen \cup targets
      /\ UNCHANGED <<launch, launchGen, browser, browserPromise, generation>>
  BY DEF Browser!CloseResolves, Browser!launchVars
<1>2. browser = None /\ browserPromise = None
  BY <1>1 DEF Browser!ManagerInv, Browser!ClosingInv, Browser!Closing
<1>3. \A b \in Browsers : launch[b] # "pending"
  BY <1>1, <1>2, Names DEF Browser!ManagerInv, Browser!LaunchInv
<1>4. \A b \in alive : b \in Browsers /\ launch[b] = "resolved" /\ b \in targets
  BY <1>2, <1>3, Names DEF Browser!ManagerInv, Browser!LaunchInv, Browser!NoOrphan
<1>5. alive' = {} /\ unseen' \subseteq Browsers
  BY <1>1, <1>4 DEF Browser!ManagerInv
<1>6. \A b \in unseen' : launch[b] = "resolved"
  BY <1>1, <1>4 DEF Browser!ManagerInv, Browser!LaunchInv
<1> HIDE DEF targets
<1>7. /\ closing'.current = None /\ closing'.launching = None /\ closing'.step = "no"
      /\ closing' \in [step : {"no", "contexts", "launch", "browsers"},
                       current : Browsers \cup {None}, launching : Browsers \cup {None}]
  BY <1>1 DEF Browser!NotClosing
<1>8. Browser!ClosingInv'
  BY <1>1, <1>7 DEF Browser!ClosingInv, Browser!Closing, Browser!NotClosing
<1>9. Browser!LaunchInv'
  BY <1>1, <1>2, <1>3, <1>5, <1>6, <1>7
     DEF Browser!ManagerInv, Browser!LaunchInv, Browser!RefersTo
<1>10. Browser!OneUp' /\ Browser!NoOrphan'
  BY <1>1, <1>3, <1>5 DEF Browser!OneUp, Browser!Up, Browser!NoOrphan
<1> QED
  BY <1>1, <1>2, <1>5, <1>8, <1>9, <1>10 DEF Browser!ManagerInv

-----------------------------------------------------------------------------
(* The browser: permits and those who wait for one *)

\* What the invariant says of them.
Permits ==
  /\ phase \in [Renders -> Browser!Phase]
  /\ waiting \in Seq(Renders)
  /\ Distinct(waiting)
  /\ permits = Cardinality(Browser!Holding)
  /\ permits <= Limit
  /\ waiting # <<>> => permits = Limit
  /\ Len(waiting) <= MaxWaiting
  /\ Elements(waiting) = {r \in Renders : phase[r] = "queued"}

LEMMA PermitsMeaning == (Browser!PermitsInv <=> Permits) /\ (Browser!PermitsInv' <=> Permits')
<1>1. \A S : Browser!Cardinality(S) = Cardinality(S)
  BY DEF Cardinality, Browser!Cardinality
<1> QED
  BY <1>1 DEF Permits, Browser!PermitsInv, Browser!PermitsConserved, Distinct, Elements

LEMMA HoldingFinite ==
  /\ IsFiniteSet(Browser!Holding)
  /\ Limit \in Nat \ {0} /\ MaxWaiting \in Nat \ {0}
<1>1. IsFiniteSet(Renders) /\ Limit \in Nat \ {0} /\ MaxWaiting \in Nat \ {0}
  BY PoolsAssumption
     DEF Browser!BrowserPoolAssumption, IsFiniteSet, Browser!IsFiniteSet
<1>2. Browser!Holding \in SUBSET Renders
  BY DEF Browser!Holding
<1> QED
  BY <1>1, <1>2, FS_Subset

\* Phases in which a render holds a permit.
Inside == {"granted", "waiting", "got", "opening", "page", "leaving"}

LEMMA HoldingIsInside ==
  ASSUME phase \in [Renders -> Browser!Phase]
  PROVE  Browser!Holding = {r \in Renders : phase[r] \in Inside}
  BY DEF Browser!Holding, Browser!Phase, Inside

LEMMA SameKeepsPermits ==
  ASSUME Browser!PermitsInv, UNCHANGED <<phase, permits, waiting>>
  PROVE  Browser!PermitsInv'
  BY PermitsMeaning DEF Permits, Browser!Holding

\* A render goes on with its permit.
LEMMA MoveKeepsPermits ==
  ASSUME Browser!PermitsInv, NEW r \in Renders, phase[r] \in Inside,
         NEW p \in Inside, phase' = [phase EXCEPT ![r] = p],
         UNCHANGED <<permits, waiting>>
  PROVE  Browser!PermitsInv'
<1>1. Permits
  BY PermitsMeaning
<1>2. phase \in [Renders -> Browser!Phase] /\ p \in Browser!Phase
  BY <1>1 DEF Permits, Inside, Browser!Phase
<1>3. /\ phase' \in [Renders -> Browser!Phase]
      /\ \A x \in Renders : phase'[x] = IF x = r THEN p ELSE phase[x]
  BY <1>2
<1>4. Browser!Holding' = Browser!Holding
  BY <1>3 DEF Browser!Holding, Inside
<1>5. {x \in Renders : phase'[x] = "queued"} = {x \in Renders : phase[x] = "queued"}
  BY <1>3 DEF Inside
<1> QED
  BY <1>1, <1>3, <1>4, <1>5, PermitsMeaning DEF Permits

\* A render gives its permit back, or on to the first that waits.
LEMMA LeaveKeepsPermits ==
  ASSUME Browser!PermitsInv, NEW r \in Renders, phase[r] \in Inside, Browser!Leave(r)
  PROVE  /\ Browser!PermitsInv'
         /\ \A x \in Renders : phase'[x] \in {phase[x], "granted", "done"}
<1>1. Permits
  BY PermitsMeaning
<1>2. /\ phase \in [Renders -> Browser!Phase] /\ waiting \in Seq(Renders)
      /\ Distinct(waiting) /\ Len(waiting) \in Nat
      /\ permits \in Nat /\ Limit \in Nat /\ MaxWaiting \in Nat
      /\ r \in Browser!Holding /\ IsFiniteSet(Browser!Holding)
  BY <1>1, HoldingFinite, FS_CardinalityType, LenProperties DEF Permits, Browser!Holding, Inside
<1>3. /\ Browser!Release
      /\ phase' = [x \in Renders |->
                     IF x = r THEN "done"
                     ELSE IF waiting' # waiting /\ x = Head(waiting) THEN "granted"
                     ELSE phase[x]]
  BY DEF Browser!Leave, Browser!Granted
<1>4. CASE waiting = <<>>
  <2>1. permits' = permits - 1 /\ waiting' = waiting
    BY <1>3, <1>4 DEF Browser!Release
  <2>2. phase' = [x \in Renders |-> IF x = r THEN "done" ELSE phase[x]]
    BY <1>3, <2>1
  <2>3. /\ phase' \in [Renders -> Browser!Phase]
        /\ \A x \in Renders : phase'[x] = IF x = r THEN "done" ELSE phase[x]
    BY <1>2, <2>2 DEF Browser!Phase
  <2>4. Browser!Holding' = Browser!Holding \ {r}
    BY <2>3 DEF Browser!Holding
  <2>5. Cardinality(Browser!Holding') = permits - 1
    BY <1>1, <1>2, <2>4, FS_RemoveElement DEF Permits
  <2>6. {x \in Renders : phase'[x] = "queued"} = {x \in Renders : phase[x] = "queued"}
    BY <2>3 DEF Inside
  <2>7. Permits'
    BY <1>1, <1>2, <1>4, <2>1, <2>3, <2>5, <2>6 DEF Permits
  <2> QED
    BY <2>3, <2>7, PermitsMeaning
<1>5. CASE waiting # <<>>
  <2>1. permits' = permits /\ waiting' = Tail(waiting)
    BY <1>3, <1>5 DEF Browser!Release
  <2>2. /\ Removes(waiting, 1, Tail(waiting), Renders)
        /\ 1 \in 1..Len(waiting) /\ Head(waiting) = waiting[1]
    BY <1>2, <1>5, TailRemoves
  <2>3. /\ Elements(waiting') = Elements(waiting) \ {waiting[1]}
        /\ Distinct(waiting')
        /\ waiting' \in Seq(Renders) /\ Len(waiting') = Len(waiting) - 1
    BY <1>2, <2>1, <2>2, RemovedQueue
  <2> DEFINE h == waiting[1]
  <2>4. h \in Renders /\ phase[h] = "queued" /\ h # r
    <3>1. h \in Elements(waiting)
      BY <2>2 DEF Elements
    <3> QED
      BY <1>1, <3>1 DEF Permits, Inside
  <2>5. waiting' # waiting
    BY <1>2, <2>3
  <2> HIDE DEF h
  <2>6. /\ phase' \in [Renders -> Browser!Phase]
        /\ \A x \in Renders :
             phase'[x] = IF x = r THEN "done" ELSE IF x = h THEN "granted" ELSE phase[x]
    <3>1. phase' = [x \in Renders |->
                     IF x = r THEN "done" ELSE IF x = h THEN "granted" ELSE phase[x]]
      BY <1>3, <2>2, <2>5 DEF h
    <3> QED
      BY <1>2, <3>1 DEF Browser!Phase
  <2>7. Browser!Holding' = (Browser!Holding \ {r}) \cup {h}
    BY <2>4, <2>6 DEF Browser!Holding
  <2>8. Cardinality(Browser!Holding') = permits
    <3>1. /\ IsFiniteSet(Browser!Holding \ {r})
          /\ Cardinality(Browser!Holding \ {r}) = permits - 1
      BY <1>1, <1>2, FS_RemoveElement DEF Permits
    <3>2. h \notin Browser!Holding \ {r}
      BY <2>4 DEF Browser!Holding
    <3>3. Cardinality((Browser!Holding \ {r}) \cup {h}) = (permits - 1) + 1
      BY <3>1, <3>2, FS_AddElement
    <3> QED
      BY <1>2, <2>7, <3>3
  <2>9. {x \in Renders : phase'[x] = "queued"} = {x \in Renders : phase[x] = "queued"} \ {h}
    BY <2>6 DEF Inside
  <2>10. Elements(waiting') = {x \in Renders : phase'[x] = "queued"}
    BY <1>1, <2>3, <2>9 DEF h, Permits
  <2>11. permits = Limit
    BY <1>1, <1>5 DEF Permits
  <2>12. Permits'
    <3>1. Len(waiting') <= MaxWaiting /\ permits' <= Limit /\ permits' = Limit
      BY <1>1, <1>2, <2>1, <2>3, <2>11 DEF Permits
    <3> QED
      BY <2>1, <2>3, <2>6, <2>8, <2>10, <3>1 DEF Permits
  <2> QED
    BY <2>6, <2>12, PermitsMeaning
<1> QED
  BY <1>4, <1>5

\* render() comes in, waits, or is over.
LEMMA RenderKeepsPermits ==
  ASSUME Browser!PermitsInv, NEW r \in Renders, Browser!Render(r)
  PROVE  /\ Browser!PermitsInv'
         /\ \A x \in Renders : phase'[x] \in {phase[x], "granted", "queued", "done"}
<1>1. Permits
  BY PermitsMeaning
<1>2. /\ phase \in [Renders -> Browser!Phase] /\ waiting \in Seq(Renders)
      /\ Distinct(waiting) /\ Len(waiting) \in Nat
      /\ permits \in Nat /\ Limit \in Nat /\ MaxWaiting \in Nat
      /\ phase[r] = "new" /\ IsFiniteSet(Browser!Holding)
      /\ Elements(waiting) = {x \in Renders : phase[x] = "queued"}
  BY <1>1, HoldingFinite, FS_CardinalityType, LenProperties DEF Permits, Browser!Render
<1>3. PICK p \in {"done", "granted", "queued"} :
        /\ phase' = [phase EXCEPT ![r] = p]
        /\ p = "done" => UNCHANGED <<permits, waiting>>
        /\ p = "granted" => permits < Limit /\ permits' = permits + 1 /\ waiting' = waiting
        /\ p = "queued" => /\ ~(permits < Limit) /\ ~(Len(waiting) >= MaxWaiting)
                           /\ waiting' = Append(waiting, r) /\ permits' = permits
  BY DEF Browser!Render, Browser!permitVars
<1>4. /\ phase' \in [Renders -> Browser!Phase]
      /\ \A x \in Renders : phase'[x] = IF x = r THEN p ELSE phase[x]
  BY <1>2, <1>3 DEF Browser!Phase
<1>5. CASE p = "done"
  <2>1. Browser!Holding' = Browser!Holding
    BY <1>2, <1>4, <1>5 DEF Browser!Holding
  <2>2. {x \in Renders : phase'[x] = "queued"} = {x \in Renders : phase[x] = "queued"}
    BY <1>2, <1>4, <1>5
  <2> QED
    BY <1>1, <1>3, <1>4, <1>5, <2>1, <2>2, PermitsMeaning DEF Permits
<1>6. CASE p = "granted"
  <2>1. /\ Browser!Holding' = Browser!Holding \cup {r}
        /\ r \notin Browser!Holding
    BY <1>2, <1>4, <1>6 DEF Browser!Holding
  <2>2. Cardinality(Browser!Holding') = permits + 1
    BY <1>1, <1>2, <2>1, FS_AddElement DEF Permits
  <2>3. {x \in Renders : phase'[x] = "queued"} = {x \in Renders : phase[x] = "queued"}
    BY <1>2, <1>4, <1>6
  <2>4. permits' = permits + 1 /\ permits' <= Limit /\ waiting' = waiting /\ waiting = <<>>
    BY <1>1, <1>2, <1>3, <1>6 DEF Permits
  <2>5. Permits'
    BY <1>1, <1>4, <2>2, <2>3, <2>4 DEF Permits
  <2> QED
    BY <1>4, <1>6, <2>5, PermitsMeaning
<1>7. CASE p = "queued"
  <2>1. /\ Elements(waiting') = Elements(waiting) \cup {r}
        /\ Distinct(waiting')
        /\ waiting' \in Seq(Renders) /\ Len(waiting') = Len(waiting) + 1
    <3>1. r \notin Elements(waiting)
      BY <1>2
    <3>2. /\ Elements(Append(waiting, r)) = Elements(waiting) \cup {r}
          /\ Distinct(Append(waiting, r))
          /\ Append(waiting, r) \in Seq(Renders) /\ Len(Append(waiting, r)) = Len(waiting) + 1
      BY <1>2, <3>1, AppendedQueue
    <3> QED
      BY <1>3, <1>7, <3>2
  <2>2. Browser!Holding' = Browser!Holding
    BY <1>2, <1>4, <1>7 DEF Browser!Holding
  <2>3. {x \in Renders : phase'[x] = "queued"} = {x \in Renders : phase[x] = "queued"} \cup {r}
    BY <1>2, <1>4, <1>7
  <2>4. permits' = permits /\ permits <= Limit /\ permits = Limit /\ Len(waiting') <= MaxWaiting
    BY <1>1, <1>2, <1>3, <1>7, <2>1 DEF Permits
  <2>5. Permits'
    BY <1>1, <1>2, <1>4, <2>1, <2>2, <2>3, <2>4 DEF Permits
  <2> QED
    BY <1>4, <1>7, <2>5, PermitsMeaning
<1> QED
  BY <1>3, <1>5, <1>6, <1>7

\* A render that waits leaves the queue when its signal aborts.
LEMMA AbortKeepsPermits ==
  ASSUME Browser!PermitsInv, NEW r \in Renders, Browser!Abort(r)
  PROVE  /\ Browser!PermitsInv'
         /\ \A x \in Renders : phase'[x] \in {phase[x], "done"}
<1>1. Permits
  BY PermitsMeaning
<1>2. CASE phase[r] # "queued"
  <2>1. UNCHANGED <<phase, permits, waiting>>
    BY <1>2 DEF Browser!Abort
  <2> QED
    BY <2>1, SameKeepsPermits
<1>3. CASE phase[r] = "queued"
  <2>1. /\ phase' = [phase EXCEPT ![r] = "done"] /\ permits' = permits
        /\ waiting' = Browser!Without(r)
    BY <1>3 DEF Browser!Abort
  <2>2. /\ phase \in [Renders -> Browser!Phase] /\ waiting \in Seq(Renders)
        /\ Distinct(waiting) /\ Len(waiting) \in Nat /\ MaxWaiting \in Nat
        /\ Elements(waiting) = {x \in Renders : phase[x] = "queued"}
    BY <1>1, HoldingFinite, LenProperties DEF Permits
  <2>3. PICK g \in 1..Len(waiting) :
          /\ waiting[g] = r
          /\ waiting' = SubSeq(waiting, 1, g - 1) \o SubSeq(waiting, g + 1, Len(waiting))
    <3> DEFINE g == CHOOSE k \in 1..Len(waiting) : waiting[k] = r
    <3>1. \E k \in 1..Len(waiting) : waiting[k] = r
      BY <1>3, <2>2 DEF Elements
    <3>2. g \in 1..Len(waiting) /\ waiting[g] = r
      BY <3>1
    <3>3. waiting' = SubSeq(waiting, 1, g - 1) \o SubSeq(waiting, g + 1, Len(waiting))
      BY <2>1 DEF Browser!Without
    <3> HIDE DEF g
    <3> QED
      BY <3>2, <3>3
  <2>4. Removes(waiting, g, waiting', Renders)
    BY <2>2, <2>3, SpliceRemoves
  <2>5. /\ Elements(waiting') = Elements(waiting) \ {r}
        /\ Distinct(waiting')
        /\ waiting' \in Seq(Renders) /\ Len(waiting') = Len(waiting) - 1
    <3>1. ASSUME NEW q, Removes(waiting, g, q, Renders)
          PROVE  /\ Elements(q) = Elements(waiting) \ {waiting[g]}
                 /\ Distinct(q)
                 /\ q \in Seq(Renders) /\ Len(q) = Len(waiting) - 1
      BY <2>2, <3>1, RemovedQueue
    <3> QED
      BY <2>3, <2>4, <3>1
  <2>6. /\ phase' \in [Renders -> Browser!Phase]
        /\ \A x \in Renders : phase'[x] = IF x = r THEN "done" ELSE phase[x]
    BY <2>1, <2>2 DEF Browser!Phase
  <2>7. Browser!Holding' = Browser!Holding
    BY <1>3, <2>6 DEF Browser!Holding
  <2>8. {x \in Renders : phase'[x] = "queued"} = {x \in Renders : phase[x] = "queued"} \ {r}
    BY <2>6
  <2>9. waiting # <<>> /\ Len(waiting') <= MaxWaiting
    <3>1. Len(waiting) # 0
      BY <2>2, <2>3
    <3>2. waiting # <<>>
      BY <3>1
    <3> QED
      BY <1>1, <2>2, <2>5, <3>2 DEF Permits
  <2>10. Permits'
    BY <1>1, <2>1, <2>2, <2>5, <2>6, <2>7, <2>8, <2>9 DEF Permits
  <2> QED
    BY <2>6, <2>10, PermitsMeaning
<1> QED
  BY <1>2, <1>3

\* close() ends the renders that wait; the permits in use stay.
LEMMA CloseKeepsPermits ==
  ASSUME Browser!PermitsInv, Browser!Close
  PROVE  /\ Browser!PermitsInv'
         /\ \A x \in Renders : phase'[x] \in {phase[x], "done"}
<1>1. Permits
  BY PermitsMeaning
<1>2. /\ phase' = [r \in Renders |-> IF phase[r] = "queued" THEN "done" ELSE phase[r]]
      /\ waiting' = <<>> /\ permits' = permits
  BY DEF Browser!Close
<1>3. phase \in [Renders -> Browser!Phase] /\ MaxWaiting \in Nat
  BY <1>1, HoldingFinite DEF Permits
<1>4. /\ phase' \in [Renders -> Browser!Phase]
      /\ \A x \in Renders : phase'[x] = IF phase[x] = "queued" THEN "done" ELSE phase[x]
  BY <1>2, <1>3 DEF Browser!Phase
<1>5. Browser!Holding' = Browser!Holding
  BY <1>4 DEF Browser!Holding
<1>6. /\ waiting' \in Seq(Renders) /\ Len(waiting') = 0
      /\ Elements(waiting') = {} /\ Distinct(waiting')
  <2>1. waiting' \in Seq(Renders) /\ Len(waiting') = 0
    BY <1>2, EmptySeq
  <2> QED
    BY <2>1 DEF Elements, Distinct
<1>7. {x \in Renders : phase'[x] = "queued"} = {}
  BY <1>4
<1>8. Permits'
  BY <1>1, <1>2, <1>3, <1>4, <1>5, <1>6, <1>7 DEF Permits
<1> QED
  BY <1>4, <1>8, PermitsMeaning

-----------------------------------------------------------------------------
(* The browser: each action *)

\* Only a render with a browser need have one.
LEMMA PhaseKeepsRenders ==
  ASSUME Browser!RendersInv, on' = on, aborted' \in [Renders -> BOOLEAN],
         \A x \in Renders : phase'[x] \in {phase[x], "granted", "queued", "done"}
  PROVE  Browser!RendersInv'
  BY DEF Browser!RendersInv

\* A render moves on with its browser.
LEMMA MoveKeepsRenders ==
  ASSUME Browser!RendersInv, phase \in [Renders -> Browser!Phase], NEW r \in Renders, NEW p,
         phase' = [phase EXCEPT ![r] = p],
         NEW b \in Browsers, on' = [on EXCEPT ![r] = b] \/ (on' = on /\ on[r] = b),
         aborted' = aborted
  PROVE  Browser!RendersInv'
<1>1. /\ on \in [Renders -> Browsers \cup {None}] /\ aborted \in [Renders -> BOOLEAN]
      /\ \A x \in Renders :
           phase[x] \in {"waiting", "got", "opening", "page", "leaving"} => on[x] # None
      /\ b # None
  BY Names DEF Browser!RendersInv
<1>2. /\ on' \in [Renders -> Browsers \cup {None}]
      /\ \A x \in Renders : on'[x] = IF x = r THEN b ELSE on[x]
  BY <1>1
<1>3. \A x \in Renders : x # r => phase'[x] = phase[x]
  OBVIOUS
<1> QED
  BY <1>1, <1>2, <1>3 DEF Browser!RendersInv

LEMMA LeaveKeepsInv ==
  ASSUME Browser!SharedInv, NEW r \in Renders, phase[r] \in Inside, Browser!Leave(r),
         UNCHANGED <<on, aborted, launch, launchGen, browser, browserPromise, generation,
                     alive, unseen, closing>>
  PROVE  Browser!SharedInv'
<1>1. /\ Browser!PermitsInv'
      /\ \A x \in Renders : phase'[x] \in {phase[x], "granted", "done"}
  BY LeaveKeepsPermits DEF Browser!SharedInv
<1>2. Browser!RendersInv'
  <2>1. aborted' \in [Renders -> BOOLEAN] /\ on' = on
    BY DEF Browser!SharedInv, Browser!RendersInv
  <2> QED
    BY <1>1, <2>1, PhaseKeepsRenders DEF Browser!SharedInv
<1>3. Browser!ManagerInv'
  BY SameKeepsManager DEF Browser!SharedInv
<1> QED
  BY <1>1, <1>2, <1>3 DEF Browser!SharedInv

LEMMA MoveKeepsInv ==
  ASSUME Browser!SharedInv, NEW r \in Renders, phase[r] \in Inside, NEW p \in Inside,
         phase' = [phase EXCEPT ![r] = p],
         NEW b \in Browsers, on' = [on EXCEPT ![r] = b] \/ (on' = on /\ on[r] = b),
         UNCHANGED <<permits, waiting, aborted>>
  PROVE  Browser!PermitsInv' /\ Browser!RendersInv'
<1>1. Browser!PermitsInv'
  BY MoveKeepsPermits DEF Browser!SharedInv
<1>2. phase \in [Renders -> Browser!Phase]
  BY DEF Browser!SharedInv, Browser!PermitsInv
<1>3. Browser!RendersInv'
  BY <1>2, MoveKeepsRenders DEF Browser!SharedInv
<1> QED
  BY <1>1, <1>3

LEMMA GetBrowserKeepsInv ==
  ASSUME Browser!SharedInv, NEW r \in Renders, Browser!GetBrowser(r)
  PROVE  Browser!SharedInv'
<1>1. /\ phase[r] \in Inside
      /\ UNCHANGED <<aborted, alive, unseen, closing>>
  BY DEF Browser!GetBrowser, Inside
<1>2. CASE /\ Browser!Leave(r)
           /\ UNCHANGED <<on, launch, launchGen, browser, browserPromise, generation>>
  BY <1>1, <1>2, LeaveKeepsInv
<1>3. ASSUME NEW b \in Browsers, NEW p \in {"got", "waiting"},
             phase' = [phase EXCEPT ![r] = p], on' = [on EXCEPT ![r] = b],
             UNCHANGED <<permits, waiting, launch, launchGen, browser, browserPromise,
                         generation>>
      PROVE  Browser!SharedInv'
  <2>1. p \in Inside
    BY DEF Inside
  <2>2. Browser!PermitsInv' /\ Browser!RendersInv'
    BY <1>1, <1>3, <2>1, MoveKeepsInv
  <2>3. Browser!ManagerInv'
    BY <1>1, <1>3, SameKeepsManager DEF Browser!SharedInv
  <2> QED
    BY <2>2, <2>3 DEF Browser!SharedInv
<1>4. ASSUME NEW b \in Browser!Unused,
             Browser!MayGetBrowser(r), browser \notin alive, browserPromise = None,
             phase' = [phase EXCEPT ![r] = "waiting"], on' = [on EXCEPT ![r] = b],
             browserPromise' = b,
             launch' = [launch EXCEPT ![b] = "pending"],
             launchGen' = [launchGen EXCEPT ![b] = generation],
             UNCHANGED <<permits, waiting, browser, generation>>
      PROVE  Browser!SharedInv'
  <2>1. b \in Browsers /\ launch[b] = "unused" /\ ~Browser!Closing
    BY <1>4 DEF Browser!Unused, Browser!MayGetBrowser
  <2>2. "waiting" \in Inside
    BY DEF Inside
  <2>3. Browser!PermitsInv' /\ Browser!RendersInv'
    BY <1>1, <1>4, <2>1, <2>2, MoveKeepsInv
  <2>4. Browser!ManagerInv'
    BY <1>1, <1>4, <2>1, LaunchKeepsManager DEF Browser!SharedInv
  <2> QED
    BY <2>3, <2>4 DEF Browser!SharedInv
<1>5. CASE ~Browser!MayGetBrowser(r)
  BY <1>2, <1>5 DEF Browser!GetBrowser, Browser!launchVars
<1>6. CASE Browser!MayGetBrowser(r) /\ browser \in alive
  <2>1. browser \in Browsers
    BY <1>6 DEF Browser!SharedInv, Browser!ManagerInv
  <2>2. /\ phase' = [phase EXCEPT ![r] = "got"] /\ on' = [on EXCEPT ![r] = browser]
        /\ UNCHANGED <<permits, waiting, launch, launchGen, browser, browserPromise, generation>>
    BY <1>6 DEF Browser!GetBrowser, Browser!launchVars, Browser!permitVars
  <2> QED
    BY <1>3, <2>1, <2>2
<1>7. CASE Browser!MayGetBrowser(r) /\ browser \notin alive /\ browserPromise # None
  <2>1. browserPromise \in Browsers
    BY <1>7 DEF Browser!SharedInv, Browser!ManagerInv
  <2>2. /\ phase' = [phase EXCEPT ![r] = "waiting"]
        /\ on' = [on EXCEPT ![r] = browserPromise]
        /\ UNCHANGED <<permits, waiting, launch, launchGen, browser, browserPromise, generation>>
    BY <1>7 DEF Browser!GetBrowser, Browser!launchVars, Browser!permitVars
  <2> QED
    BY <1>3, <2>1, <2>2
<1>8. CASE Browser!MayGetBrowser(r) /\ browser \notin alive /\ browserPromise = None
  <2>1. CASE Browser!Unused = {}
    BY <1>2, <1>8, <2>1 DEF Browser!GetBrowser, Browser!launchVars
  <2>2. CASE Browser!Unused # {}
    <3>1. PICK b \in Browser!Unused :
            /\ phase' = [phase EXCEPT ![r] = "waiting"] /\ on' = [on EXCEPT ![r] = b]
            /\ browserPromise' = b
            /\ launch' = [launch EXCEPT ![b] = "pending"]
            /\ launchGen' = [launchGen EXCEPT ![b] = generation]
            /\ UNCHANGED <<permits, waiting, browser, generation>>
      BY <1>8, <2>2 DEF Browser!GetBrowser, Browser!permitVars
    <3> QED
      BY <1>4, <1>8, <3>1
  <2> QED
    BY <2>1, <2>2
<1> QED
  BY <1>5, <1>6, <1>7, <1>8

\* The steps of a render that leave the manager alone.
LEMMA RenderStepKeepsInv ==
  ASSUME Browser!SharedInv, NEW r \in Renders, Browser!RenderStep(r)
  PROVE  Browser!SharedInv'
<1>1. CASE Browser!GetBrowser(r)
  BY <1>1, GetBrowserKeepsInv
<1>2. CASE ~Browser!GetBrowser(r)
  <2>1. PICK opens \in BOOLEAN :
          \/ Browser!LaunchAwaited(r) \/ Browser!OpenContext(r)
          \/ Browser!ContextOpened(r, opens) \/ Browser!PageEnds(r)
          \/ Browser!ContextClosed(r)
    BY <1>2 DEF Browser!RenderStep
  <2>2. /\ phase[r] \in {"waiting", "got", "opening", "page", "leaving"}
        /\ UNCHANGED <<on, aborted, launch, launchGen, browser, browserPromise, generation,
                       alive, unseen, closing>>
        /\ \/ Browser!Leave(r)
           \/ \E p \in Inside : /\ phase' = [phase EXCEPT ![r] = p]
                                /\ UNCHANGED <<permits, waiting>>
    <3>1. CASE Browser!LaunchAwaited(r)
      BY <3>1 DEF Browser!LaunchAwaited, Browser!launchVars, Browser!permitVars, Inside
    <3>2. CASE Browser!OpenContext(r)
      BY <3>2 DEF Browser!OpenContext, Browser!launchVars, Browser!permitVars, Inside
    <3>3. CASE Browser!ContextOpened(r, opens)
      BY <3>3 DEF Browser!ContextOpened, Browser!launchVars, Browser!permitVars, Inside
    <3>4. CASE Browser!PageEnds(r)
      BY <3>4 DEF Browser!PageEnds, Browser!launchVars, Browser!permitVars, Inside
    <3>5. CASE Browser!ContextClosed(r)
      BY <3>5 DEF Browser!ContextClosed, Browser!launchVars, Inside
    <3> QED
      BY <2>1, <3>1, <3>2, <3>3, <3>4, <3>5
  <2>3. phase[r] \in Inside
    BY <2>2 DEF Inside
  <2>4. CASE Browser!Leave(r)
    BY <2>2, <2>3, <2>4, LeaveKeepsInv
  <2>5. ASSUME NEW p \in Inside, phase' = [phase EXCEPT ![r] = p], UNCHANGED <<permits, waiting>>
        PROVE  Browser!SharedInv'
    <3>1. on[r] \in Browsers
      BY <2>2 DEF Browser!SharedInv, Browser!RendersInv
    <3>2. Browser!PermitsInv' /\ Browser!RendersInv'
      BY <2>2, <2>3, <2>5, <3>1, MoveKeepsInv
    <3>3. Browser!ManagerInv'
      BY <2>2, SameKeepsManager DEF Browser!SharedInv
    <3> QED
      BY <3>2, <3>3 DEF Browser!SharedInv
  <2> QED
    BY <2>2, <2>4, <2>5
<1> QED
  BY <1>1, <1>2

\* render(), an abort and the start of close().
LEMMA CallKeepsInv ==
  ASSUME Browser!SharedInv,
         Browser!Close \/ \E r \in Renders : Browser!Render(r) \/ Browser!Abort(r)
  PROVE  Browser!SharedInv'
<1>1. Browser!PermitsInv' /\ \A x \in Renders : phase'[x] \in {phase[x], "granted", "queued", "done"}
  BY RenderKeepsPermits, AbortKeepsPermits, CloseKeepsPermits DEF Browser!SharedInv
<1>2. on' = on /\ aborted' \in [Renders -> BOOLEAN]
  <2>1. aborted \in [Renders -> BOOLEAN]
    BY DEF Browser!SharedInv, Browser!RendersInv
  <2>2. aborted' = aborted \/ \E r \in Renders : aborted' = [aborted EXCEPT ![r] = TRUE]
    BY DEF Browser!Render, Browser!Abort, Browser!Close
  <2>3. on' = on
    BY DEF Browser!Render, Browser!Abort, Browser!Close
  <2> QED
    BY <2>1, <2>2, <2>3
<1>3. Browser!RendersInv'
  BY <1>1, <1>2, PhaseKeepsRenders DEF Browser!SharedInv
<1>4. Browser!ManagerInv'
  <2>1. CASE Browser!Close
    BY <2>1, CloseKeepsManager DEF Browser!SharedInv
  <2>2. CASE \E r \in Renders : Browser!Render(r) \/ Browser!Abort(r)
    <3>1. UNCHANGED <<browser, browserPromise, generation, launch, launchGen, alive, unseen,
                      closing>>
      BY <2>2 DEF Browser!Render, Browser!Abort, Browser!launchVars
    <3> QED
      BY <3>1, SameKeepsManager DEF Browser!SharedInv
  <2> QED
    BY <2>1, <2>2
<1> QED
  BY <1>1, <1>3, <1>4 DEF Browser!SharedInv

\* What happens to a launch or a browser, and the rest of close(), is nothing to
\* the renders until they look.
LEMMA ElsewhereKeepsInv ==
  ASSUME Browser!SharedInv,
         UNCHANGED <<phase, on, aborted, permits, waiting>>, Browser!ManagerInv'
  PROVE  Browser!SharedInv'
<1>1. Browser!PermitsInv'
  BY SameKeepsPermits DEF Browser!SharedInv
<1>2. Browser!RendersInv'
  BY DEF Browser!SharedInv, Browser!RendersInv
<1> QED
  BY <1>1, <1>2 DEF Browser!SharedInv

LEMMA ManagerStepKeepsInv ==
  ASSUME Browser!SharedInv,
         \/ Browser!CloseStep
         \/ \E b \in Browsers :
              Browser!LaunchEnds(b) \/ Browser!Crash(b) \/ Browser!Disconnected(b)
  PROVE  Browser!SharedInv'
<1>1. Browser!ManagerInv'
  BY LaunchEndsKeepsManager, CrashKeepsManager, DisconnectedKeepsManager,
     CloseGoesOnKeepsManager, CloseResolvesKeepsManager DEF Browser!SharedInv, Browser!CloseStep
<1>2. UNCHANGED <<phase, on, aborted, permits, waiting>>
  BY DEF Browser!CloseStep, Browser!CloseContexts, Browser!CloseAwaitsLaunch,
         Browser!CloseResolves, Browser!LaunchEnds, Browser!Launched,
         Browser!LaunchInvalidated, Browser!LaunchFails, Browser!Crash, Browser!Disconnected,
         Browser!renderVars, Browser!permitVars
<1> QED
  BY <1>1, <1>2, ElsewhereKeepsInv

LEMMA SameKeepsShared ==
  ASSUME Browser!SharedInv, UNCHANGED browserVars
  PROVE  Browser!SharedInv'
<1>1. Browser!ManagerInv'
  BY SameKeepsManager DEF browserVars, Browser!SharedInv
<1> QED
  BY <1>1, ElsewhereKeepsInv DEF browserVars

LEMMA NextKeepsSharedInv ==
  ASSUME Browser!SharedInv, Browser!Next
  PROVE  Browser!SharedInv'
<1>1. ASSUME NEW r \in Renders, Browser!Render(r) \/ Browser!Abort(r) PROVE Browser!SharedInv'
  BY <1>1, CallKeepsInv
<1>2. ASSUME NEW r \in Renders, Browser!RenderStep(r) PROVE Browser!SharedInv'
  BY <1>2, RenderStepKeepsInv
<1>3. ASSUME NEW b \in Browsers,
             Browser!LaunchEnds(b) \/ Browser!Crash(b) \/ Browser!Disconnected(b)
      PROVE  Browser!SharedInv'
  BY <1>3, ManagerStepKeepsInv
<1>4. CASE Browser!Close
  BY <1>4, CallKeepsInv
<1>5. CASE Browser!CloseStep
  BY <1>5, ManagerStepKeepsInv
<1> QED
  BY <1>1, <1>2, <1>3, <1>4, <1>5 DEF Browser!Next

LEMMA InitHasSharedInv == Browser!Init => Browser!SharedInv
<1> SUFFICES ASSUME Browser!Init PROVE Browser!SharedInv
  OBVIOUS
<1>1. /\ phase = [r \in Renders |-> "new"] /\ permits = 0 /\ waiting = <<>>
      /\ on = [r \in Renders |-> None] /\ aborted = [r \in Renders |-> FALSE]
      /\ alive = {} /\ unseen = {}
      /\ launch = [b \in Browsers |-> "unused"] /\ launchGen = [b \in Browsers |-> 0]
      /\ browser = None /\ browserPromise = None /\ generation = 0
      /\ closing = Browser!NotClosing
  BY DEF Browser!Init
<1>2. Browser!PermitsInv
  <2>1. phase \in [Renders -> Browser!Phase] /\ \A r \in Renders : phase[r] = "new"
    BY <1>1 DEF Browser!Phase
  <2>2. Browser!Holding = {} /\ {r \in Renders : phase[r] = "queued"} = {}
    BY <2>1 DEF Browser!Holding
  <2>3. Cardinality(Browser!Holding) = 0
    BY <2>2, FS_EmptySet
  <2>4. waiting \in Seq(Renders) /\ Len(waiting) = 0
    BY <1>1, EmptySeq
  <2>5. Distinct(waiting) /\ Elements(waiting) = {}
    BY <2>4 DEF Distinct, Elements
  <2>6. permits <= Limit /\ Len(waiting) <= MaxWaiting
    <3>1. permits = 0 /\ Limit \in Nat /\ MaxWaiting \in Nat
      BY <1>1, HoldingFinite
    <3> QED
      BY <2>4, <3>1
  <2> QED
    BY <1>1, <2>1, <2>2, <2>3, <2>4, <2>5, <2>6, PermitsMeaning DEF Permits
<1>3. Browser!RendersInv
  <2>1. /\ on \in [Renders -> Browsers \cup {None}] /\ aborted \in [Renders -> BOOLEAN]
        /\ \A r \in Renders : phase[r] = "new"
    BY <1>1
  <2> QED
    BY <2>1 DEF Browser!RendersInv
<1>4. Browser!ManagerInv
  <2>1. /\ closing.step = "no" /\ closing.current = None /\ closing.launching = None
        /\ closing \in [step : {"no", "contexts", "launch", "browsers"},
                        current : Browsers \cup {None}, launching : Browsers \cup {None}]
    BY <1>1 DEF Browser!NotClosing
  <2>2. /\ launch \in [Browsers -> {"unused", "pending", "resolved", "rejected"}]
        /\ launchGen \in [Browsers -> Nat]
        /\ \A b \in Browsers : launch[b] = "unused"
    BY <1>1
  <2>3. Browser!LaunchInv
    BY <1>1, <2>1, <2>2 DEF Browser!LaunchInv, Browser!RefersTo
  <2>4. Browser!ClosingInv
    BY <1>1, <2>1 DEF Browser!ClosingInv, Browser!Closing
  <2>5. Browser!OneUp /\ Browser!NoOrphan
    BY <1>1, <2>2 DEF Browser!OneUp, Browser!Up, Browser!NoOrphan
  <2> QED
    BY <1>1, <2>3, <2>4, <2>5 DEF Browser!ManagerInv
<1> QED
  BY <1>2, <1>3, <1>4 DEF Browser!SharedInv

LEMMA SharedInvSound ==
  ASSUME Browser!SharedInv
  PROVE  BrowserIsShared
<1>1. Browser!OneBrowser
  <2>1. \A S : Browser!Cardinality(S) = Cardinality(S)
    BY DEF Cardinality, Browser!Cardinality
  <2>2. Cardinality(Browser!Up) <= 1
    BY AtMostOne DEF Browser!SharedInv, Browser!ManagerInv, Browser!OneUp
  <2> QED
    BY <2>1, <2>2 DEF Browser!OneBrowser
<1>2. permits \in Nat
  BY PermitsMeaning, HoldingFinite, FS_CardinalityType DEF Browser!SharedInv, Permits
<1>3. Browser!TypeOK
  BY <1>2 DEF Browser!TypeOK, Browser!SharedInv, Browser!PermitsInv, Browser!RendersInv,
              Browser!ManagerInv, Browser!LaunchInv, Browser!ClosingInv
<1> QED
  BY <1>1, <1>3 DEF BrowserIsShared, Browser!BrowserIsShared, Browser!SharedInv,
                    Browser!PermitsInv, Browser!ManagerInv

LEMMA SharedInvHolds == PoolsSpec => []Browser!SharedInv
<1>1. PoolsInit => Browser!SharedInv
  BY InitHasSharedInv DEF PoolsInit
<1>2. Browser!SharedInv /\ [Extracting(Next) \/ Rendering(Browser!Next)]_poolsVars
        => Browser!SharedInv'
  BY NextKeepsSharedInv, SameKeepsShared DEF Extracting, Rendering, poolsVars
<1> QED
  BY <1>1, <1>2, PTL DEF PoolsSpec

\* With any number of renders, launches, permits and places to wait, and however
\* launches, crashes, aborts and close() interleave: no permit is lost or made up,
\* there are never two browsers, and none is forgotten.
THEOREM BrowserAlwaysShared == PoolsSpec => []BrowserIsShared
<1>1. Browser!SharedInv => BrowserIsShared
  BY SharedInvSound
<1> QED
  BY <1>1, SharedInvHolds, PTL

\* When close() resolves no browser is left.
THEOREM NoBrowserEverLeft == PoolsSpec => NoBrowserLeft
<1>1. Browser!SharedInv /\ [Extracting(Next) \/ Rendering(Browser!Next)]_poolsVars
        => [(Browser!Closing /\ ~Browser!Closing') => alive' = {}]_(Browser!vars)
  <2> SUFFICES ASSUME Browser!SharedInv, [Extracting(Next) \/ Rendering(Browser!Next)]_poolsVars,
                      Browser!Closing, ~Browser!Closing'
               PROVE  alive' = {}
    OBVIOUS
  <2>1. closing' # closing
    BY DEF Browser!Closing
  <2>2. Browser!Next
    BY <2>1 DEF Extracting, Rendering, poolsVars, browserVars
  <2>3. Browser!CloseResolves
    <3>1. ~Browser!Close
      BY DEF Browser!Close
    <3>2. ~Browser!CloseContexts /\ ~Browser!CloseAwaitsLaunch
      BY DEF Browser!CloseContexts, Browser!CloseAwaitsLaunch, Browser!Closing,
             Browser!SharedInv, Browser!ManagerInv, Browser!ClosingInv
    <3>3. \A r \in Renders : ~Browser!Render(r) /\ ~Browser!Abort(r) /\ ~Browser!RenderStep(r)
      BY <2>1 DEF Browser!Render, Browser!Abort, Browser!RenderStep, Browser!GetBrowser,
             Browser!LaunchAwaited, Browser!OpenContext, Browser!ContextOpened,
             Browser!PageEnds, Browser!ContextClosed
    <3>4. \A b \in Browsers :
            ~Browser!LaunchEnds(b) /\ ~Browser!Crash(b) /\ ~Browser!Disconnected(b)
      BY <2>1 DEF Browser!LaunchEnds, Browser!Launched, Browser!LaunchInvalidated,
             Browser!LaunchFails, Browser!Crash, Browser!Disconnected
    <3> QED
      BY <2>2, <3>1, <3>2, <3>3, <3>4 DEF Browser!Next, Browser!CloseStep
  <2> QED
    BY <2>3, CloseResolvesKeepsManager DEF Browser!SharedInv
<1> QED
  BY <1>1, SharedInvHolds, PTL DEF PoolsSpec, NoBrowserLeft, Browser!NoBrowserLeft
=============================================================================
