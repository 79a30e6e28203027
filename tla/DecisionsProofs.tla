--------------------------- MODULE DecisionsProofs ---------------------------
(***************************************************************************)
(* The policy task runs nothing that the model did not ask for, and an     *)
(* answer that keeps the output contract comes out as it went in, for any  *)
(* answers: any texts, URLs and strings in any actions, in any number of   *)
(* containers. First what the helpers on sequences give, then each of the  *)
(* three parsers.                                                          *)
(***************************************************************************)
EXTENDS MCDecisions, SequenceTheorems, WellFoundedInduction, TLAPS

-----------------------------------------------------------------------------
(* Recursion over the natural numbers *)

\* A set of natural numbers that is not empty has a least element.
LEMMA Least ==
  ASSUME NEW T \in SUBSET Nat, T # {}
  PROVE  \E m \in T : \A k \in T : m <= k
<1>1. PICK m \in T : \A k \in T : <<k, m>> \notin OpToRel(<, Nat)
  BY NatLessThanWellFounded, WFMin
<1>2. \A ss \in Nat \X Nat : (ss[1] < ss[2]) => ss \in OpToRel(<, Nat)
  BY Zenon DEF OpToRel
<1>3. ASSUME NEW k \in T PROVE m <= k
  <2>1. k \in Nat /\ m \in Nat /\ <<k, m>> \in Nat \X Nat
    OBVIOUS
  <2>2. ~(k < m)
    BY <1>1, <1>2, <2>1
  <2> QED
    BY <2>1, <2>2
<1> QED
  BY <1>3

\* A set that has 0 and with a number the next has all up to N.
LEMMA UpTo ==
  ASSUME NEW N \in Nat, NEW T, 0 \in T,
         \A n \in 1..N : n - 1 \in T => n \in T
  PROVE  0..N \subseteq T
<1> DEFINE Missing == {n \in 0..N : n \notin T}
<1>1. ASSUME Missing # {} PROVE FALSE
  <2>1. PICK m \in Missing : \A k \in Missing : m <= k
    <3>1. Missing \in SUBSET Nat
      OBVIOUS
    <3> HIDE DEF Missing
    <3> QED
      BY <1>1, <3>1, Least
  <2>2. m \in 0..N /\ m \notin T /\ m # 0
    BY <2>1
  <2>3. m \in 1..N /\ m - 1 \in 0..N /\ ~(m <= m - 1)
    BY <2>2
  <2>4. m - 1 \in T
    BY <2>1, <2>3
  <2> QED
    BY <2>2, <2>3, <2>4
<1> QED
  BY <1>1

\* f begins with start and goes on by steps.
Recursive(f, V, start, N, step) ==
  /\ f \in [0..N -> V]
  /\ f[0] = start
  /\ \A n \in 1..N : f[n] = step[n][f[n - 1]]

\* A recursive function over 0..N exists.
LEMMA RecursionExists ==
  ASSUME NEW V, NEW start \in V, NEW N \in Nat, NEW step \in [1..N -> [V -> V]]
  PROVE  \E f : Recursive(f, V, start, N, step)
<1> DEFINE Has(k) == \E f \in [0..k -> V] :
                       f[0] = start /\ \A n \in 1..k : f[n] = step[n][f[n - 1]]
           T == {k \in 0..N : Has(k)}
<1>1. 0 \in T
  <2> DEFINE f == [n \in 0..0 |-> start]
  <2>1. f \in [0..0 -> V] /\ f[0] = start /\ \A n \in 1..0 : f[n] = step[n][f[n - 1]]
    OBVIOUS
  <2> HIDE DEF f
  <2>2. Has(0)
    BY <2>1
  <2> QED
    BY <2>2
<1>2. ASSUME NEW k \in 1..N, k - 1 \in T PROVE k \in T
  <2>1. PICK f \in [0..(k - 1) -> V] :
          f[0] = start /\ \A n \in 1..(k - 1) : f[n] = step[n][f[n - 1]]
    BY <1>2
  <2> DEFINE last == step[k][f[k - 1]]
             g == [n \in 0..k |-> IF n = k THEN last ELSE f[n]]
  <2>2. last \in V
    <3>1. k - 1 \in 0..(k - 1) /\ step[k] \in [V -> V]
      OBVIOUS
    <3>2. f[k - 1] \in V
      BY <2>1, <3>1
    <3> QED
      BY <3>1, <3>2
  <2> HIDE DEF last
  <2>3. \A n \in 0..k : n # k => n \in 0..(k - 1)
    OBVIOUS
  <2>4. g \in [0..k -> V]
    BY <2>1, <2>2, <2>3
  <2>5. g[0] = start
    BY <2>1, <2>3
  <2>6. ASSUME NEW n \in 1..k PROVE g[n] = step[n][g[n - 1]]
    <3>1. n \in 0..k /\ n - 1 \in 0..k /\ n - 1 # k /\ g[n - 1] = f[n - 1]
      OBVIOUS
    <3>2. CASE n = k
      BY <3>1, <3>2 DEF last
    <3>3. CASE n # k
      <4>1. n \in 1..(k - 1) /\ g[n] = f[n]
        BY <3>3
      <4> QED
        BY <2>1, <3>1, <4>1
    <3> QED
      BY <3>2, <3>3
  <2> HIDE DEF g
  <2>7. Has(k)
    BY <2>4, <2>5, <2>6
  <2> QED
    BY <2>7
<1>3. N \in T
  <2> HIDE DEF T
  <2>1. 0..N \subseteq T
    BY <1>1, <1>2, UpTo
  <2> QED
    BY <2>1
<1> QED
  BY <1>3 DEF Recursive

-----------------------------------------------------------------------------
(* What the helpers on sequences give *)

\* taken collects a field of the wanted items.
Takes(items, wanted, field, taken) ==
  taken = [n \in 0..Len(items) |->
             IF n = 0 THEN <<>>
             ELSE IF items[n] \in wanted THEN Append(taken[n - 1], items[n][field])
             ELSE taken[n - 1]]

LEMMA FieldOfTakes ==
  ASSUME NEW R, NEW items \in Seq(R), NEW wanted, NEW field
  PROVE  \E taken : /\ Takes(items, wanted, field, taken)
                    /\ Parser!FieldOf(items, wanted, field) = taken[Len(items)]
<1> DEFINE N == Len(items)
           V == {items[i][field] : i \in 1..N}
           All == Seq(V)
           step == [n \in 1..N |-> [before \in All |->
                      IF items[n] \in wanted THEN Append(before, items[n][field])
                      ELSE before]]
<1>1. N \in Nat /\ <<>> \in All
  OBVIOUS
<1>2. step \in [1..N -> [All -> All]]
  <2>1. ASSUME NEW n \in 1..N, NEW before \in All
        PROVE  Append(before, items[n][field]) \in All
    <3>1. items[n][field] \in V
      OBVIOUS
    <3> HIDE DEF V
    <3> QED
      BY <3>1
  <2> HIDE DEF All, N
  <2> QED
    BY <2>1
<1>3. PICK f \in [0..N -> All] : f[0] = <<>> /\ \A n \in 1..N : f[n] = step[n][f[n - 1]]
  <2> DEFINE start == <<>>
  <2>1. start \in All
    BY <1>1
  <2> HIDE DEF step, All, N, start
  <2>2. \E f : Recursive(f, All, start, N, step)
    BY <1>1, <1>2, <2>1, RecursionExists
  <2> QED
    BY <2>2 DEF Recursive, start
<1>4. Takes(items, wanted, field, f)
  <2>1. ASSUME NEW n \in 0..N
        PROVE  f[n] = IF n = 0 THEN <<>>
                      ELSE IF items[n] \in wanted THEN Append(f[n - 1], items[n][field])
                      ELSE f[n - 1]
    <3>1. CASE n = 0
      BY <1>3, <3>1
    <3>2. CASE n # 0
      <4>1. n \in 1..N /\ n - 1 \in 0..N
        BY <1>1, <3>2
      <4>2. f[n - 1] \in All
        BY <1>3, <4>1
      <4>3. step[n][f[n - 1]] =
              IF items[n] \in wanted THEN Append(f[n - 1], items[n][field]) ELSE f[n - 1]
        <5> HIDE DEF All, N
        <5> QED
          BY <4>1, <4>2
      <4> HIDE DEF step, All, N
      <4> QED
        BY <1>3, <3>2, <4>1, <4>3
    <3> QED
      BY <3>1, <3>2
  <2> HIDE DEF All
  <2> QED
    BY <1>3, <2>1 DEF Takes
<1> DEFINE taken == CHOOSE t : Takes(items, wanted, field, t)
<1>5. Takes(items, wanted, field, taken)
  <2> HIDE DEF step, All, V, N
  <2> QED
    BY <1>4
<1>6. Parser!FieldOf(items, wanted, field) = taken[Len(items)]
  BY DEF Parser!FieldOf, Takes
<1> HIDE DEF taken
<1> QED
  BY <1>5, <1>6

\* What is taken is a field of a wanted item.
LEMMA FieldOfIsField ==
  ASSUME NEW R, NEW items \in Seq(R), NEW wanted, NEW field, NEW V,
         \A i \in 1..Len(items) : items[i] \in wanted => items[i][field] \in V
  PROVE  Parser!FieldOf(items, wanted, field) \in Seq(V)
<1>1. PICK taken : /\ Takes(items, wanted, field, taken)
                   /\ Parser!FieldOf(items, wanted, field) = taken[Len(items)]
  BY FieldOfTakes
<1> DEFINE N == Len(items)
           T == {n \in 0..N : taken[n] \in Seq(V)}
<1>0. N \in Nat
  OBVIOUS
<1>2. \A n \in 0..N : taken[n] = IF n = 0 THEN <<>>
                      ELSE IF items[n] \in wanted THEN Append(taken[n - 1], items[n][field])
                      ELSE taken[n - 1]
  BY <1>1, Zenon DEF Takes
<1>3. 0 \in T
  <2>1. taken[0] = <<>>
    BY <1>0, <1>2
  <2>2. taken[0] \in Seq(V)
    <3>1. <<>> \in Seq(V)
      OBVIOUS
    <3> QED
      BY <2>1, <3>1
  <2>3. 0 \in 0..N
    BY <1>0
  <2> QED
    BY <2>2, <2>3
<1>4. ASSUME NEW n \in 1..N, n - 1 \in T PROVE n \in T
  <2>1. taken[n - 1] \in Seq(V) /\ n \in 0..N /\ n # 0
    BY <1>0, <1>4
  <2>2. /\ items[n] \in wanted => taken[n] = Append(taken[n - 1], items[n][field])
        /\ items[n] \notin wanted => taken[n] = taken[n - 1]
    BY <1>2, <2>1, Zenon
  <2>3. items[n] \in wanted => Append(taken[n - 1], items[n][field]) \in Seq(V)
    BY <2>1
  <2> QED
    BY <2>1, <2>2, <2>3
<1>5. N \in T
  <2> HIDE DEF T, N
  <2>1. 0..N \subseteq T
    BY <1>0, <1>3, <1>4, UpTo
  <2> QED
    BY <1>0, <2>1
<1> QED
  BY <1>1, <1>5

\* When all are wanted, it is the field of each.
LEMMA FieldOfAll ==
  ASSUME NEW R, NEW items \in Seq(R), NEW wanted, NEW field,
         \A i \in 1..Len(items) : items[i] \in wanted
  PROVE  Parser!FieldOf(items, wanted, field) = [i \in 1..Len(items) |-> items[i][field]]
<1>1. PICK taken : /\ Takes(items, wanted, field, taken)
                   /\ Parser!FieldOf(items, wanted, field) = taken[Len(items)]
  BY FieldOfTakes
<1> DEFINE N == Len(items)
           V == {items[i][field] : i \in 1..N}
           T == {n \in 0..N : taken[n] = [i \in 1..n |-> items[i][field]]}
<1>0. N \in Nat
  OBVIOUS
<1>2. \A n \in 0..N : taken[n] = IF n = 0 THEN <<>>
                      ELSE IF items[n] \in wanted THEN Append(taken[n - 1], items[n][field])
                      ELSE taken[n - 1]
  BY <1>1, Zenon DEF Takes
<1>3. 0 \in T
  <2>1. taken[0] = <<>>
    BY <1>0, <1>2
  <2>2. [i \in 1..0 |-> items[i][field]] = <<>>
    OBVIOUS
  <2> QED
    BY <1>0, <2>1, <2>2
<1>4. ASSUME NEW n \in 1..N, n - 1 \in T PROVE n \in T
  <2> DEFINE before == [i \in 1..(n - 1) |-> items[i][field]]
  <2>1. taken[n - 1] = before /\ n \in 0..N /\ n # 0 /\ items[n] \in wanted
    BY <1>0, <1>4
  <2>2. taken[n] = Append(before, items[n][field])
    BY <1>2, <2>1, Zenon
  <2>3. before \in Seq(V) /\ Len(before) = n - 1 /\ items[n][field] \in V
    <3>1. n - 1 \in Nat /\ \A i \in 1..(n - 1) : i \in 1..N
      OBVIOUS
    <3>2. \A i \in 1..(n - 1) : items[i][field] \in V
      BY <3>1
    <3>3. items[n][field] \in V
      OBVIOUS
    <3> HIDE DEF V
    <3> QED
      BY <3>1, <3>2, <3>3
  <2>4. Append(before, items[n][field]) = [i \in 1..n |-> items[i][field]]
    <3>1. \A i \in 1..n : i # n => i \in 1..(n - 1)
      OBVIOUS
    <3>2. \A i \in 1..(n - 1) : before[i] = items[i][field]
      OBVIOUS
    <3> HIDE DEF before, V
    <3> QED
      BY <2>3, <3>1, <3>2
  <2> QED
    BY <2>1, <2>2, <2>4
<1>5. N \in T
  <2> HIDE DEF T, N
  <2>1. 0..N \subseteq T
    BY <1>0, <1>3, <1>4, UpTo
  <2> QED
    BY <1>0, <2>1
<1> QED
  BY <1>1, <1>5

\* deduped collects the first of each value.
Dedupes(s, deduped) ==
  deduped = [n \in 0..Len(s) |->
               IF n = 0 THEN <<>>
               ELSE IF s[n] \in Parser!ToSet(deduped[n - 1]) THEN deduped[n - 1]
               ELSE Append(deduped[n - 1], s[n])]

LEMMA DistinctDedupes ==
  ASSUME NEW V, NEW s \in Seq(V)
  PROVE  \E deduped : Dedupes(s, deduped) /\ Parser!Distinct(s) = deduped[Len(s)]
<1> DEFINE N == Len(s)
           All == Seq(V)
           step == [n \in 1..N |-> [before \in All |->
                      IF s[n] \in Parser!ToSet(before) THEN before
                      ELSE Append(before, s[n])]]
<1>1. N \in Nat /\ <<>> \in All
  OBVIOUS
<1>2. step \in [1..N -> [All -> All]]
  <2>1. ASSUME NEW n \in 1..N, NEW before \in All PROVE Append(before, s[n]) \in All
    OBVIOUS
  <2> HIDE DEF All, N
  <2> QED
    BY <2>1
<1>3. PICK f \in [0..N -> All] : f[0] = <<>> /\ \A n \in 1..N : f[n] = step[n][f[n - 1]]
  <2> DEFINE start == <<>>
  <2>1. start \in All
    BY <1>1
  <2> HIDE DEF step, All, N, start
  <2>2. \E f : Recursive(f, All, start, N, step)
    BY <1>1, <1>2, <2>1, RecursionExists
  <2> QED
    BY <2>2 DEF Recursive, start
<1>4. Dedupes(s, f)
  <2>1. ASSUME NEW n \in 0..N
        PROVE  f[n] = IF n = 0 THEN <<>>
                      ELSE IF s[n] \in Parser!ToSet(f[n - 1]) THEN f[n - 1]
                      ELSE Append(f[n - 1], s[n])
    <3>1. CASE n = 0
      BY <1>3, <3>1
    <3>2. CASE n # 0
      <4>1. n \in 1..N /\ n - 1 \in 0..N
        BY <1>1, <3>2
      <4>2. f[n - 1] \in All
        BY <1>3, <4>1
      <4>3. step[n][f[n - 1]] =
              IF s[n] \in Parser!ToSet(f[n - 1]) THEN f[n - 1] ELSE Append(f[n - 1], s[n])
        <5> HIDE DEF All, N
        <5> QED
          BY <4>1, <4>2
      <4> HIDE DEF step, All, N
      <4> QED
        BY <1>3, <3>2, <4>1, <4>3
    <3> QED
      BY <3>1, <3>2
  <2> HIDE DEF All
  <2> QED
    BY <1>3, <2>1 DEF Dedupes
<1> DEFINE deduped == CHOOSE t : Dedupes(s, t)
<1>5. Dedupes(s, deduped)
  <2> HIDE DEF step, All, N
  <2> QED
    BY <1>4
<1>6. Parser!Distinct(s) = deduped[Len(s)]
  BY DEF Parser!Distinct, Dedupes
<1> HIDE DEF deduped
<1> QED
  BY <1>5, <1>6

\* What is left without duplicates was there.
LEMMA DistinctIsThere ==
  ASSUME NEW V, NEW s \in Seq(V)
  PROVE  Parser!Distinct(s) \in Seq(V)
<1>1. PICK deduped : Dedupes(s, deduped) /\ Parser!Distinct(s) = deduped[Len(s)]
  BY DistinctDedupes
<1> DEFINE N == Len(s)
           T == {n \in 0..N : deduped[n] \in Seq(V)}
<1>0. N \in Nat
  OBVIOUS
<1>2. \A n \in 0..N : deduped[n] = IF n = 0 THEN <<>>
                      ELSE IF s[n] \in Parser!ToSet(deduped[n - 1]) THEN deduped[n - 1]
                      ELSE Append(deduped[n - 1], s[n])
  BY <1>1, Zenon DEF Dedupes
<1>3. 0 \in T
  <2>1. deduped[0] = <<>>
    BY <1>0, <1>2
  <2>2. deduped[0] \in Seq(V)
    <3>1. <<>> \in Seq(V)
      OBVIOUS
    <3> QED
      BY <2>1, <3>1
  <2>3. 0 \in 0..N
    BY <1>0
  <2> QED
    BY <2>2, <2>3
<1>4. ASSUME NEW n \in 1..N, n - 1 \in T PROVE n \in T
  <2>1. deduped[n - 1] \in Seq(V) /\ n \in 0..N /\ n # 0
    BY <1>0, <1>4
  <2>2. deduped[n] \in {deduped[n - 1], Append(deduped[n - 1], s[n])}
    BY <1>2, <2>1, Zenon
  <2>3. Append(deduped[n - 1], s[n]) \in Seq(V)
    BY <2>1
  <2> QED
    BY <2>1, <2>2, <2>3
<1>5. N \in T
  <2> HIDE DEF T, N
  <2>1. 0..N \subseteq T
    BY <1>0, <1>3, <1>4, UpTo
  <2> QED
    BY <1>0, <2>1
<1> QED
  BY <1>1, <1>5

-----------------------------------------------------------------------------
(* Answers *)

\* What stands in a container of an answer.
ArrayType == [array : BOOLEAN, present : BOOLEAN, items : Seq(Parser!ActionItem)]

LEMMA ArraysTyped ==
  ASSUME NEW c \in Parser!Containers, NEW actions \in ArraysOf(c)
  PROVE  /\ actions \in ArrayType
         /\ actions.present
         /\ ~actions.array => actions.items = <<>>
<1>0. c \in Containers
  BY DEF Containers, Parser!Containers
<1>1. actions = NotArray \/ (actions = Array(actions.items) /\ actions.items \in Seq(ActionItem))
  BY <1>0, AnswersAssumption
<1>2. Seq(ActionItem) = Seq(Parser!ActionItem)
  BY DEF ActionItem, Parser!ActionItem
<1> DEFINE Items == Seq(Parser!ActionItem)
<1>3. <<>> \in Items
  OBVIOUS
<1> HIDE DEF Items
<1>4. CASE actions = NotArray
  BY <1>3, <1>4 DEF ArrayType, NotArray, Items
<1>5. CASE actions = Array(actions.items) /\ actions.items \in Items
  <2>1. PICK items \in Items : actions = Array(items)
    BY <1>5
  <2> QED
    BY <2>1 DEF ArrayType, Array, Items
<1> QED
  BY <1>1, <1>2, <1>4, <1>5 DEF Items

LEMMA AnswersTyped ==
  ASSUME NEW x \in Parser!Answers, NEW c \in Parser!Containers
  PROVE  /\ x.actions[c] \in ArrayType
         /\ Parser!ItemsOf(x, c) \in Seq(Parser!ActionItem)
         /\ ~x.actions[c].present => Parser!ItemsOf(x, c) = <<>>
<1>1. x.actions \in Parser!Fillings
  BY DEF Parser!Answers
<1>2. x.actions[c] = Parser!Absent \/ x.actions[c] \in ArraysOf(c)
  <2>1. PICK chosen, f : x.actions = [d \in Parser!Containers |->
                           IF d \in chosen THEN f[d] ELSE Parser!Absent]
                         /\ \A d \in chosen : f[d] \in ArraysOf(d)
    BY <1>1 DEF Parser!Fillings
  <2> QED
    BY <2>1
<1>3. <<>> \in Seq(Parser!ActionItem)
  OBVIOUS
<1>4. CASE x.actions[c] = Parser!Absent
  BY <1>3, <1>4 DEF Parser!Absent, Parser!ItemsOf, ArrayType
<1>5. CASE x.actions[c] \in ArraysOf(c)
  <2>1. x.actions[c] \in ArrayType /\ x.actions[c].present
    BY <1>5, ArraysTyped
  <2> QED
    BY <2>1 DEF Parser!ItemsOf, ArrayType
<1> QED
  BY <1>2, <1>4, <1>5

\* The queries an answer asks for, and the URLs.
Queried(x) ==
  {query \in SearchTexts \cup {None} :
     \E c \in Parser!Containers : \E item \in Parser!ToSet(Parser!ItemsOf(x, c)) :
       /\ item.query = query
       /\ Parser!Says(item) = "search" \/ c \in {"requiredSearches", "searchActions"}}

Linked(x) ==
  {url \in Links \cup {BadLink} :
     \E c \in Parser!Containers : \E item \in Parser!ToSet(Parser!ItemsOf(x, c)) :
       /\ item.url = url
       /\ Parser!Says(item) = "fetch" \/ (c = "fetchActions" /\ item.action = None)}

LEMMA SearchesAsked ==
  ASSUME NEW x \in Parser!Answers, NEW c \in Parser!Containers
  PROVE  Parser!SearchesOf(x, c) \in Seq(Queried(x))
<1> DEFINE items == Parser!ItemsOf(x, c)
           wanted == Parser!Saying("search", items) \cap Parser!WithQuery(items)
<1>1. items \in Seq(Parser!ActionItem)
  BY AnswersTyped
<1>2. ASSUME NEW i \in 1..Len(items), items[i] \in wanted
      PROVE  items[i]["query"] \in Queried(x)
  <2>1. items[i] \in Parser!ActionItem /\ items[i] \in Parser!ToSet(items)
    BY <1>1, <1>2 DEF Parser!ToSet
  <2>2. Parser!Says(items[i]) = "search"
    BY <1>2 DEF Parser!Saying
  <2>3. items[i].query \in SearchTexts \cup {None}
    BY <2>1 DEF Parser!ActionItem
  <2> QED
    BY <2>1, <2>2, <2>3 DEF Queried
<1> HIDE DEF items, wanted
<1>3. Parser!FieldOf(items, wanted, "query") \in Seq(Queried(x))
  BY <1>1, <1>2, FieldOfIsField
<1> QED
  BY <1>3 DEF Parser!SearchesOf, Parser!SearchesIn, items, wanted

LEMMA RequiredAsked ==
  ASSUME NEW x \in Parser!Answers
  PROVE  Parser!Required(x) \in Seq(Queried(x))
<1> DEFINE items == Parser!ItemsOf(x, "requiredSearches")
           wanted == Parser!WithQuery(items)
<1>0. "requiredSearches" \in Parser!Containers
  BY DEF Parser!Containers
<1>1. items \in Seq(Parser!ActionItem)
  BY <1>0, AnswersTyped
<1>2. ASSUME NEW i \in 1..Len(items), items[i] \in wanted
      PROVE  items[i]["query"] \in Queried(x)
  <2>1. items[i] \in Parser!ActionItem /\ items[i] \in Parser!ToSet(items)
    BY <1>1, <1>2 DEF Parser!ToSet
  <2>2. items[i].query \in SearchTexts \cup {None}
    BY <2>1 DEF Parser!ActionItem
  <2> QED
    BY <1>0, <2>1, <2>2 DEF Queried
<1> HIDE DEF items, wanted
<1>3. Parser!FieldOf(items, wanted, "query") \in Seq(Queried(x))
  BY <1>1, <1>2, FieldOfIsField
<1> QED
  BY <1>3 DEF Parser!Required, items, wanted

\* What searchActions lists is searched as it stands by the strict parser, and by
\* the legacy normalisation when the answer has a decision.
LEMMA OwnAsked ==
  ASSUME NEW x \in Parser!Answers
  PROVE  LET own == Parser!ItemsOf(x, "searchActions")
         IN [i \in DOMAIN own |-> own[i].query] \in Seq(Queried(x))
<1> DEFINE own == Parser!ItemsOf(x, "searchActions")
<1>0. "searchActions" \in Parser!Containers
  BY DEF Parser!Containers
<1>1. own \in Seq(Parser!ActionItem)
  BY <1>0, AnswersTyped
<1>2. ASSUME NEW i \in DOMAIN own PROVE own[i].query \in Queried(x)
  <2>1. own[i] \in Parser!ActionItem /\ own[i] \in Parser!ToSet(own)
    BY <1>1 DEF Parser!ToSet
  <2>2. own[i].query \in SearchTexts \cup {None}
    BY <2>1 DEF Parser!ActionItem
  <2> QED
    BY <1>0, <2>1, <2>2 DEF Queried
<1>3. DOMAIN own = 1..Len(own) /\ Len(own) \in Nat
  BY <1>1
<1> HIDE DEF own
<1>4. [i \in DOMAIN own |-> own[i].query] \in Seq(Queried(x))
  BY <1>2, <1>3
<1> QED
  BY <1>4 DEF own

LEMMA CombinedAsked ==
  ASSUME NEW x \in Parser!Answers
  PROVE  Parser!Combined(x) \in Seq(Queried(x))
<1>1. \A c \in {"recommendedNextActions", "nextActions", "radarActions", "searchActions"} :
        Parser!SearchesOf(x, c) \in Seq(Queried(x))
  BY SearchesAsked DEF Parser!Containers
<1>2. Parser!Required(x) \in Seq(Queried(x))
  BY RequiredAsked
<1> DEFINE A1 == Parser!SearchesOf(x, "recommendedNextActions")
           A2 == Parser!SearchesOf(x, "nextActions")
           A3 == Parser!SearchesOf(x, "radarActions")
           A4 == Parser!SearchesOf(x, "searchActions")
           A0 == Parser!Required(x)
<1>3. \A n \in {A0, A1, A2, A3, A4} : n \in Seq(Queried(x))
  BY <1>1, <1>2
<1> HIDE DEF A0, A1, A2, A3, A4
<1>4. A0 \o A1 \o A2 \o A3 \o A4 \in Seq(Queried(x))
  BY <1>3, ConcatProperties
<1> QED
  BY <1>4 DEF Parser!Combined, A0, A1, A2, A3, A4

\* The fetches of a container, as they stand or with their type overwritten.
LEMMA FetchesAsked ==
  ASSUME NEW x \in Parser!Answers, NEW c \in Parser!Containers
  PROVE  Parser!FetchesOf(x, c) \in Seq(Linked(x))
<1> DEFINE items == Parser!ItemsOf(x, c)
           wanted == Parser!Saying("fetch", items) \cap Parser!WithUrl(items)
<1>1. items \in Seq(Parser!ActionItem)
  BY AnswersTyped
<1>2. ASSUME NEW i \in 1..Len(items), items[i] \in wanted
      PROVE  items[i]["url"] \in Linked(x)
  <2>1. items[i] \in Parser!ActionItem /\ items[i] \in Parser!ToSet(items)
    BY <1>1, <1>2 DEF Parser!ToSet
  <2>2. Parser!Says(items[i]) = "fetch" /\ items[i].url # None
    BY <1>2 DEF Parser!Saying, Parser!WithUrl
  <2>3. items[i].url \in Links \cup {BadLink}
    BY <2>1, <2>2 DEF Parser!ActionItem
  <2> QED
    BY <2>1, <2>2, <2>3 DEF Linked
<1> HIDE DEF items, wanted
<1>3. Parser!FieldOf(items, wanted, "url") \in Seq(Linked(x))
  BY <1>1, <1>2, FieldOfIsField
<1> QED
  BY <1>3 DEF Parser!FetchesOf, Parser!FetchesIn, items, wanted

LEMMA TypedFetchesAsked ==
  ASSUME NEW x \in Parser!Answers
  PROVE  Parser!TypedFetches(Parser!ItemsOf(x, "fetchActions")) \in Seq(Linked(x))
<1> DEFINE items == Parser!ItemsOf(x, "fetchActions")
           typed == [i \in DOMAIN items |-> [items[i] EXCEPT !.type = "fetch"]]
           wanted == Parser!Saying("fetch", typed) \cap Parser!WithUrl(typed)
<1>0. "fetchActions" \in Parser!Containers
  BY DEF Parser!Containers
<1>1. items \in Seq(Parser!ActionItem)
  BY <1>0, AnswersTyped
<1> DEFINE Typed == {[item EXCEPT !.type = "fetch"] : item \in Parser!ActionItem}
<1>2. /\ typed \in Seq(Typed)
      /\ DOMAIN items = 1..Len(items) /\ DOMAIN typed = 1..Len(items) /\ Len(typed) = Len(items)
  <2>1. ASSUME NEW i \in DOMAIN items PROVE [items[i] EXCEPT !.type = "fetch"] \in Typed
    <3>1. items[i] \in Parser!ActionItem
      BY <1>1
    <3> HIDE DEF items
    <3> QED
      BY <3>1
  <2>2. DOMAIN items = 1..Len(items) /\ Len(items) \in Nat
    BY <1>1
  <2> HIDE DEF items, Typed
  <2> QED
    BY <2>1, <2>2
<1>3. ASSUME NEW i \in 1..Len(typed), typed[i] \in wanted
      PROVE  typed[i]["url"] \in Linked(x)
  <2>1. items[i] \in Parser!ActionItem /\ items[i] \in Parser!ToSet(items)
    BY <1>1, <1>2, <1>3 DEF Parser!ToSet
  <2>2. typed[i] = [items[i] EXCEPT !.type = "fetch"]
    BY <1>2, <1>3
  <2>3. Parser!Says(typed[i]) = "fetch" /\ typed[i].url # None
    BY <1>3 DEF Parser!Saying, Parser!WithUrl
  <2>4. /\ typed[i].url = items[i].url
        /\ items[i].action # None => Parser!Says(items[i]) = Parser!Says(typed[i])
    BY <2>1, <2>2 DEF Parser!Says, Parser!ActionItem
  <2>5. items[i].url \in Links \cup {BadLink}
    BY <2>1, <2>3, <2>4 DEF Parser!ActionItem
  <2> QED
    BY <1>0, <2>1, <2>3, <2>4, <2>5 DEF Linked
<1> HIDE DEF typed, wanted, Typed
<1>4. Parser!FieldOf(typed, wanted, "url") \in Seq(Linked(x))
  BY <1>2, <1>3, FieldOfIsField
<1> QED
  BY <1>4 DEF Parser!TypedFetches, Parser!FetchesIn, typed, wanted

-----------------------------------------------------------------------------
(* The three parsers *)

\* What a parser may make of an answer.
Honest(x, d) == d.searches \in Seq(Queried(x)) /\ d.fetches \in Seq(Linked(x))

LEMMA DecisionHonest ==
  ASSUME NEW x, NEW what, NEW searches \in Seq(Queried(x)), NEW fetches \in Seq(Linked(x))
  PROVE  Honest(x, Parser!Decision(what, searches, fetches))
BY DEF Honest, Parser!Decision

LEMMA NothingIsHonest ==
  ASSUME NEW x
  PROVE  /\ <<>> \in Seq(Queried(x))
         /\ <<>> \in Seq(Linked(x))
         /\ Honest(x, Parser!Refused)
BY DEF Honest, Parser!Refused

LEMMA CompositeHonest ==
  ASSUME NEW x \in Parser!Answers
  PROVE  Honest(x, Parser!Composite(x))
<1> DEFINE C == Parser!Combined(x)
           C2 == Parser!SearchesOf(x, "combinedActions")
           searches == Parser!Distinct(C \o C2)
           F1 == Parser!FetchesOf(x, "fetchActions")
           F2 == Parser!FetchesOf(x, "nextActions")
           F3 == Parser!FetchesOf(x, "combinedActions")
           fetches == F1 \o F2 \o F3
<1>1. searches \in Seq(Queried(x))
  <2>1. C \in Seq(Queried(x)) /\ C2 \in Seq(Queried(x))
    BY CombinedAsked, SearchesAsked DEF Parser!Containers
  <2> HIDE DEF C, C2
  <2>2. C \o C2 \in Seq(Queried(x))
    BY <2>1, ConcatProperties
  <2> QED
    BY <2>2, DistinctIsThere
<1>2. fetches \in Seq(Linked(x))
  <2>1. F1 \in Seq(Linked(x)) /\ F2 \in Seq(Linked(x)) /\ F3 \in Seq(Linked(x))
    BY FetchesAsked DEF Parser!Containers
  <2> HIDE DEF F1, F2, F3
  <2> QED
    BY <2>1, ConcatProperties
<1>3. \/ Parser!Composite(x) = Parser!Decision("stop", <<>>, <<>>)
      \/ \E what : Parser!Composite(x) = Parser!Decision(what, searches, fetches)
  <2> DEFINE explicit == IF x.decision # None THEN x.decision ELSE x.status
             what == IF searches = <<>> \/ explicit \in {"continue_fetch", "search_and_fetch"}
                     THEN "continue_fetch" ELSE "continue_search"
  <2>1. Parser!Composite(x) = IF searches = <<>> /\ fetches = <<>>
                              THEN Parser!Decision("stop", <<>>, <<>>)
                              ELSE Parser!Decision(what, searches, fetches)
    BY DEF Parser!Composite
  <2> HIDE DEF searches, fetches, what
  <2> QED
    BY <2>1
<1> HIDE DEF searches, fetches
<1> QED
  BY <1>1, <1>2, <1>3, DecisionHonest, NothingIsHonest

LEMMA LegacyHonest ==
  ASSUME NEW x \in Parser!Answers
  PROVE  Honest(x, Parser!Legacy(x))
<1> DEFINE own == Parser!ItemsOf(x, "searchActions")
           queries == [i \in DOMAIN own |-> own[i].query]
           fetches == Parser!TypedFetches(Parser!ItemsOf(x, "fetchActions"))
<1>1. /\ queries \in Seq(Queried(x))
      /\ fetches \in Seq(Linked(x))
      /\ Parser!Combined(x) \in Seq(Queried(x))
  BY OwnAsked, TypedFetchesAsked, CombinedAsked
<1>2. \/ Parser!Legacy(x) = Parser!Decision("continue_search", Parser!Combined(x), <<>>)
      \/ Parser!Legacy(x) = Parser!Decision("stop", <<>>, <<>>)
      \/ \E what : Parser!Legacy(x) = Parser!Decision(what, queries, fetches)
  <2> HIDE DEF fetches, queries
  <2> QED
    BY Zenon DEF Parser!Legacy, fetches, queries
<1> HIDE DEF queries, fetches
<1> QED
  BY <1>1, <1>2, DecisionHonest, NothingIsHonest

LEMMA NormalizedHonest ==
  ASSUME NEW x \in Parser!Answers
  PROVE  Honest(x, Parser!Normalized(x))
<1>1. \/ Parser!Normalized(x) \in {Parser!Composite(x), Parser!Legacy(x)}
      \/ \E what : Parser!Normalized(x) = Parser!Decision(what, <<>>, <<>>)
  BY DEF Parser!Normalized
<1> QED
  BY <1>1, CompositeHonest, LegacyHonest, DecisionHonest, NothingIsHonest

\* The strict parser sees no fetchActions: their key sends an answer elsewhere.
LEMMA StrictHonest ==
  ASSUME NEW x \in Parser!Answers, ~Parser!IsLegacy(x)
  PROVE  Honest(x, Parser!Strict(x))
<1> DEFINE own == Parser!ItemsOf(x, "searchActions")
           queries == [i \in DOMAIN own |-> own[i].query]
           links == Parser!ItemsOf(x, "fetchActions")
           urls == [i \in DOMAIN links |-> links[i].url]
<1>1. queries \in Seq(Queried(x))
  BY OwnAsked
<1>2. urls = <<>>
  <2>1. "fetchActions" \in Parser!Containers \ {"searchActions"}
    BY DEF Parser!Containers
  <2>2. ~x.actions["fetchActions"].present
    BY <2>1 DEF Parser!IsLegacy
  <2>3. links = <<>>
    BY <2>1, <2>2, AnswersTyped
  <2> HIDE DEF links
  <2> QED
    BY <2>3
<1>3. \/ Parser!Strict(x) = Parser!Refused
      \/ Parser!Strict(x) = Parser!Decision(x.decision, queries, urls)
  BY Zenon DEF Parser!Strict
<1> HIDE DEF queries, urls
<1> QED
  BY <1>1, <1>2, <1>3, DecisionHonest, NothingIsHonest

-----------------------------------------------------------------------------
(* An answer that keeps the output contract *)

\* What the strict parser requires of an answer, and what it makes of it.
LEMMA StrictParses ==
  ASSUME NEW x \in Parser!Answers, Parser!Strict(x).ok
  PROVE  LET own == Parser!ItemsOf(x, "searchActions")
             links == Parser!ItemsOf(x, "fetchActions")
         IN /\ x.decision \in Parser!DECISIONS
            /\ \A i \in DOMAIN links : links[i].url \in Links
            /\ ~Parser!Inconsistent(x.decision, own, links)
            /\ Parser!Strict(x) = Parser!Decision(x.decision,
                 [i \in DOMAIN own |-> own[i].query], [i \in DOMAIN links |-> links[i].url])
<1>1. ~Parser!Refused.ok
  BY DEF Parser!Refused
<1>2. Parser!Strict(x) # Parser!Refused
  BY <1>1
<1> QED
  BY <1>2, Zenon DEF Parser!Strict

LEMMA DecisionIsNone ==
  ASSUME NEW what \in Parser!DECISIONS
  PROVE  what # None /\ what \notin {"continue", "search_and_fetch"}
BY AnswersAssumption DEF Parser!DECISIONS, Parser!Terminal, DECISIONS, Terminal

\* It is not taken for a composite, since its fetches do not say what they are.
LEMMA CanonicalIsSimple ==
  ASSUME NEW x \in Parser!Answers, Parser!IsCanonical(x), x.decision \in Parser!DECISIONS
  PROVE  ~Parser!IsComposite(x)
<1>1. x.status \notin {"search_and_fetch", "need_fetch"}
  BY AnswersAssumption DEF Parser!IsCanonical, Statuses
<1>2. "search_and_fetch" \notin {x.decision, x.final}
  <2>1. x.decision # "search_and_fetch"
    BY DecisionIsNone
  <2>2. x.final # "search_and_fetch"
    BY AnswersAssumption DEF Parser!IsCanonical, OtherDecisions
  <2> QED
    BY <2>1, <2>2
<1>3. ASSUME NEW c \in {"combinedActions", "nextActions", "fetchActions"},
             {"search", "fetch"} \subseteq
               {Parser!Says(Parser!ItemsOf(x, c)[i]) : i \in DOMAIN Parser!ItemsOf(x, c)}
      PROVE  FALSE
  <2> DEFINE items == Parser!ItemsOf(x, c)
  <2>1. PICK i \in DOMAIN items, j \in DOMAIN items :
          Parser!Says(items[i]) = "search" /\ Parser!Says(items[j]) = "fetch"
    BY <1>3
  <2>2. CASE c = "fetchActions"
    <3>1. items[i] \in Parser!ToSet(items) /\ items[j] \in Parser!ToSet(items)
      BY DEF Parser!ToSet
    <3>2. Parser!Says(items[i]) = None /\ Parser!Says(items[j]) = None
      BY <2>2, <3>1 DEF Parser!IsCanonical
    <3> QED
      BY <2>1, <3>2
  <2>3. CASE c # "fetchActions"
    <3>1. c \in Parser!Containers \ {"searchActions", "fetchActions"}
      BY <2>3 DEF Parser!Containers
    <3>2. items = <<>>
      BY <3>1, AnswersTyped DEF Parser!IsCanonical
    <3> HIDE DEF items
    <3> QED
      BY <2>1, <3>2
  <2> QED
    BY <2>2, <2>3
<1> QED
  BY <1>1, <1>2, <1>3 DEF Parser!IsComposite

\* Each of its fetches stays a fetch when its type is overwritten.
LEMMA CanonicalFetchesStay ==
  ASSUME NEW x \in Parser!Answers, Parser!IsCanonical(x),
         NEW links, links = Parser!ItemsOf(x, "fetchActions"),
         \A i \in DOMAIN links : links[i].url \in Links
  PROVE  Parser!TypedFetches(links) = [i \in DOMAIN links |-> links[i].url]
<1> DEFINE typed == [i \in DOMAIN links |-> [links[i] EXCEPT !.type = "fetch"]]
           Typed == {[item EXCEPT !.type = "fetch"] : item \in Parser!ActionItem}
           wanted == Parser!Saying("fetch", typed) \cap Parser!WithUrl(typed)
<1>0. links \in Seq(Parser!ActionItem)
  <2>1. "fetchActions" \in Parser!Containers
    BY DEF Parser!Containers
  <2> QED
    BY <2>1, AnswersTyped
<1>1. DOMAIN links = 1..Len(links) /\ Len(links) \in Nat
  BY <1>0
<1>2. ASSUME NEW i \in 1..Len(links)
      PROVE  /\ typed[i] = [links[i] EXCEPT !.type = "fetch"]
             /\ typed[i] \in Typed
             /\ typed[i].url = links[i].url
             /\ typed[i].url # None
             /\ Parser!Says(typed[i]) = "fetch"
  <2>1. links[i] \in Parser!ActionItem /\ links[i].url \in Links
    BY <1>0, <1>1
  <2>2. links[i].action = None
    <3>1. links[i] \in Parser!ToSet(links)
      BY <1>1 DEF Parser!ToSet
    <3>2. Parser!Says(links[i]) = None
      BY <3>1 DEF Parser!IsCanonical
    <3> QED
      BY <3>2 DEF Parser!Says
  <2>3. typed[i] = [links[i] EXCEPT !.type = "fetch"]
    BY <1>1
  <2>4. typed[i].url = links[i].url /\ typed[i].type = "fetch" /\ typed[i].action = None
    BY <2>1, <2>2, <2>3 DEF Parser!ActionItem
  <2>5. typed[i].url # None
    BY <2>1, <2>4, AnswersAssumption
  <2>6. Parser!Says(typed[i]) = "fetch"
    BY <2>4 DEF Parser!Says
  <2>7. typed[i] \in Typed
    BY <2>1, <2>3
  <2> QED
    BY <2>3, <2>4, <2>5, <2>6, <2>7
<1>3. typed \in Seq(Typed) /\ Len(typed) = Len(links) /\ DOMAIN typed = 1..Len(links)
  <2>1. \A i \in 1..Len(links) : [links[i] EXCEPT !.type = "fetch"] \in Typed
    <3> HIDE DEF typed, Typed
    <3> QED
      BY <1>2
  <2> HIDE DEF Typed
  <2> QED
    BY <1>1, <2>1
<1> HIDE DEF typed, Typed
<1>4. \A i \in 1..Len(typed) : typed[i] \in wanted
  BY <1>2, <1>3 DEF Parser!Saying, Parser!WithUrl, Parser!ToSet
<1> HIDE DEF wanted
<1>5. Parser!FieldOf(typed, wanted, "url") = [i \in 1..Len(typed) |-> typed[i]["url"]]
  BY <1>3, <1>4, FieldOfAll
<1>6. [i \in 1..Len(typed) |-> typed[i]["url"]] = [i \in DOMAIN links |-> links[i].url]
  BY <1>1, <1>2, <1>3
<1> QED
  BY <1>5, <1>6 DEF Parser!TypedFetches, Parser!FetchesIn, typed, wanted

\* The legacy normalisation agrees with the strict parser on it.
LEMMA CanonicalNormalized ==
  ASSUME NEW x \in Parser!Answers, Parser!IsCanonical(x), Parser!Strict(x).ok
  PROVE  Parser!Normalized(x) = Parser!Strict(x)
<1> DEFINE own == Parser!ItemsOf(x, "searchActions")
           links == Parser!ItemsOf(x, "fetchActions")
           queries == [i \in DOMAIN own |-> own[i].query]
           urls == [i \in DOMAIN links |-> links[i].url]
<1>1. /\ x.decision \in Parser!DECISIONS
      /\ \A i \in DOMAIN links : links[i].url \in Links
      /\ ~Parser!Inconsistent(x.decision, own, links)
      /\ Parser!Strict(x) = Parser!Decision(x.decision, queries, urls)
  BY StrictParses
<1>2. own \in Seq(Parser!ActionItem) /\ links \in Seq(Parser!ActionItem)
  BY AnswersTyped DEF Parser!Containers
<1>3. CASE x.decision = "summarize_and_stop"
  <2>1. own \o links = <<>>
    BY <1>1, <1>3 DEF Parser!Inconsistent, Parser!Terminal
  <2>2. own = <<>> /\ links = <<>>
    <3> HIDE DEF own, links
    <3> QED
      BY <1>2, <2>1, ConcatEqualIffEmpty
  <2>3. queries = <<>> /\ urls = <<>>
    <3> HIDE DEF own, links
    <3> QED
      BY <2>2
  <2> QED
    BY <1>1, <1>3, <2>3 DEF Parser!Normalized
<1>4. CASE x.decision # "summarize_and_stop"
  <2>1. Parser!Normalized(x) = Parser!Legacy(x)
    BY <1>1, <1>4, CanonicalIsSimple DEF Parser!Normalized
  <2>2. Parser!TypedFetches(links) = urls
    BY <1>1, CanonicalFetchesStay
  <2>3. x.status = None /\ x.decision # None /\ x.decision # "continue"
    BY <1>1, DecisionIsNone DEF Parser!IsCanonical
  <2>4. ~Parser!Undecided(x)
    BY <2>3 DEF Parser!Undecided
  <2> HIDE DEF urls
  <2>5. Parser!Legacy(x) = Parser!Decision(x.decision, queries, urls)
    BY <2>2, <2>3, <2>4 DEF Parser!Legacy
  <2> QED
    BY <1>1, <2>1, <2>5
<1> QED
  BY <1>3, <1>4

-----------------------------------------------------------------------------
(* The two steps *)

\* Whichever text the answer came in.
LEMMA ParsedHonest ==
  ASSUME Parser!ParserInv
  PROVE  Honest(answer, decision)
<1>1. answer \in Parser!Answers
  BY DEF Parser!ParserInv
<1>2. \/ decision = Parser!Refused
      \/ Parser!IsLegacy(answer) /\ decision = Parser!Normalized(answer)
      \/ ~Parser!IsLegacy(answer) /\ decision = Parser!Strict(answer)
  BY DEF Parser!ParserInv, Parser!Parse
<1> QED
  BY <1>1, <1>2, NothingIsHonest, NormalizedHonest, StrictHonest

LEMMA ParserInit ==
  ASSUME Parser!Init
  PROVE  Parser!ParserInv
BY DEF Parser!Init, Parser!ParserInv, Parser!Refused

LEMMA ParserStep ==
  ASSUME Parser!ParserInv, Parser!Next
  PROVE  Parser!ParserInv'
<1>1. CASE Parser!Ask
  <2>1. /\ answer' = answer
        /\ decision' \in {Parser!Refused} \cup {Parser!Parse(text) : text \in Parser!Texts}
        /\ stage' = IF decision'.ok THEN "decided" ELSE "refused"
    BY <1>1 DEF Parser!Ask
  <2>2. \A text : Parser!Parse(text)' = Parser!Parse(text)
    BY <2>1 DEF Parser!Parse
  <2>3. decision' \in {Parser!Refused} \cup {Parser!Parse(text)' : text \in Parser!Texts}
    BY <2>1, <2>2
  <2> QED
    BY <2>1, <2>3 DEF Parser!ParserInv
<1>2. CASE Parser!Admit
  <2>1. /\ answer' = answer /\ decision' = decision /\ stage = "decided"
        /\ stage' = IF Parser!Inconsistent(decision.kind, decision.searches, decision.fetches)
                    THEN "refused" ELSE "admitted"
    BY <1>2 DEF Parser!Admit
  <2>2. \A text : Parser!Parse(text)' = Parser!Parse(text)
    BY <2>1 DEF Parser!Parse
  <2>3. decision' \in {Parser!Refused} \cup {Parser!Parse(text)' : text \in Parser!Texts}
    BY <2>1, <2>2 DEF Parser!ParserInv
  <2> QED
    BY <2>1, <2>3 DEF Parser!ParserInv
<1> QED
  BY <1>1, <1>2 DEF Parser!Next

LEMMA ParserInvHolds == DecisionsSpec => []Parser!ParserInv
<1>1. DecisionsInit => Parser!ParserInv
  BY ParserInit DEF DecisionsInit
<1>2. Parser!ParserInv /\ [DecisionsNext]_<<used, vars, parserVars>> => Parser!ParserInv'
  <2> SUFFICES ASSUME Parser!ParserInv, [DecisionsNext]_<<used, vars, parserVars>>
               PROVE  Parser!ParserInv'
    OBVIOUS
  <2>1. CASE Parser!Next
    BY <2>1, ParserStep
  <2>2. CASE UNCHANGED parserVars
    <3>1. answer' = answer /\ stage' = stage /\ decision' = decision
      BY <2>2 DEF parserVars
    <3>2. \A text : Parser!Parse(text)' = Parser!Parse(text)
      BY <3>1 DEF Parser!Parse
    <3> QED
      BY <3>1, <3>2 DEF Parser!ParserInv
  <2> QED
    BY <2>1, <2>2 DEF DecisionsNext
<1> QED
  BY <1>1, <1>2, PTL DEF DecisionsSpec

\* Nothing the model did not ask for is run by the policy task, whichever parser
\* read its answer (parseModelDecision, runOneSessionIteration).
THEOREM NothingIsInvented == DecisionsSpec => []NothingInvented
<1>1. Parser!ParserInv => NothingInvented
  <2> SUFFICES ASSUME Parser!ParserInv PROVE NothingInvented
    OBVIOUS
  <2>1. decision.searches \in Seq(Queried(answer)) /\ decision.fetches \in Seq(Linked(answer))
    BY ParsedHonest DEF Honest
  <2>2. Parser!TypeOK
    <3>1. Queried(answer) \subseteq SearchTexts \cup {None}
      BY DEF Queried
    <3>2. Linked(answer) \subseteq Links \cup {BadLink}
      BY DEF Linked
    <3>3. decision.searches \in Seq(SearchTexts \cup {None})
      BY <2>1, <3>1, SeqMonotonic
    <3>4. decision.fetches \in Seq(Links \cup {BadLink})
      BY <2>1, <3>2, SeqMonotonic
    <3>5. decision.ok \in BOOLEAN
      <4>1. \A x : Parser!Composite(x).ok = TRUE
        BY DEF Parser!Composite, Parser!Decision
      <4>2. \A x : Parser!Legacy(x).ok = TRUE
        BY DEF Parser!Legacy, Parser!Decision
      <4>3. \A x : Parser!Normalized(x).ok = TRUE
        BY <4>1, <4>2 DEF Parser!Normalized, Parser!Decision
      <4>4. \A x : Parser!Strict(x).ok \in BOOLEAN
        BY DEF Parser!Strict, Parser!Decision, Parser!Refused
      <4>5. decision \in {Parser!Refused, Parser!Normalized(answer), Parser!Strict(answer)}
        BY DEF Parser!ParserInv, Parser!Parse
      <4>6. Parser!Refused.ok \in BOOLEAN
        BY DEF Parser!Refused
      <4>7. Parser!Normalized(answer).ok \in BOOLEAN /\ Parser!Strict(answer).ok \in BOOLEAN
        BY <4>3, <4>4
      <4> QED
        BY <4>5, <4>6, <4>7
    <3> QED
      BY <3>3, <3>4, <3>5 DEF Parser!ParserInv, Parser!TypeOK
  <2>3. ASSUME NEW query \in Parser!ToSet(decision.searches)
        PROVE  query \in Queried(answer)
    <3> DEFINE searches == decision.searches
    <3>1. searches \in Seq(Queried(answer))
      BY <2>1
    <3> HIDE DEF searches
    <3>2. \A i \in DOMAIN searches : searches[i] \in Queried(answer)
      BY <3>1
    <3> QED
      BY <3>2 DEF searches, Parser!ToSet
  <2>4. ASSUME NEW url \in Parser!ToSet(decision.fetches)
        PROVE  url \in Linked(answer)
    <3> DEFINE fetches == decision.fetches
    <3>1. fetches \in Seq(Linked(answer))
      BY <2>1
    <3> HIDE DEF fetches
    <3>2. \A i \in DOMAIN fetches : fetches[i] \in Linked(answer)
      BY <3>1
    <3> QED
      BY <3>2 DEF fetches, Parser!ToSet
  <2>5. ASSUME Parser!Admitted, decision.kind \in Parser!DECISIONS
        PROVE  decision.searches = <<>> \/ decision.fetches = <<>>
    <3>1. ~Parser!Inconsistent(decision.kind, decision.searches, decision.fetches)
      BY <2>5 DEF Parser!ParserInv, Parser!Admitted
    <3>2. CASE decision.kind \in Parser!Terminal
      <4>1. decision.searches \o decision.fetches = <<>>
        BY <3>1, <3>2 DEF Parser!Inconsistent
      <4>2. /\ decision.searches \in Seq(SearchTexts \cup {None} \cup Links \cup {BadLink})
            /\ decision.fetches \in Seq(SearchTexts \cup {None} \cup Links \cup {BadLink})
        BY <2>2, SeqMonotonic DEF Parser!TypeOK
      <4> QED
        BY <4>1, <4>2, ConcatEqualIffEmpty
    <3>3. CASE decision.kind \in {"continue_search", "continue_fetch"}
      BY <3>1, <3>3 DEF Parser!Inconsistent
    <3> QED
      BY <2>5, <3>2, <3>3 DEF Parser!DECISIONS
  <2> QED
    BY <2>2, <2>3, <2>4, <2>5 DEF NothingInvented, Parser!NothingInvented, Queried, Linked
<1> QED
  BY <1>1, ParserInvHolds, PTL

\* An answer that keeps the output contract comes out as it went in, whichever
\* parser reads it (isLegacyModelShape, parseModelDecision).
THEOREM CanonicalStaysUnchanged == DecisionsSpec => []CanonicalIsUnchanged
<1>1. Parser!ParserInv => CanonicalIsUnchanged
  <2> SUFFICES ASSUME Parser!ParserInv, Parser!IsCanonical(answer), Parser!Strict(answer).ok,
                      stage \in {"decided", "admitted"}
               PROVE  decision = Parser!Strict(answer)
    BY DEF CanonicalIsUnchanged, Parser!CanonicalIsUnchanged
  <2>1. answer \in Parser!Answers /\ decision.ok
    BY DEF Parser!ParserInv
  <2>2. decision \in {Parser!Refused, Parser!Normalized(answer), Parser!Strict(answer)}
    BY DEF Parser!ParserInv, Parser!Parse
  <2>3. ~Parser!Refused.ok
    BY DEF Parser!Refused
  <2> QED
    BY <2>1, <2>2, <2>3, CanonicalNormalized
<1> QED
  BY <1>1, ParserInvHolds, PTL
=============================================================================
