----------------------------- MODULE MemoryProofs -----------------------------
(***************************************************************************)
(* What holds of memory retrieval for a world model of any size and any    *)
(* number of agents and retrievals.  First what sorting makes of a set of  *)
(* records; then the counting, to which it does not matter; then what the  *)
(* prompt is told.                                                         *)
(***************************************************************************)
EXTENDS Memory, FiniteSetTheorems, WellFoundedInduction, TLAPS

-----------------------------------------------------------------------------
(* Sorting.                                                                *)

\* A nonempty set of natural numbers has a least one.
LEMMA Least ==
  ASSUME NEW T, T \subseteq Nat, T # {}
  PROVE  \E k \in T : \A j \in T : k <= j
  <1>1. IsWellFoundedOn(OpToRel(<, Nat), Nat)  BY NatLessThanWellFounded
  <1> DEFINE R == OpToRel(<, Nat)
  <1> HIDE DEF R
  <1>2. PICK k \in T : \A j \in T : ~(<<j, k>> \in R)
    BY <1>1, WFMin DEF R
  <1>3. ASSUME NEW j \in T PROVE k <= j
    <2>1. <<j, k>> \notin R /\ k \in Nat /\ j \in Nat  BY <1>2
    <2>2. ~(j < k)
      <3> SUFFICES ASSUME j < k PROVE <<j, k>> \in R  BY <2>1
      <3> QED BY <2>1, Zenon DEF R, OpToRel
    <2> QED BY <2>1, <2>2
  <1> QED BY <1>2, <1>3

\* A strict total order on S.
Orders(before, S) ==
    /\ \A x \in S : <<x, x>> \notin before
    /\ \A x, y \in S : x # y => <<x, y>> \in before \/ <<y, x>> \in before
    /\ \A x, y, z \in S : <<x, y>> \in before /\ <<y, z>> \in before => <<x, z>> \in before

\* A list of n of the members of S in that order.
SortedList(S, n, list, before) ==
    /\ list \in [1 .. n -> S]
    /\ \A i, j \in 1 .. n : i < j => <<list[i], list[j]>> \in before

\* One more member finds its place in a sorted list: before the first member of the
\* list that it stands before.
LEMMA InsertOne ==
  ASSUME NEW S, NEW before, Orders(before, S), NEW x \in S, NEW n \in Nat,
         NEW list, SortedList(S \ {x}, n, list, before)
  PROVE  \E longer : SortedList(S, n + 1, longer, before)
  <1>1. /\ list \in [1 .. n -> S \ {x}]
        /\ \A i, j \in 1 .. n : i < j => <<list[i], list[j]>> \in before
    BY DEF SortedList
  <1>2. \A i \in 1 .. n : list[i] \in S /\ list[i] # x  BY <1>1
  <1> DEFINE Later == {i \in 1 .. n : <<x, list[i]>> \in before}
  <1>3. PICK k \in 1 .. n + 1 :
            /\ \A i \in 1 .. n : i < k => <<x, list[i]>> \notin before
            /\ k <= n => <<x, list[k]>> \in before
    <2>1. CASE Later = {}
      <3>1. n + 1 \in 1 .. n + 1 /\ ~(n + 1 <= n)  OBVIOUS
      <3> QED BY <2>1, <3>1
    <2>2. CASE Later # {}
      <3>1. Later \subseteq Nat  OBVIOUS
      <3>2. PICK k \in Later : \A j \in Later : k <= j  BY <2>2, <3>1, Least
      <3>3. k \in 1 .. n + 1 /\ k \in 1 .. n /\ <<x, list[k]>> \in before  BY <3>2
      <3>4. \A i \in 1 .. n : i < k => i \notin Later  BY <3>2, <3>3
      <3> QED BY <3>3, <3>4
    <2> QED BY <2>1, <2>2
  <1>4. \A i \in 1 .. n : i < k => <<list[i], x>> \in before
    BY <1>2, <1>3 DEF Orders
  <1>5. \A i \in 1 .. n : i >= k => <<x, list[i]>> \in before
    <2> SUFFICES ASSUME NEW i \in 1 .. n, i >= k PROVE <<x, list[i]>> \in before
      OBVIOUS
    <2>1. k \in 1 .. n /\ <<x, list[k]>> \in before  BY <1>3
    <2>2. CASE i = k  BY <2>1, <2>2
    <2>3. CASE k < i
      <3>1. <<list[k], list[i]>> \in before  BY <1>1, <2>1, <2>3
      <3>2. list[k] \in S /\ list[i] \in S  BY <1>2, <2>1
      <3> QED BY <2>1, <3>1, <3>2 DEF Orders
    <2> QED BY <2>2, <2>3
  <1> DEFINE longer == [i \in 1 .. n + 1 |-> IF i < k THEN list[i]
                                             ELSE IF i = k THEN x ELSE list[i - 1]]
  <1>6. ASSUME NEW i \in 1 .. n + 1
        PROVE  /\ i < k => i \in 1 .. n /\ longer[i] = list[i]
               /\ i = k => longer[i] = x
               /\ i > k => i - 1 \in 1 .. n /\ i - 1 >= k /\ longer[i] = list[i - 1]
    BY <1>3
  <1>7. longer \in [1 .. n + 1 -> S]
    <2>1. \A i \in 1 .. n + 1 : longer[i] \in S
      <3> TAKE i \in 1 .. n + 1
      <3>1. i < k \/ i = k \/ i > k  BY <1>3
      <3> QED BY <1>2, <1>6, <3>1
    <2> QED BY <2>1
  <1> HIDE DEF longer
  <1>8. ASSUME NEW i \in 1 .. n + 1, NEW j \in 1 .. n + 1, i < j
        PROVE  <<longer[i], longer[j]>> \in before
    <2>1. k \in Nat /\ i \in Nat /\ j \in Nat  BY <1>3
    <2>2. CASE j < k
      <3>1. i < k  BY <1>8, <2>1, <2>2
      <3> QED BY <1>1, <1>6, <1>8, <2>2, <3>1
    <2>3. CASE j = k
      <3>1. i < k  BY <1>8, <2>1, <2>3
      <3> QED BY <1>4, <1>6, <2>3, <3>1
    <2>4. CASE j > k /\ i < k
      <3>1. /\ i \in 1 .. n /\ longer[i] = list[i]
            /\ j - 1 \in 1 .. n /\ longer[j] = list[j - 1] /\ i < j - 1
        BY <1>6, <2>1, <2>4
      <3> QED BY <1>1, <3>1
    <2>5. CASE j > k /\ i = k
      BY <1>5, <1>6, <2>5
    <2>6. CASE j > k /\ i > k
      <3>1. /\ i - 1 \in 1 .. n /\ longer[i] = list[i - 1]
            /\ j - 1 \in 1 .. n /\ longer[j] = list[j - 1] /\ i - 1 < j - 1
        BY <1>6, <1>8, <2>1, <2>6
      <3> QED BY <1>1, <3>1
    <2> QED BY <2>1, <2>2, <2>3, <2>4, <2>5, <2>6
  <1> QED BY <1>7, <1>8 DEF SortedList

\* So every finite set can be sorted: a smallest one that cannot be would be one
\* member larger than one that can.
LEMMA SortedExists ==
  ASSUME NEW S, IsFiniteSet(S), NEW before, Orders(before, S)
  PROVE  \E list : SortedList(S, Cardinality(S), list, before)
  <1> DEFINE Sortable(T) == \E list : SortedList(T, Cardinality(T), list, before)
             Bad == {n \in Nat : \E T \in SUBSET S : Cardinality(T) = n /\ ~Sortable(T)}
  <1>1. Bad = {}
    <2> SUFFICES ASSUME Bad # {} PROVE FALSE  OBVIOUS
    <2>1. Bad \subseteq Nat  OBVIOUS
    <2>2. PICK n \in Bad : \A m \in Bad : n <= m  BY <2>1, Least
    <2>3. PICK T \in SUBSET S : Cardinality(T) = n /\ ~Sortable(T)  BY <2>2
    <2>4. IsFiniteSet(T) /\ n \in Nat  BY <2>2, FS_Subset
    <2>5. T # {}
      <3> SUFFICES ASSUME T = {} PROVE FALSE  OBVIOUS
      <3>1. Cardinality(T) = 0  BY FS_EmptySet
      <3>2. SortedList(T, 0, <<>>, before)  BY DEF SortedList
      <3> QED BY <2>3, <3>1, <3>2
    <2>6. PICK x : x \in T  BY <2>5
    <2> DEFINE U == T \ {x}
    <2>7. U \in SUBSET S /\ Cardinality(U) = n - 1  BY <2>3, <2>4, <2>6, FS_RemoveElement
    <2>8. IsFiniteSet(U) /\ Cardinality(U) \in Nat
      BY <2>4, <2>6, FS_RemoveElement, FS_CardinalityType
    <2>9. n - 1 \in Nat /\ n - 1 \notin Bad /\ (n - 1) + 1 = n  BY <2>2, <2>4, <2>7, <2>8
    <2>10. PICK list : SortedList(U, n - 1, list, before)  BY <2>7, <2>9
    <2>11. Orders(before, T)  BY <2>3 DEF Orders
    <2>12. \E longer : SortedList(T, (n - 1) + 1, longer, before)
      BY <2>6, <2>9, <2>10, <2>11, InsertOne
    <2> QED BY <2>3, <2>9, <2>12
  <1>2. Cardinality(S) \in Nat  BY FS_CardinalityType
  <1> QED BY <1>1, <1>2

\* What a sorted list of records is: each of them once, in order.
LEMMA InOrderFacts ==
  ASSUME NEW records \in SUBSET Records, NEW before, Orders(before, records)
  PROVE  /\ InOrder(records, before) \in Seq(records)
         /\ Len(InOrder(records, before)) \in 0 .. NUM_RECORDS
         /\ ToSet(InOrder(records, before)) = records
         /\ IsInjective(InOrder(records, before))
         /\ \A i, j \in DOMAIN InOrder(records, before) :
               i < j => <<InOrder(records, before)[i], InOrder(records, before)[j]>> \in before
  <1> DEFINE n == Cardinality(records)
             list == InOrder(records, before)
  <1>1. IsFiniteSet(records) /\ n \in 0 .. NUM_RECORDS
    <2>1. IsFiniteSet(Records) /\ Cardinality(Records) = NUM_RECORDS
      BY MemoryAssumption, FS_Interval DEF Records
    <2>2. IsFiniteSet(records) /\ n <= NUM_RECORDS  BY <2>1, FS_Subset
    <2> QED BY <2>2, MemoryAssumption, FS_CardinalityType
  <1>2. SortedList(records, n, list, before)
    <2>1. \E l : SortedList(records, n, l, before)  BY <1>1, SortedExists
    <2>2. \E l \in [1 .. n -> records] :
             \A i, j \in 1 .. n : i < j => <<l[i], l[j]>> \in before
      BY <2>1 DEF SortedList
    <2> QED BY <2>2 DEF SortedList, InOrder
  <1> HIDE DEF list, n
  <1>3. /\ list \in [1 .. n -> records] /\ n \in Nat /\ DOMAIN list = 1 .. n
        /\ \A i, j \in 1 .. n : i < j => <<list[i], list[j]>> \in before
    BY <1>1, <1>2 DEF SortedList
  <1>4. ASSUME NEW i \in 1 .. n, NEW j \in 1 .. n, list[i] = list[j] PROVE i = j
    <2>1. list[i] \in records /\ <<list[i], list[i]>> \notin before
      BY <1>3 DEF Orders
    <2>2. ~(i < j) /\ ~(j < i)  BY <1>3, <1>4, <2>1
    <2> QED BY <1>3, <2>2
  <1>5. IsInjective(list)  BY <1>3, <1>4 DEF IsInjective
  <1>6. ToSet(list) = records
    <2>1. list \in Injection(1 .. n, records)  BY <1>3, <1>4 DEF Injection, IsInjective
    <2>2. Cardinality(1 .. n) = n  BY <1>1, FS_Interval
    <2>3. list \in Surjection(1 .. n, records)
      BY <1>1, <2>1, <2>2, FS_Injection DEF n
    <2> QED BY <1>3, <2>3 DEF Surjection, ToSet
  <1>7. list \in Seq(records) /\ Len(list) = n  BY <1>3
  <1> QED BY <1>1, <1>3, <1>5, <1>6, <1>7 DEF list

\* The core order: the newest record first.
LEMMA CoreOrderFacts ==
  ASSUME NEW records \in SUBSET Records
  PROVE  /\ CoreOrder(records) \in Seq(Records)
         /\ Len(CoreOrder(records)) \in 0 .. NUM_RECORDS
         /\ ToSet(CoreOrder(records)) = records
         /\ IsInjective(CoreOrder(records))
         /\ \A i, j \in DOMAIN CoreOrder(records) :
               i < j => CoreOrder(records)[i] > CoreOrder(records)[j]
  <1> DEFINE before == {p \in records \X records : p[1] > p[2]}
             list == InOrder(records, before)
  <1>1. \A r \in records : r \in Int  BY DEF Records
  <1>2. \A r, s \in records : <<r, s>> \in before <=> r > s  OBVIOUS
  <1>3. CoreOrder(records) = list  BY DEF CoreOrder, NewestFirst
  <1> HIDE DEF before
  <1>4. Orders(before, records)  BY <1>1, <1>2 DEF Orders
  <1>5. /\ list \in Seq(records) /\ Len(list) \in 0 .. NUM_RECORDS
        /\ ToSet(list) = records /\ IsInjective(list)
        /\ \A i, j \in DOMAIN list : i < j => <<list[i], list[j]>> \in before
    BY <1>4, InOrderFacts
  <1> HIDE DEF list
  <1>6. \A i, j \in DOMAIN list : i < j => list[i] > list[j]
    <2>1. \A i \in DOMAIN list : list[i] \in records  BY <1>5
    <2> QED BY <1>2, <1>5, <2>1
  <1>7. list \in Seq(Records)
    <2>1. \A i \in 1 .. Len(list) : list[i] \in Records  BY <1>5
    <2> QED BY <1>5, <2>1
  <1> QED BY <1>3, <1>5, <1>6, <1>7

\* The ranked order: every record once.
LEMMA RankedFacts ==
  ASSUME NEW score \in [Records -> Scores]
  PROVE  /\ Ranked(score) \in Seq(Records) /\ Len(Ranked(score)) \in 0 .. NUM_RECORDS
         /\ ToSet(Ranked(score)) = Records /\ IsInjective(Ranked(score))
  <1> DEFINE before == {p \in Records \X Records :
                           \/ score[p[1]] > score[p[2]]
                           \/ score[p[1]] = score[p[2]] /\ p[1] > p[2]}
  <1>1. \A r \in Records : r \in Int /\ score[r] \in Int  BY DEF Records, Scores
  <1>2. \A r, s \in Records : <<r, s>> \in before
            <=> score[r] > score[s] \/ (score[r] = score[s] /\ r > s)
    OBVIOUS
  <1> HIDE DEF before
  <1>3. Orders(before, Records)  BY <1>1, <1>2 DEF Orders
  <1> QED BY <1>3, InOrderFacts DEF Ranked, before

-----------------------------------------------------------------------------
(* The inductive invariant.                                                *)

\* The lists retrieval can build.
Lists == {<<>>} \cup {CoreOrder(records) : records \in SUBSET Records}
                \cup {Ranked(score) : score \in [Records -> Scores]}

Entries == [run_id : Nat, item_count : {Len(list) : list \in Lists}]

\* A retrieval on the stack has been counted and not yet logged; no entry is ahead
\* of the counter; item_count counts the list, or nothing yet.
Numbered == /\ runId \in Nat /\ attempts \in Nat /\ logs \in Seq(Entries)
            /\ attempts = IF pc = "idle" THEN runId ELSE runId + 1
            /\ \A i \in DOMAIN logs : logs[i].run_id <= runId

Described == /\ pc \in {"numpy", "query", "tasks"} => items = <<>>
             /\ raised => pc \in {"idle", "log"}
             /\ items \in Lists /\ count \in {0, Len(items)}
             /\ pc \in {"numpy", "query", "tasks", "integrate"} => count = 0
             /\ pc = "log" /\ ~raised => count = Len(items)
             /\ ~enabled => pc = "idle" /\ logs = <<>>

IInv == Numbered /\ Described /\ OneEntryPerAttempt /\ EntryDescribesContext

\* The first state.
LEMMA InitIInv == Init => IInv
  <1> SUFFICES ASSUME Init PROVE IInv  OBVIOUS
  <1>1. logs \in Seq(Entries) /\ DOMAIN logs = {} /\ Len(items) = 0  BY DEF Init
  <1> QED BY <1>1 DEF Init, IInv, Numbered, Described, Lists, OneEntryPerAttempt,
                      EntryDescribesContext

\* A new agent starts counting anew.
LEMMA ConstructIInv == IInv /\ Construct => IInv'
  <1> SUFFICES ASSUME IInv, Construct PROVE IInv'  OBVIOUS
  <1>1. /\ logs' = <<>> /\ runId' = 0 /\ attempts' = 0 /\ items' = <<>> /\ raised' = FALSE
        /\ pc' = "idle" /\ count' = 0
    BY DEF Construct
  <1>2. logs' \in Seq(Entries) /\ DOMAIN logs' = {}  BY <1>1
  <1> QED BY <1>1, <1>2 DEF IInv, Numbered, Described, Lists, OneEntryPerAttempt,
                            EntryDescribesContext

\* A disabled agent has no entries, whatever its prompts are.
LEMMA BypassIInv == IInv /\ Bypass => IInv'
  BY DEF Bypass, present, IInv, Numbered, Described, OneEntryPerAttempt,
         EntryDescribesContext

\* Steps inside a retrieval leave counter, entries and toggle alone.
LEMMA InsideIInv ==
  ASSUME IInv, pc # "idle", pc' # "idle", Described',
         UNCHANGED <<runId, attempts, logs, enabled>>
  PROVE  IInv'
  BY DEF IInv, Numbered, OneEntryPerAttempt, EntryDescribesContext

\* Falling back yields one of the lists.
LEMMA FallbackList ==
  ASSUME Fallback
  PROVE  items' \in Lists /\ pc' = "integrate" /\ UNCHANGED <<count, raised>>
  <1>1. items' = CoreOrder(Records) /\ pc' = "integrate" /\ UNCHANGED <<count, raised>>
    BY DEF Fallback, Finish
  <1> QED BY <1>1 DEF Lists

\* A retrieval is counted when it starts.
LEMMA RetrieveIInv == IInv /\ Retrieve => IInv'
  <1> SUFFICES ASSUME IInv, Retrieve PROVE IInv'  OBVIOUS
  <1>1. /\ pc = "idle" /\ enabled /\ attempts' = attempts + 1 /\ pc' # "idle"
        /\ pc' \in {"numpy", "integrate"} /\ count' = 0
        /\ raised' = FALSE /\ UNCHANGED <<runId, logs, enabled>>
    BY DEF Retrieve, present
  <1>2. items' \in Lists /\ (pc' \in {"numpy", "query", "tasks"} => items' = <<>>)
    <2>1. PICK q \in Queries :
             IF q.empty THEN pc' = "integrate" /\ items' = <<>> /\ ordering' = "none"
             ELSE IF model THEN pc' = "numpy" /\ items' = <<>> /\ ordering' = "none"
             ELSE pc' = "integrate" /\ items' = CoreOrder(q.matches) /\ ordering' = "core"
      BY DEF Retrieve
    <2>2. q.matches \in SUBSET Records
      <3>1. CASE q = EmptyQuery  BY <3>1 DEF EmptyQuery
      <3>2. CASE q \in [empty : {FALSE}, matches : SUBSET Records]  BY <3>2
      <3> QED BY <3>1, <3>2 DEF Queries
    <2> QED BY <2>1, <2>2 DEF Lists
  <1> QED BY <1>1, <1>2 DEF IInv, Numbered, Described, OneEntryPerAttempt,
                            EntryDescribesContext

\* The three places where ranking can be given up.
LEMMA RankIInv == IInv /\ (ImportNumpy \/ EncodeQuery \/ EncodeTasks) => IInv'
  <1> SUFFICES ASSUME IInv, ImportNumpy \/ EncodeQuery \/ EncodeTasks PROVE IInv'  OBVIOUS
  <1>1. /\ pc \in {"numpy", "query", "tasks"} /\ items = <<>> /\ count = 0 /\ enabled
        /\ UNCHANGED <<runId, attempts, logs, enabled>>
    BY DEF IInv, Described, ImportNumpy, EncodeQuery, EncodeTasks, present
  <1>2. pc' # "idle" /\ Described'
    <2>1. \/ pc' \in {"query", "tasks"} /\ UNCHANGED <<items, count, raised>>
          \/ Fallback
          \/ Escape
          \/ \E score \in [Records -> Scores] : Finish(Ranked(score), "ranked")
      BY DEF ImportNumpy, EncodeQuery, EncodeTasks
    <2>2. CASE pc' \in {"query", "tasks"} /\ UNCHANGED <<items, count, raised>>
      BY <1>1, <2>2 DEF IInv, Described
    <2>3. CASE Fallback
      BY <1>1, <2>3, FallbackList DEF IInv, Described
    <2>4. CASE Escape
      BY <1>1, <2>4 DEF Escape, IInv, Described
    <2>5. CASE \E score \in [Records -> Scores] : Finish(Ranked(score), "ranked")
      <3>1. PICK score \in [Records -> Scores] : Finish(Ranked(score), "ranked")  BY <2>5
      <3>2. items' \in Lists /\ pc' = "integrate" /\ UNCHANGED <<count, raised>>
        BY <3>1 DEF Finish, Lists
      <3> QED BY <1>1, <3>2 DEF IInv, Described
    <2> QED BY <2>1, <2>2, <2>3, <2>4, <2>5
  <1> QED BY <1>1, <1>2, InsideIInv

\* item_count is set, and perhaps the block is never built.
LEMMA IntegrateIInv == IInv /\ Integrate => IInv'
  <1> SUFFICES ASSUME IInv, Integrate PROVE IInv'  OBVIOUS
  <1>1. /\ pc = "integrate" /\ pc' = "log" /\ count' \in {0, Len(items)}
        /\ ~raised' => count' = Len(items)
        /\ UNCHANGED <<items, runId, attempts, logs, enabled>>
    BY DEF Integrate, present
  <1>2. Described'  BY <1>1 DEF IInv, Described
  <1> QED BY <1>1, <1>2, InsideIInv

\* The entry takes the number of the retrieval, and counts what is returned.
LEMMA LogIInv == IInv /\ Log => IInv'
  <1> SUFFICES ASSUME IInv, Log PROVE IInv'  OBVIOUS
  <1> DEFINE entry == [run_id |-> runId + 1, item_count |-> count]
  <1>1. /\ pc = "log" /\ pc' = "idle" /\ runId' = runId + 1 /\ attempts' = runId'
        /\ UNCHANGED <<items, count, attempts, enabled>> /\ (raised => raised')
        /\ context' = IF raised' THEN <<>> ELSE items
        /\ logs' = Append(logs, entry) \/ logs' = logs
    BY DEF Log, present, IInv, Numbered
  <1>2. /\ runId \in Nat /\ items \in Lists /\ logs \in Seq(Entries) /\ enabled
        /\ count \in {0, Len(items)} /\ (~raised => count = Len(items))
    BY <1>1 DEF IInv, Numbered, Described
  <1>3. entry \in Entries /\ entry.run_id = runId + 1 /\ entry.item_count = count
    <2>1. <<>> \in Lists /\ Len(<<>>) = 0  BY DEF Lists
    <2>2. count \in {Len(list) : list \in Lists}  BY <1>2, <2>1
    <2> QED BY <1>2, <2>2 DEF Entries
  <1>4. Described'  BY <1>1, <1>2 DEF IInv, Described
  <1>5. IF raised' THEN context' = <<>> /\ count \in {0, Len(items')}
                   ELSE count = Len(context')
    BY <1>1, <1>2
  <1> HIDE DEF entry
  <1>6. \A i \in DOMAIN logs : logs[i].run_id <= runId /\ logs[i].run_id \in Nat
    <2>1. \A i \in DOMAIN logs : logs[i] \in Entries  BY <1>2
    <2>2. \A e \in Entries : e.run_id \in Nat  BY DEF Entries
    <2> QED BY <2>1, <2>2 DEF IInv, Numbered
  <1>7. CASE logs' = logs
    <2>2. Numbered'  BY <1>1, <1>2, <1>7, <1>6 DEF IInv, Numbered
    <2>3. OneEntryPerAttempt'  BY <1>1, <1>7 DEF IInv, OneEntryPerAttempt
    <2>4. logs # <<>> => Last(logs).run_id <= runId /\ Last(logs).run_id \in Nat
      BY <1>2, <1>6 DEF Last
    <2>5. EntryDescribesContext'
      BY <1>1, <1>2, <1>7, <2>4 DEF EntryDescribesContext
    <2> QED BY <1>4, <2>2, <2>3, <2>5 DEF IInv
  <1>8. CASE logs' = Append(logs, entry)
    <2>1. /\ logs' \in Seq(Entries) /\ Len(logs') = Len(logs) + 1 /\ Len(logs) \in Nat
          /\ \A i \in 1 .. Len(logs) : logs'[i] = logs[i]
          /\ logs'[Len(logs) + 1] = entry /\ DOMAIN logs' = 1 .. Len(logs) + 1
      BY <1>2, <1>3, <1>8
    <2>2. \A i \in 1 .. Len(logs) : logs[i].run_id <= runId /\ logs[i].run_id \in Nat
      BY <1>2, <1>6
    <2>3. Numbered'
      BY <1>1, <1>2, <1>3, <2>1, <2>2 DEF Numbered
    <2>4. OneEntryPerAttempt'
      <3>1. \A i, j \in 1 .. Len(logs) : i < j => logs[i].run_id < logs[j].run_id
        BY <1>2 DEF IInv, OneEntryPerAttempt
      <3> QED BY <1>1, <1>2, <1>3, <2>1, <2>2, <3>1 DEF OneEntryPerAttempt
    <2>5. Last(logs') = entry  BY <2>1 DEF Last
    <2>6. EntryDescribesContext'
      BY <1>3, <1>5, <2>5 DEF EntryDescribesContext
    <2> QED BY <1>4, <2>3, <2>4, <2>6 DEF IInv
  <1> QED BY <1>1, <1>7, <1>8

\* Every step preserves the invariant.
LEMMA NextIInv == IInv /\ [Next]_vars => IInv'
  <1> SUFFICES ASSUME IInv, [Next]_vars PROVE IInv'  OBVIOUS
  <1>1. CASE UNCHANGED vars
    BY <1>1 DEF vars, present, IInv, Numbered, Described, OneEntryPerAttempt,
                EntryDescribesContext
  <1> QED BY <1>1, ConstructIInv, BypassIInv, RetrieveIInv, RankIInv, IntegrateIInv,
             LogIInv DEF Next

\* The invariant holds throughout.
LEMMA Invariance == Spec => []IInv
  BY InitIInv, NextIInv, PTL DEF Spec

\* ADR-029: an enabled retrieval issues exactly one entry, with its own number,
\* however often ranking fails, handlers raise or interrupts leave it.
THEOREM OneEntryForEachAttempt == Spec => []OneEntryPerAttempt
  BY Invariance, PTL DEF IInv

\* The entry a handler receives counts what reached the prompt, or, if an interrupt
\* left (memory.py:232-245), nothing or what would have reached it.
THEOREM EntriesDescribeContexts == Spec => []EntryDescribesContext
  BY Invariance, PTL DEF IInv

\* A failed import of numpy is final for every agent of the process.
THEOREM FailedImportIsFinal == Spec => NoRankingAfterFailure
  <1> DEFINE Places == numpy = "failed" => pc \notin {"query", "tasks"}
             Final == numpy = "failed" => /\ numpy' = "failed"
                                          /\ ordering' = "ranked" => UNCHANGED ordering
  <1>1. Init => Places  BY DEF Init
  <1>2. Places /\ [Next]_vars => Places'
    BY DEF Next, vars, present, Construct, Bypass, Retrieve, ImportNumpy, EncodeQuery,
           EncodeTasks, Integrate, Log, Fallback, Finish, Escape
  <1>3. Places /\ [Next]_vars => [Final]_vars
    BY DEF Next, vars, present, Construct, Bypass, Retrieve, ImportNumpy, EncodeQuery,
           EncodeTasks, Integrate, Log, Fallback, Finish, Escape
  <1> QED BY <1>1, <1>2, <1>3, PTL DEF Spec, NoRankingAfterFailure

-----------------------------------------------------------------------------
(* Types, and what reaches the prompt.                                     *)

\* Whatever made a list, it holds records, and no more than there are.
LEMMA ListFacts ==
  ASSUME NEW list \in Lists
  PROVE  list \in Seq(Records) /\ Len(list) \in 0 .. NUM_RECORDS
  <1>1. CASE list = <<>>  BY <1>1, MemoryAssumption
  <1>2. CASE \E records \in SUBSET Records : list = CoreOrder(records)
    BY <1>2, CoreOrderFacts
  <1>3. CASE \E score \in [Records -> Scores] : list = Ranked(score)
    BY <1>3, RankedFacts
  <1> QED BY <1>1, <1>2, <1>3 DEF Lists

\* A query is met by some of the records, the empty one by none.
LEMMA QueryFacts ==
  ASSUME NEW q \in Queries
  PROVE  q.matches \in SUBSET Records /\ (q.empty => q.matches = {})
  <1>1. CASE q = EmptyQuery  BY <1>1 DEF EmptyQuery
  <1>2. CASE q \in [empty : {FALSE}, matches : SUBSET Records]  BY <1>2
  <1> QED BY <1>1, <1>2 DEF Queries

Entered == [run_id : 1 .. MAX_ATTEMPTS, item_count : 0 .. NUM_RECORDS]

\* The type invariant in two halves.
Flags == /\ agents \in 0 .. MAX_AGENTS /\ enabled \in BOOLEAN /\ model \in BOOLEAN
         /\ numpy \in {"untried", "loaded", "failed"}
         /\ pc \in {"idle", "numpy", "query", "tasks", "integrate", "log"}
         /\ query \in Queries /\ raised \in BOOLEAN
         /\ ordering \in {"none", "core", "fallback", "ranked"}
         /\ runId \in 0 .. MAX_ATTEMPTS /\ attempts \in 0 .. MAX_ATTEMPTS

Data == /\ items \in Seq(Records) /\ context \in Seq(Records) /\ logs \in Seq(Entered)
        /\ count \in 0 .. NUM_RECORDS

LEMMA TypeSplit == TypeOK <=> Flags /\ Data
  BY DEF TypeOK, Flags, Data, Entered

\* The counters and flags; a retrieval in progress is one of the bounded number.
LEMMA FlagsInductive ==
  /\ Init => Flags
  /\ IInv /\ Flags /\ [Next]_vars => Flags'
  <1> USE MemoryAssumption
  <1>1. EmptyQuery \in Queries /\ 0 \in 0 .. MAX_AGENTS /\ 0 \in 0 .. MAX_ATTEMPTS
    BY DEF Queries
  <1>2. ASSUME Init PROVE Flags
    <2>1. /\ agents = 0 /\ enabled = FALSE /\ model = FALSE /\ numpy = "untried"
          /\ pc = "idle" /\ query = EmptyQuery /\ raised = FALSE
          /\ ordering = "none" /\ runId = 0 /\ attempts = 0
      BY <1>2 DEF Init
    <2> QED BY <1>1, <2>1 DEF Flags
  <1>3. ASSUME IInv, Flags, [Next]_vars PROVE Flags'
    <2>1. CASE UNCHANGED vars  BY <1>3, <2>1 DEF vars, present, Flags
    <2>2. CASE Construct
      <3>1. /\ agents < MAX_AGENTS /\ agents' = agents + 1
            /\ enabled' \in BOOLEAN /\ model' \in BOOLEAN
            /\ runId' = 0 /\ attempts' = 0 /\ query' = EmptyQuery /\ raised' = FALSE
            /\ ordering' = "none" /\ UNCHANGED <<numpy, pc>>
        BY <2>2 DEF Construct
      <3>2. agents' \in 0 .. MAX_AGENTS  BY <1>3, <3>1 DEF Flags
      <3> QED BY <1>1, <1>3, <3>1, <3>2 DEF Flags
    <2>3. CASE Bypass  BY <1>3, <2>3 DEF Bypass, present, Flags
    <2>4. CASE Retrieve
      <3>1. /\ pc' \in {"integrate", "numpy"} /\ ordering' \in {"none", "core"} /\ raised' = FALSE
            /\ query' \in Queries /\ attempts < MAX_ATTEMPTS /\ attempts' = attempts + 1
            /\ UNCHANGED <<present, numpy, runId>>
        BY <2>4 DEF Retrieve
      <3>2. attempts' \in 0 .. MAX_ATTEMPTS  BY <1>3, <3>1 DEF Flags
      <3> QED BY <1>3, <3>1, <3>2 DEF Flags, present
    <2>5. CASE ImportNumpy \/ EncodeQuery \/ EncodeTasks
      BY <1>3, <2>5 DEF ImportNumpy, EncodeQuery, EncodeTasks, Fallback, Finish, Escape,
                        present, Flags
    <2>6. CASE Integrate
      BY <1>3, <2>6 DEF Integrate, present, Flags
    <2>7. CASE Log
      <3>1. /\ pc' = "idle" /\ runId' = runId + 1 /\ attempts = runId + 1
            /\ (UNCHANGED raised \/ raised' = TRUE)
            /\ UNCHANGED <<present, numpy, query, ordering, attempts>>
        BY <1>3, <2>7 DEF Log, IInv, Numbered
      <3>2. runId' \in 0 .. MAX_ATTEMPTS  BY <1>3, <3>1 DEF Flags
      <3> QED BY <1>3, <3>1, <3>2 DEF Flags, present
    <2> QED BY <1>3, <2>1, <2>2, <2>3, <2>4, <2>5, <2>6, <2>7 DEF Next
  <1> QED BY <1>2, <1>3

\* The lists and the entries; an entry takes the number of its retrieval.
LEMMA DataInductive ==
  /\ Init => Data
  /\ IInv /\ Flags /\ Data /\ [Next]_vars => Data'
  <1> USE MemoryAssumption
  <1>1. \A S : <<>> \in Seq(S)  OBVIOUS
  <1>2. Init => Data  BY <1>1 DEF Init, Data
  <1>3. ASSUME IInv, Flags, Data, [Next]_vars PROVE Data'
    <2>1. IInv'  BY <1>3, NextIInv
    <2>2. items' \in Seq(Records) /\ count' \in 0 .. NUM_RECORDS
      BY <2>1, ListFacts DEF IInv, Described
    <2>3. CASE \/ UNCHANGED vars \/ Construct \/ Bypass \/ Retrieve
               \/ ImportNumpy \/ EncodeQuery \/ EncodeTasks \/ Integrate
      <3>1. context' \in {context, <<>>} /\ logs' \in {logs, <<>>}
        BY <2>3 DEF vars, Construct, Bypass, Retrieve, ImportNumpy, EncodeQuery,
                    EncodeTasks, Integrate
      <3>2. context' \in Seq(Records) /\ logs' \in Seq(Entered)
        BY <1>1, <1>3, <3>1 DEF Data
      <3> QED BY <2>2, <3>2 DEF Data, Entered
    <2>4. CASE Log
      <3> DEFINE entry == [run_id |-> runId + 1, item_count |-> count]
      <3>1. /\ runId + 1 = attempts /\ attempts \in 0 .. MAX_ATTEMPTS
            /\ runId \in 0 .. MAX_ATTEMPTS
        BY <1>3, <2>4 DEF Log, IInv, Numbered, Flags
      <3>2. items \in Seq(Records) /\ count \in 0 .. NUM_RECORDS
        BY <1>3 DEF Data
      <3>3. entry \in Entered  BY <3>1, <3>2 DEF Entered
      <3>4. logs' \in {logs, Append(logs, entry)} /\ context' \in {<<>>, items}
        BY <2>4 DEF Log
      <3> HIDE DEF entry
      <3>5. logs' \in Seq(Entered)  BY <1>3, <3>3, <3>4, SMTT(40) DEF Data
      <3>6. context' \in Seq(Records)  BY <1>1, <3>2, <3>4
      <3> QED BY <2>2, <3>5, <3>6 DEF Data, Entered
    <2> QED BY <1>3, <2>3, <2>4 DEF Next
  <1> QED BY <1>2, <1>3

\* Every variable within its bounds, the numbers in the entries included.
THEOREM MemoryTypeCorrect == Spec => []TypeOK
  BY FlagsInductive, DataInductive, TypeSplit, Invariance, PTL DEF Spec

\* A list that has every record matching q, none twice.
Answers(list, q) == q.matches \subseteq ToSet(list) /\ IsInjective(list)

\* A list with the most recent record first.
NewestOnTop(list) == \A i, j \in DOMAIN list : i < j => list[i] > list[j]

\* A list keeps the promises of the prompt from where it is made to where it is read.
Kept ==
    /\ query \in Queries
    /\ ~enabled => attempts = 0
    /\ pc \in {"integrate", "log"} /\ ~raised => Answers(items, query)
    /\ pc \in {"integrate", "log"} /\ ordering # "ranked" => NewestOnTop(items)
    /\ pc = "idle" /\ attempts > 0 /\ ~raised => Answers(context, query)
    /\ pc = "idle" /\ ordering # "ranked" => NewestOnTop(context)

\* The empty list promises nothing to break.
LEMMA EmptyList == NewestOnTop(<<>>) /\ IsInjective(<<>>)
  BY DEF NewestOnTop, IsInjective

\* So do the lists that ranking makes or falls back on.
LEMMA AllRecords ==
  ASSUME NEW q \in Queries
  PROVE  /\ Answers(CoreOrder(Records), q) /\ NewestOnTop(CoreOrder(Records))
         /\ Answers(CoreOrder(q.matches), q) /\ NewestOnTop(CoreOrder(q.matches))
         /\ \A score \in [Records -> Scores] : Answers(Ranked(score), q)
  <1>1. q.matches \in SUBSET Records /\ Records \in SUBSET Records  BY QueryFacts
  <1>2. Answers(CoreOrder(Records), q) /\ NewestOnTop(CoreOrder(Records))
    BY <1>1, CoreOrderFacts DEF Answers, NewestOnTop
  <1>3. Answers(CoreOrder(q.matches), q) /\ NewestOnTop(CoreOrder(q.matches))
    BY <1>1, CoreOrderFacts DEF Answers, NewestOnTop
  <1>4. \A score \in [Records -> Scores] : Answers(Ranked(score), q)
    BY <1>1, RankedFacts DEF Answers
  <1> QED BY <1>2, <1>3, <1>4

\* Every step keeps those promises.
LEMMA KeptInductive ==
  /\ Init => Kept
  /\ IInv /\ Kept /\ [Next]_vars => Kept'
  <1>1. ASSUME Init PROVE Kept
    BY <1>1, EmptyList DEF Init, Kept, Queries
  <1>2. ASSUME IInv, Kept, [Next]_vars PROVE Kept'
    <2>0. attempts \in Nat /\ runId \in Nat /\ query \in Queries
      BY <1>2 DEF IInv, Numbered, Kept
    <2>1. CASE UNCHANGED vars
      BY <1>2, <2>1 DEF vars, present, Kept, Answers, NewestOnTop
    <2>2. CASE Construct
      BY <2>2, EmptyList DEF Construct, Kept, Queries, EmptyQuery
    <2>3. CASE Bypass
      <3>1. /\ pc' = "idle" /\ attempts' = 0 /\ query' \in Queries /\ context' = <<>>
        BY <1>2, <2>3 DEF Bypass, Kept
      <3> QED BY <3>1, EmptyList DEF Kept
    <2>4. CASE Retrieve
      <3>1. /\ attempts' = attempts + 1 /\ enabled' /\ raised' = FALSE
            /\ pc' \in {"numpy", "integrate"}
            /\ \/ query'.empty /\ items' = <<>>
               \/ pc' = "numpy"
               \/ items' = CoreOrder(query'.matches)
            /\ query' \in Queries
        BY <2>4 DEF Retrieve, present
      <3>2. pc' = "integrate" => Answers(items', query') /\ NewestOnTop(items')
        <4>1. CASE query'.empty /\ items' = <<>>
          <5>1. query'.matches = {}  BY <3>1, <4>1, QueryFacts
          <5> QED BY <4>1, <5>1, EmptyList DEF Answers
        <4>2. CASE items' = CoreOrder(query'.matches)  BY <3>1, <4>2, AllRecords
        <4> QED BY <3>1, <4>1, <4>2
      <3> QED BY <3>1, <3>2 DEF Kept
    <2>5. CASE ImportNumpy \/ EncodeQuery \/ EncodeTasks
      <3>1. /\ pc \in {"numpy", "query", "tasks"} /\ items = <<>> /\ enabled
            /\ UNCHANGED <<query, attempts, enabled>>
        BY <1>2, <2>5 DEF IInv, Described, ImportNumpy, EncodeQuery, EncodeTasks, present
      <3>2. \/ pc' \in {"query", "tasks"}
            \/ Fallback
            \/ Escape
            \/ \E score \in [Records -> Scores] : Finish(Ranked(score), "ranked")
        BY <2>5 DEF ImportNumpy, EncodeQuery, EncodeTasks
      <3>3. CASE pc' \in {"query", "tasks"}  BY <2>0, <3>1, <3>3 DEF Kept
      <3>4. CASE Fallback
        <4>1. pc' = "integrate" /\ items' = CoreOrder(Records)  BY <3>4 DEF Fallback, Finish
        <4>2. Answers(items', query') /\ NewestOnTop(items')
          BY <2>0, <3>1, <4>1, AllRecords
        <4> QED BY <2>0, <3>1, <4>1, <4>2 DEF Kept
      <3>5. CASE Escape
        <4>1. pc' = "log" /\ raised' /\ items' = <<>>  BY <3>1, <3>5 DEF Escape
        <4> QED BY <2>0, <3>1, <4>1, EmptyList DEF Kept
      <3>6. CASE \E score \in [Records -> Scores] : Finish(Ranked(score), "ranked")
        <4>1. PICK score \in [Records -> Scores] :
                 pc' = "integrate" /\ items' = Ranked(score) /\ ordering' = "ranked"
          BY <3>6 DEF Finish
        <4>2. Answers(items', query')  BY <2>0, <3>1, <4>1, AllRecords
        <4> QED BY <2>0, <3>1, <4>1, <4>2 DEF Kept
      <3> QED BY <3>2, <3>3, <3>4, <3>5, <3>6
    <2>6. CASE Integrate
      <3>1. /\ pc = "integrate" /\ pc' = "log" /\ (~raised' => ~raised)
            /\ UNCHANGED <<enabled, items, query, ordering, attempts>>
        BY <1>2, <2>6 DEF Integrate, present, IInv, Described
      <3>2. ~raised' => Answers(items', query')  BY <1>2, <3>1 DEF Kept
      <3>3. ordering' # "ranked" => NewestOnTop(items')  BY <1>2, <3>1 DEF Kept
      <3> QED BY <1>2, <3>1, <3>2, <3>3 DEF Kept
    <2>7. CASE Log
      <3>1. /\ pc = "log" /\ pc' = "idle" /\ (~raised' => ~raised)
            /\ context' = IF raised' THEN <<>> ELSE items
            /\ UNCHANGED <<enabled, query, ordering, attempts>>
        BY <2>7 DEF Log, present
      <3>2. enabled  BY <1>2, <3>1 DEF IInv, Described
      <3>3. ~raised' => Answers(context', query')
        BY <1>2, <3>1 DEF Kept
      <3>4. ordering # "ranked" => NewestOnTop(context')
        BY <1>2, <3>1, EmptyList DEF Kept
      <3> QED BY <2>0, <3>1, <3>2, <3>3, <3>4 DEF Kept
    <2> QED BY <1>2, <2>1, <2>2, <2>3, <2>4, <2>5, <2>6, <2>7 DEF Next
  <1> QED BY <1>1, <1>2

\* Whatever fails on the way, a retrieval that returns has put every matching record
\* in the prompt, and none twice (similarity.py:138-180).
THEOREM MatchesReachThePrompt == Spec => []NoMatchIsLost
  <1>1. Kept => NoMatchIsLost  BY DEF Kept, NoMatchIsLost, Answers
  <1> QED BY <1>1, KeptInductive, Invariance, PTL DEF Spec

\* The header's "most recent first" is true of a world model of any size unless an
\* embedding ranked it (memory.py:152, similarity.py:66-81).
THEOREM HeaderIsTrue == Spec => []HeaderIsTrueUnlessRanked
  <1>1. Kept => HeaderIsTrueUnlessRanked
    BY DEF Kept, HeaderIsTrueUnlessRanked, NewestOnTop
  <1> QED BY <1>1, KeptInductive, Invariance, PTL DEF Spec
=============================================================================
