------------------------ MODULE PasswordList_proofs ------------------------
(***************************************************************************)
(* Proofs about PasswordList, for a memory, a range of the use counter and *)
(* names of any size, when power is lost only between operations: the      *)
(* lists chain the used chunks and are in order, whatever the user does.   *)
(*                                                                         *)
(* The argument: the writes that an operation has yet to perform lead to   *)
(* one memory, Outcome, that does not change while they are performed, and *)
(* in which each list is a sequence of the used chunks.  The operations    *)
(* then act on the sequence: append, remove, swap two neighbours.          *)
(***************************************************************************)
EXTENDS PasswordList, FiniteSetTheorems, WellFoundedInduction, TLAPS

Last == MAXIMUM_NUMBER_OF_PWD - 1    \* the chunk that is never used

Fram ==
  [used : SUBSET (0 .. Last - 1), num : 0 .. Last,
   first : [Lists -> Ids], prev : [Lists -> [Ids -> Ptr]], next : [Lists -> [Ids -> Ptr]],
   count : [Ids -> 0 .. COUNT_MOD - 1], name : [Ids -> Names]]

Memory ==
  [used |-> used, num |-> NUM_PWD, first |-> first, prev |-> prev, next |-> next,
   count |-> count, name |-> name]

Elements(s) == {s[n] : n \in DOMAIN s}

\* The writes of the set W to a place of the memory, and the value they leave there.
To(W, fields, l, c) == {w \in W : w.field \in fields /\ w.list = l /\ w.id = c}
Value(W, old) == IF W = {} THEN old ELSE (CHOOSE w \in W : TRUE).val

\* The memory M when the writes of W are performed.
After(M, W) ==
  LET clear(c) == \E w \in W : w.field = "clear" /\ w.id = c
  IN [used  |-> {c \in Ids : \/ \E w \in W : w.field = "set" /\ w.id = c
                             \/ c \in M.used /\ ~ \E w \in W : w.field = "unset" /\ w.id = c},
      num   |-> Value({w \in W : w.field = "num"}, M.num),
      first |-> [l \in Lists |-> Value({w \in W : w.field = "first" /\ w.list = l}, M.first[l])],
      prev  |-> [l \in Lists |-> [c \in Ids |-> IF clear(c) THEN 0 ELSE Value(To(W, {"prev"}, l, c), M.prev[l][c])]],
      next  |-> [l \in Lists |-> [c \in Ids |-> IF clear(c) THEN 0 ELSE Value(To(W, {"next"}, l, c), M.next[l][c])]],
      count |-> [c \in Ids |-> Value({w \in W : w.field \in {"count", "clear"} /\ w.id = c}, M.count[c])],
      name  |-> [c \in Ids |-> Value({w \in W : w.field \in {"name", "clear"} /\ w.id = c}, M.name[c])]]

Outcome == After(Memory, Elements(todo))

\* A write puts the value that the memory F has at its place ...
Agrees(F, w) ==
  /\ w.field = "set" => w.id \in F.used
  /\ w.field = "unset" => w.id \notin F.used
  /\ w.field = "num" => F.num = w.val
  /\ w.field = "first" => F.first[w.list] = w.val
  /\ w.field = "prev" => F.prev[w.list][w.id] = w.val
  /\ w.field = "next" => F.next[w.list][w.id] = w.val
  /\ w.field = "clear" => \A l \in Lists : F.prev[l][w.id] = 0 /\ F.next[l][w.id] = 0
  /\ w.field \in {"count", "clear"} => F.count[w.id] = w.val
  /\ w.field \in {"name", "clear"} => F.name[w.id] = w.val

\* ... and at the places where F and M differ there is a write.
Covers(M, W, F) ==
  /\ \A c \in Ids : \/ c \in F.used <=> c \in M.used
                    \/ \E w \in W : w.field \in {"set", "unset"} /\ w.id = c
  /\ F.num = M.num \/ \E w \in W : w.field = "num"
  /\ \A l \in Lists : F.first[l] = M.first[l] \/ \E w \in W : w.field = "first" /\ w.list = l
  /\ \A l \in Lists, c \in Ids :
       /\ \/ F.prev[l][c] = M.prev[l][c]
          \/ \E w \in W : w.id = c /\ (w.field = "clear" \/ (w.field = "prev" /\ w.list = l))
       /\ \/ F.next[l][c] = M.next[l][c]
          \/ \E w \in W : w.id = c /\ (w.field = "clear" \/ (w.field = "next" /\ w.list = l))
  /\ \A c \in Ids :
       /\ F.count[c] = M.count[c] \/ \E w \in W : w.id = c /\ w.field \in {"count", "clear"}
       /\ F.name[c] = M.name[c] \/ \E w \in W : w.id = c /\ w.field \in {"name", "clear"}

Leads(M, W, F) == (\A w \in W : Agrees(F, w)) /\ Covers(M, W, F)
-----------------------------------------------------------------------------
\* The sequence s of chunks is the list l of the memory F.
Order(F, l, s) ==
  /\ s \in [1 .. F.num -> F.used]
  /\ \A m, n \in 1 .. F.num : s[m] = s[n] => m = n
  /\ \A c \in F.used : \E n \in 1 .. F.num : s[n] = c
  /\ F.first[l] = IF F.num = 0 THEN 0 ELSE s[1]
  /\ \A n \in 1 .. F.num :
       /\ F.next[l][s[n]] = IF n = F.num THEN Nil ELSE s[n + 1]
       /\ F.prev[l][s[n]] = IF n = 1 THEN Nil ELSE s[n - 1]

InOrder(F, l, c, d) == IF l = "use" THEN F.count[c] >= F.count[d] ELSE F.name[c] <= F.name[d]
SortedTo(F, l, s, k) == \A n \in 1 .. k - 1 : InOrder(F, l, s[n], s[n + 1])

\* Where the sort of the list stands: the chunks before current are in order,
\* and so are those up to the sorting position if current is left out.
Walk(F, l, s) ==
  IF current = Nil THEN sorting_position = 0 /\ SortedTo(F, l, s, F.num)
  ELSE \E n \in 1 .. F.num :
         /\ s[n] = current /\ SortedTo(F, l, s, n - 1)
         /\ \/ sorting_position = current
            \/ /\ n < F.num /\ sorting_position = s[n + 1]
               /\ InOrder(F, l, s[n], s[n + 1])
               /\ n > 1 => InOrder(F, l, s[n - 1], s[n + 1])

Arranged(F, l) ==
  \E s \in [1 .. F.num -> F.used] :
    /\ Order(F, l, s)
    /\ l \notin Elements(plan) => SortedTo(F, l, s, F.num)
    /\ Begun /\ l = Head(plan) => Walk(F, l, s)

\* The variables that are not in the memory.
LocalsOK ==
  /\ method \in {"none", "use", "alpha"} /\ CURRENT_PASSWORD_ID \in Ids
  /\ todo \in Seq(WriteSet)
  /\ current \in Ptr /\ sorting_position \in Ptr

Control ==
  /\ pc \in {"locked", "menu", "sort"}
  /\ pc # "sort" => todo = <<>> /\ plan = <<>>
  /\ plan \in {<<>>, <<"use">>, <<"alpha">>, <<"use", "alpha">>}
  /\ Begun => plan # <<>>
  /\ ~Begun => current = Nil
  /\ pc = "locked" => CURRENT_PASSWORD_ID = 0

Catalogue(F) ==
  /\ F \in Fram
  /\ F.num = 0 => CURRENT_PASSWORD_ID = 0
  /\ F.num # 0 /\ pc # "locked" => CURRENT_PASSWORD_ID \in F.used
  /\ Begun => F.num >= 2
  /\ \A l \in Lists, c \in Ids \ F.used : F.next[l][c] = 0
  /\ \A l \in Lists : Arranged(F, l)

ListInv ==
  /\ Memory \in Fram /\ LocalsOK /\ Control
  /\ Leads(Memory, Elements(todo), Outcome)
  /\ Catalogue(Outcome)
-----------------------------------------------------------------------------
(***************************************************************************)
(* Finite sequences of writes, numbers and sets.                           *)
(***************************************************************************)
\* The chunks, and the end mark after them.
LEMMA Sizes ==
  /\ MAXIMUM_NUMBER_OF_PWD \in Nat /\ MAXIMUM_NUMBER_OF_PWD >= 2
  /\ Last \in Nat /\ Last >= 1 /\ Nil = Last + 1
  /\ Ids = 0 .. Last /\ Ptr = Ids \cup {Nil} /\ 0 \in Ids /\ Last \in Ids
  /\ Nil \notin Ids /\ Nil \in Ptr
  /\ \A c \in 0 .. Last - 1 : c \in Ids
  BY ListAssumption DEF Last, Nil, Ids, Ptr

\* A write stands in a sequence or in the other.
LEMMA ElementsConcat ==
  ASSUME NEW S, NEW s \in Seq(S), NEW t \in Seq(S)
  PROVE  s \o t \in Seq(S) /\ Elements(s \o t) = Elements(s) \cup Elements(t)
  <1>1. s \o t \in Seq(S) /\ Len(s \o t) = Len(s) + Len(t)
        /\ Len(s) \in Nat /\ Len(t) \in Nat
    OBVIOUS
  <1>2. \A n \in 1 .. Len(s) + Len(t) :
          (s \o t)[n] = IF n <= Len(s) THEN s[n] ELSE t[n - Len(s)]
    OBVIOUS
  <1>3. ASSUME NEW w \in Elements(s \o t) PROVE w \in Elements(s) \cup Elements(t)
    <2>1. PICK n \in 1 .. Len(s) + Len(t) : w = (s \o t)[n]
      BY <1>1 DEF Elements
    <2>2. n <= Len(s) \/ n - Len(s) \in 1 .. Len(t)
      BY <1>1
    <2> QED
      BY <1>1, <1>2, <2>1, <2>2 DEF Elements
  <1>4. ASSUME NEW w \in Elements(s) PROVE w \in Elements(s \o t)
    <2>1. PICK n \in 1 .. Len(s) : w = s[n]
      BY DEF Elements
    <2>2. n \in 1 .. Len(s) + Len(t) /\ w = (s \o t)[n]
      BY <1>1, <1>2, <2>1
    <2> QED
      BY <1>1, <2>2 DEF Elements
  <1>5. ASSUME NEW w \in Elements(t) PROVE w \in Elements(s \o t)
    <2>1. PICK n \in 1 .. Len(t) : w = t[n]
      BY DEF Elements
    <2>2. n + Len(s) \in 1 .. Len(s) + Len(t) /\ ~(n + Len(s) <= Len(s)) /\ (n + Len(s)) - Len(s) = n
      BY <1>1
    <2>3. w = (s \o t)[n + Len(s)]
      BY <1>2, <2>1, <2>2
    <2> QED
      BY <1>1, <2>2, <2>3 DEF Elements
  <1> QED
    BY <1>1, <1>3, <1>4, <1>5

\* Performing the first write leaves the others.
LEMMA ElementsTail ==
  ASSUME NEW S, NEW s \in Seq(S), s # <<>>
  PROVE  /\ Head(s) \in S /\ Tail(s) \in Seq(S)
         /\ Elements(s) = {Head(s)} \cup Elements(Tail(s))
  <1>1. Len(s) \in Nat /\ Len(s) >= 1 /\ Head(s) = s[1] /\ Tail(s) \in Seq(S)
        /\ Len(Tail(s)) = Len(s) - 1 /\ Head(s) \in S
    OBVIOUS
  <1>2. \A n \in 1 .. Len(s) - 1 : Tail(s)[n] = s[n + 1]
    OBVIOUS
  <1>3. ASSUME NEW w \in Elements(s) PROVE w = Head(s) \/ w \in Elements(Tail(s))
    <2>1. PICK n \in 1 .. Len(s) : w = s[n]
      BY DEF Elements
    <2>2. CASE n = 1
      BY <1>1, <2>1, <2>2
    <2>3. CASE n # 1
      <3>1. n - 1 \in 1 .. Len(s) - 1 /\ (n - 1) + 1 = n
        BY <1>1, <2>3
      <3>2. n - 1 \in DOMAIN Tail(s) /\ Tail(s)[n - 1] = w
        BY <1>1, <1>2, <2>1, <3>1
      <3> QED
        BY <3>2 DEF Elements
    <2> QED
      BY <2>2, <2>3
  <1>4. ASSUME NEW w \in Elements(Tail(s)) PROVE w \in Elements(s)
    <2>1. PICK n \in 1 .. Len(s) - 1 : w = Tail(s)[n]
      BY <1>1 DEF Elements
    <2>2. n + 1 \in 1 .. Len(s) /\ w = s[n + 1]
      BY <1>1, <1>2, <2>1
    <2> QED
      BY <2>2 DEF Elements
  <1>5. Head(s) \in Elements(s)
    BY <1>1 DEF Elements
  <1> QED
    BY <1>1, <1>3, <1>4, <1>5

\* There is nothing in the empty sequence.
LEMMA ElementsEmpty ==
  /\ Elements(<<>>) = {}
  /\ \A S : <<>> \in Seq(S)
  BY DEF Elements

\* The least of a set of numbers, and the greatest of a bounded one.
LEMMA LeastExists ==
  ASSUME NEW T \in SUBSET Nat, T # {}
  PROVE  Least(T) \in T /\ \A y \in T : Least(T) <= y
  <1>1. PICK m \in T : m \in Nat
    OBVIOUS
  <1>2. \A z \in T : z \in Nat
    OBVIOUS
  <1> DEFINE upto(x) == {y \in T : y <= x}
             family == {X \in SUBSET (0 .. m) : \E x \in T : x <= m /\ X = upto(x)}
  <1>3. IsFiniteSet(0 .. m)
    BY <1>1, FS_Interval
  <1>4. family \subseteq FiniteSubsetsOf(0 .. m)
    BY <1>3, FS_Subset DEF FiniteSubsetsOf
  <1>5. ASSUME NEW x \in T, x <= m PROVE upto(x) \in family
    <2>1. \A z \in upto(x) : z \in 0 .. m
      BY <1>1, <1>2, <1>5
    <2>2. upto(x) \in SUBSET (0 .. m)
      BY <2>1
    <2> QED
      BY <1>5, <2>2
  <1>6. family # {}
    <2>1. m <= m
      BY <1>1
    <2> QED
      BY <1>5, <2>1
  <1> HIDE DEF family
  <1>7. PICK X \in family : \A Y \in family : ~(<<Y, X>> \in StrictSubsetOrdering(0 .. m))
    BY <1>4, <1>6, FS_StrictSubsetOrderingWellFounded, WFMin
  <1>8. PICK x \in T : x <= m /\ X = upto(x)
    BY DEF family
  <1>9. ASSUME NEW y \in T PROVE x <= y
    <2> SUFFICES ASSUME y < x PROVE FALSE
      BY <1>2
    <2>1. y <= m
      BY <1>1, <1>2, <1>8
    <2>2. \A z \in upto(y) : z \in upto(x)
      BY <1>2
    <2>3. x \in upto(x) /\ x \notin upto(y)
      BY <1>2
    <2> QED
      BY <1>5, <1>7, <1>8, <2>1, <2>2, <2>3 DEF StrictSubsetOrdering, family
  <1> QED
    BY <1>9 DEF Least

\* The greatest is what lies least below the end mark.
LEMMA GreatestExists ==
  ASSUME NEW T \in SUBSET Ptr, T # {}
  PROVE  Greatest(T) \in T /\ \A y \in T : y <= Greatest(T)
  <1> DEFINE U == {y \in Ptr : \E x \in T : y = Nil - x}
  <1>1. \A z \in T : z \in Int /\ z \in 0 .. Nil /\ Nil - z \in U
    BY Sizes DEF Ptr, Nil
  <1>2. U \in SUBSET Ptr /\ U # {}
    BY <1>1
  <1> HIDE DEF U
  <1>3. PICK u \in U : \A y \in U : u <= y
    <2>1. U \in SUBSET Nat
      BY <1>2, Sizes DEF Ptr
    <2> QED
      BY <1>2, <2>1, LeastExists
  <1>4. PICK x \in T : u = Nil - x
    BY DEF U
  <1>5. \A y \in T : y <= x
    BY <1>1, <1>3, <1>4, Sizes
  <1> QED
    BY <1>5 DEF Greatest
-----------------------------------------------------------------------------
(***************************************************************************)
(* The memory that a set of writes leads to.                               *)
(***************************************************************************)
\* Writes of one value leave that value.
LEMMA ValueIs ==
  ASSUME NEW W, NEW old, NEW x, \A w \in W : w.val = x, W = {} => old = x
  PROVE  Value(W, old) = x
  BY DEF Value

\* There is no other memory than After that the writes lead to.
LEMMA AfterIs ==
  ASSUME NEW M \in Fram, NEW W \in SUBSET WriteSet, NEW F \in Fram, Leads(M, W, F)
  PROVE  After(M, W) = F
  <1> DEFINE clear(c) == \E w \in W : w.field = "clear" /\ w.id = c
             usedA == {c \in Ids : \/ \E w \in W : w.field = "set" /\ w.id = c
                                   \/ c \in M.used /\ ~ \E w \in W : w.field = "unset" /\ w.id = c}
             link(f, l, c, old) == IF clear(c) THEN 0 ELSE Value(To(W, {f}, l, c), old)
  <1>0. /\ F.used \in SUBSET Ids /\ F.first \in [Lists -> Ids]
        /\ F.prev \in [Lists -> [Ids -> Ptr]] /\ F.next \in [Lists -> [Ids -> Ptr]]
        /\ F.count \in [Ids -> 0 .. COUNT_MOD - 1] /\ F.name \in [Ids -> Names]
        /\ F = [used |-> F.used, num |-> F.num, first |-> F.first, prev |-> F.prev,
                next |-> F.next, count |-> F.count, name |-> F.name]
    BY Sizes DEF Fram
  <1>1. \A w \in W : Agrees(F, w) /\ w.id \in Ids /\ w.list \in Lists
    BY DEF Leads, WriteSet
  <1>2. Covers(M, W, F)
    BY DEF Leads
  <1>3. usedA = F.used
    <2>1. ASSUME NEW c \in Ids
          PROVE  c \in usedA <=> c \in F.used
      <3>1. CASE \E w \in W : w.field \in {"set", "unset"} /\ w.id = c
        BY <1>1, <3>1 DEF Agrees
      <3>2. CASE ~ \E w \in W : w.field \in {"set", "unset"} /\ w.id = c
        BY <1>2, <3>2 DEF Covers
      <3> QED
        BY <3>1, <3>2
    <2> QED
      BY <1>0, <2>1
  <1>4. Value({w \in W : w.field = "num"}, M.num) = F.num
    <2> DEFINE U == {w \in W : w.field = "num"}
    <2>1. \A w \in U : w.val = F.num
      BY <1>1 DEF Agrees
    <2>2. U = {} => M.num = F.num
      BY <1>2 DEF Covers
    <2> HIDE DEF U
    <2>3. Value(U, M.num) = F.num
      BY <2>1, <2>2, ValueIs
    <2> QED
      BY <2>3 DEF U
  <1>5. [l \in Lists |-> Value({w \in W : w.field = "first" /\ w.list = l}, M.first[l])] = F.first
    <2>1. ASSUME NEW l \in Lists
          PROVE  Value({w \in W : w.field = "first" /\ w.list = l}, M.first[l]) = F.first[l]
      <3> DEFINE U == {w \in W : w.field = "first" /\ w.list = l}
      <3>1. \A w \in U : w.val = F.first[l]
        BY <1>1 DEF Agrees
      <3>2. U = {} => M.first[l] = F.first[l]
        BY <1>2 DEF Covers
      <3> HIDE DEF U
      <3>3. Value(U, M.first[l]) = F.first[l]
        BY <3>1, <3>2, ValueIs
      <3> QED
        BY <3>3 DEF U
    <2> QED
      BY <1>0, <2>1
  <1>6. [l \in Lists |-> [c \in Ids |-> link("prev", l, c, M.prev[l][c])]] = F.prev
    <2>1. ASSUME NEW l \in Lists, NEW c \in Ids
          PROVE  link("prev", l, c, M.prev[l][c]) = F.prev[l][c]
      <3>1. CASE clear(c)
        BY <1>1, <3>1 DEF Agrees
      <3>2. CASE ~clear(c)
        <4>1. \A w \in To(W, {"prev"}, l, c) : w.val = F.prev[l][c]
          BY <1>1 DEF To, Agrees
        <4>2. To(W, {"prev"}, l, c) = {} => M.prev[l][c] = F.prev[l][c]
          BY <1>2, <3>2 DEF To, Covers
        <4> QED
          BY <3>2, <4>1, <4>2, ValueIs
      <3> QED
        BY <3>1, <3>2
    <2> HIDE DEF link
    <2> QED
      BY <1>0, <2>1
  <1>7. [l \in Lists |-> [c \in Ids |-> link("next", l, c, M.next[l][c])]] = F.next
    <2>1. ASSUME NEW l \in Lists, NEW c \in Ids
          PROVE  link("next", l, c, M.next[l][c]) = F.next[l][c]
      <3>1. CASE clear(c)
        BY <1>1, <3>1 DEF Agrees
      <3>2. CASE ~clear(c)
        <4>1. \A w \in To(W, {"next"}, l, c) : w.val = F.next[l][c]
          BY <1>1 DEF To, Agrees
        <4>2. To(W, {"next"}, l, c) = {} => M.next[l][c] = F.next[l][c]
          BY <1>2, <3>2 DEF To, Covers
        <4> QED
          BY <3>2, <4>1, <4>2, ValueIs
      <3> QED
        BY <3>1, <3>2
    <2> HIDE DEF link
    <2> QED
      BY <1>0, <2>1
  <1>8. [c \in Ids |-> Value({w \in W : w.field \in {"count", "clear"} /\ w.id = c}, M.count[c])] = F.count
    <2>1. ASSUME NEW c \in Ids
          PROVE  Value({w \in W : w.field \in {"count", "clear"} /\ w.id = c}, M.count[c]) = F.count[c]
      <3> DEFINE U == {w \in W : w.field \in {"count", "clear"} /\ w.id = c}
      <3>1. \A w \in U : w.val = F.count[c]
        BY <1>1 DEF Agrees
      <3>2. U = {} => M.count[c] = F.count[c]
        BY <1>2 DEF Covers
      <3> HIDE DEF U
      <3>3. Value(U, M.count[c]) = F.count[c]
        BY <3>1, <3>2, ValueIs
      <3> QED
        BY <3>3 DEF U
    <2> QED
      BY <1>0, <2>1
  <1>9. [c \in Ids |-> Value({w \in W : w.field \in {"name", "clear"} /\ w.id = c}, M.name[c])] = F.name
    <2>1. ASSUME NEW c \in Ids
          PROVE  Value({w \in W : w.field \in {"name", "clear"} /\ w.id = c}, M.name[c]) = F.name[c]
      <3> DEFINE U == {w \in W : w.field \in {"name", "clear"} /\ w.id = c}
      <3>1. \A w \in U : w.val = F.name[c]
        BY <1>1 DEF Agrees
      <3>2. U = {} => M.name[c] = F.name[c]
        BY <1>2 DEF Covers
      <3> HIDE DEF U
      <3>3. Value(U, M.name[c]) = F.name[c]
        BY <3>1, <3>2, ValueIs
      <3> QED
        BY <3>3 DEF U
    <2> QED
      BY <1>0, <2>1
  <1> QED
    BY <1>0, <1>3, <1>4, <1>5, <1>6, <1>7, <1>8, <1>9 DEF After
-----------------------------------------------------------------------------
(***************************************************************************)
(* Lists as sequences: what a walk along a list meets, and what becomes of *)
(* the sequence when a chunk is appended, removed or swapped.              *)
(***************************************************************************)
\* A list has as many places as there are used chunks.
LEMMA OrderNumber ==
  ASSUME NEW F \in Fram, NEW l \in Lists, NEW s, Order(F, l, s)
  PROVE  IsFiniteSet(F.used) /\ Cardinality(F.used) = F.num
  <1>1. F.num \in Nat
    BY Sizes DEF Fram
  <1>2. s \in Bijection(1 .. F.num, F.used)
    BY DEF Order, Bijection, Injection, Surjection, IsInjective
  <1>3. IsFiniteSet(1 .. F.num) /\ Cardinality(1 .. F.num) = F.num
    BY <1>1, FS_Interval
  <1> QED
    BY <1>2, <1>3, FS_Bijection DEF ExistsBijection

\* The memory is the variables of the FRAM.
LEMMA MemoryFields ==
  /\ Memory.used = used /\ Memory.num = NUM_PWD /\ Memory.first = first
  /\ Memory.prev = prev /\ Memory.next = next /\ Memory.count = count /\ Memory.name = name
  BY DEF Memory

\* The types of a memory.
LEMMA FramFields ==
  ASSUME NEW F \in Fram
  PROVE  /\ F.num \in 0 .. Last /\ F.num \in Nat /\ F.num < MAXIMUM_NUMBER_OF_PWD
         /\ F.used \subseteq 0 .. Last - 1 /\ F.used \subseteq Ids
         /\ F.first \in [Lists -> Ids]
         /\ F.prev \in [Lists -> [Ids -> Ptr]] /\ F.next \in [Lists -> [Ids -> Ptr]]
         /\ F.count \in [Ids -> 0 .. COUNT_MOD - 1] /\ F.name \in [Ids -> Names]
         /\ \A c \in F.used : c # Nil /\ c \in Ids
  BY Sizes DEF Fram, Last

\* The links of a list, by place.
LEMMA OrderFields ==
  ASSUME NEW F \in Fram, NEW l \in Lists, NEW s, Order(F, l, s)
  PROVE  /\ F.num \in 0 .. Last /\ F.num \in Nat
         /\ F.first[l] = IF F.num = 0 THEN 0 ELSE s[1]
         /\ \A c \in F.used : \E n \in 1 .. F.num : s[n] = c
         /\ \A n \in 1 .. F.num :
              /\ s[n] \in F.used /\ s[n] \in Ids /\ s[n] # Nil
              /\ F.next[l][s[n]] = IF n = F.num THEN Nil ELSE s[n + 1]
              /\ F.prev[l][s[n]] = IF n = 1 THEN Nil ELSE s[n - 1]
  <1>1. \A n \in 1 .. F.num : s[n] \in F.used
    BY DEF Order
  <1> QED
    BY <1>1, FramFields DEF Order

\* The same in the FRAM.
LEMMA ListIs ==
  ASSUME Memory \in Fram, NEW l \in Lists, NEW s, Order(Memory, l, s)
  PROVE  /\ first[l] = IF NUM_PWD = 0 THEN 0 ELSE s[1]
         /\ \A m, n \in 1 .. NUM_PWD : s[m] = s[n] => m = n
         /\ \A c \in used : \E n \in 1 .. NUM_PWD : s[n] = c
         /\ \A n \in 1 .. NUM_PWD :
              /\ s[n] \in used /\ s[n] \in Ids /\ s[n] # Nil
              /\ next[l][s[n]] = IF n = NUM_PWD THEN Nil ELSE s[n + 1]
              /\ prev[l][s[n]] = IF n = 1 THEN Nil ELSE s[n - 1]
  <1>1. \A m, n \in 1 .. NUM_PWD : s[m] = s[n] => m = n
    BY MemoryFields DEF Order
  <1> QED
    BY <1>1, MemoryFields, OrderFields

\* The walk is the function that satisfies its equation.
IsWalk(g, l, c) ==
  /\ g \in [0 .. MAXIMUM_NUMBER_OF_PWD -> Ptr]
  /\ \A n \in 0 .. MAXIMUM_NUMBER_OF_PWD :
       g[n] = IF n = 0 THEN c ELSE IF g[n - 1] = Nil THEN Nil ELSE next[l][g[n - 1]]

\* By the least step at which two walks would differ: no walk is defined by
\* itself otherwise.
LEMMA ChainUnique ==
  ASSUME NEW l, NEW c, NEW g, IsWalk(g, l, c)
  PROVE  Chain(l, c) = g
  <1> DEFINE N == 0 .. MAXIMUM_NUMBER_OF_PWD
             h == Chain(l, c)
  <1>0. /\ g \in [N -> Ptr]
        /\ \A n \in N : g[n] = IF n = 0 THEN c
                               ELSE IF g[n - 1] = Nil THEN Nil ELSE next[l][g[n - 1]]
    BY DEF IsWalk
  <1>1. g = [n \in N |-> IF n = 0 THEN c
                         ELSE IF g[n - 1] = Nil THEN Nil ELSE next[l][g[n - 1]]]
    BY <1>0
  <1>2. h = [n \in N |-> IF n = 0 THEN c
                         ELSE IF h[n - 1] = Nil THEN Nil ELSE next[l][h[n - 1]]]
    BY <1>1 DEF Chain
  <1> HIDE DEF h
  <1>3. ASSUME NEW k \in N, h[k] # g[k] PROVE FALSE
    <2> DEFINE T == {n \in N : h[n] # g[n]}
    <2>1. T \in SUBSET Nat /\ T # {}
      BY <1>3, Sizes
    <2>2. PICK m \in T : \A n \in T : m <= n
      BY <2>1, LeastExists
    <2>3. m \in N /\ m # 0
      BY <1>0, <1>2
    <2>4. m - 1 \in N /\ ~(m <= m - 1)
      BY <2>3, Sizes
    <2>5. h[m - 1] = g[m - 1]
      BY <2>2, <2>4
    <2>6. h[m] = g[m]
      BY <1>0, <1>2, <2>3, <2>5
    <2> QED
      BY <2>6
  <1> QED
    BY <1>0, <1>2, <1>3 DEF h

\* The walk from the head meets the sequence, then the end mark.
LEMMA ChainIs ==
  ASSUME Memory \in Fram, NEW l \in Lists, NEW s, Order(Memory, l, s), NUM_PWD # 0
  PROVE  Chain(l, first[l]) =
           [n \in 0 .. MAXIMUM_NUMBER_OF_PWD |-> IF n < NUM_PWD THEN s[n + 1] ELSE Nil]
  <1> DEFINE N == 0 .. MAXIMUM_NUMBER_OF_PWD
             g == [n \in N |-> IF n < NUM_PWD THEN s[n + 1] ELSE Nil]
  <1>1. /\ NUM_PWD \in 1 .. Last /\ first[l] = s[1]
        /\ \A n \in 1 .. NUM_PWD : /\ s[n] \in Ids
                                   /\ next[l][s[n]] = IF n = NUM_PWD THEN Nil ELSE s[n + 1]
    <2>1. NUM_PWD \in 1 .. Last
      BY Sizes, MemoryFields, FramFields
    <2> QED
      BY <2>1, ListIs
  <1>2. ASSUME NEW n \in N
        PROVE  g[n] = IF n = 0 THEN first[l]
                      ELSE IF g[n - 1] = Nil THEN Nil ELSE next[l][g[n - 1]]
    <2> SUFFICES ASSUME n # 0
                 PROVE  g[n] = IF g[n - 1] = Nil THEN Nil ELSE next[l][g[n - 1]]
      BY <1>1, Sizes
    <2>1. n - 1 \in N /\ n \in Nat /\ (n - 1) + 1 = n
      BY Sizes
    <2>2. CASE n - 1 < NUM_PWD
      <3>1. g[n - 1] = s[n] /\ n \in 1 .. NUM_PWD
        BY <2>1, <2>2, <1>1
      <3>2. s[n] # Nil /\ next[l][s[n]] = IF n = NUM_PWD THEN Nil ELSE s[n + 1]
        BY <1>1, <3>1, Sizes
      <3>3. g[n] = IF n = NUM_PWD THEN Nil ELSE s[n + 1]
        BY <1>1, <2>1, <3>1
      <3> QED
        BY <3>1, <3>2, <3>3
    <2>3. CASE ~(n - 1 < NUM_PWD)
      BY <2>1, <2>3, <1>1
    <2> QED
      BY <2>2, <2>3
  <1>3. g \in [N -> Ptr]
    <2>1. \A n \in N : n < NUM_PWD => n + 1 \in 1 .. NUM_PWD
      BY <1>1
    <2> QED
      BY <1>1, <2>1, Sizes
  <1> HIDE DEF g
  <1>4. IsWalk(g, l, first[l])
    BY <1>2, <1>3 DEF IsWalk
  <1>5. Chain(l, first[l]) = g
    BY <1>4, ChainUnique
  <1> QED
    BY <1>5 DEF g

\* A chunk that follows itself is all that a walk from it meets.
LEMMA ChainTurns ==
  ASSUME NEW l, NEW c \in Ids, next[l][c] = c
  PROVE  Chain(l, c) = [n \in 0 .. MAXIMUM_NUMBER_OF_PWD |-> c]
  <1> DEFINE N == 0 .. MAXIMUM_NUMBER_OF_PWD
             g == [n \in N |-> c]
  <1>1. ASSUME NEW n \in N
        PROVE  g[n] = IF n = 0 THEN c ELSE IF g[n - 1] = Nil THEN Nil ELSE next[l][g[n - 1]]
    <2>1. n # 0 => n - 1 \in N
      BY Sizes
    <2> QED
      BY <2>1, Sizes
  <1>2. g \in [N -> Ptr]
    BY Sizes
  <1> HIDE DEF g
  <1>3. IsWalk(g, l, c)
    BY <1>1, <1>2 DEF IsWalk
  <1>4. Chain(l, c) = g
    BY <1>3, ChainUnique
  <1> QED
    BY <1>4 DEF g

\* A walk from the head of a list meets the end mark and each used chunk, the last
\* of them at the last place.
LEMMA WalkMeets ==
  ASSUME Memory \in Fram, NEW l \in Lists, NEW s, Order(Memory, l, s), NUM_PWD # 0
  PROVE  /\ Ends(l, first[l]) /\ Members(l, first[l]) = used
         /\ LastFrom(l, first[l]) = s[NUM_PWD]
  <1> DEFINE N == 0 .. MAXIMUM_NUMBER_OF_PWD
             h == Chain(l, first[l])
  <1>1. /\ NUM_PWD \in 1 .. Last
        /\ \A n \in 1 .. NUM_PWD : /\ s[n] \in used /\ s[n] \in Ids
                                   /\ next[l][s[n]] = IF n = NUM_PWD THEN Nil ELSE s[n + 1]
        /\ \A c \in used : \E n \in 1 .. NUM_PWD : s[n] = c
    <2>1. NUM_PWD \in 1 .. Last
      BY Sizes, MemoryFields, FramFields
    <2> QED
      BY <2>1, ListIs
  <1>2. h = [n \in N |-> IF n < NUM_PWD THEN s[n + 1] ELSE Nil]
    BY ChainIs
  <1> HIDE DEF h
  <1>3. \A n \in N : h[n] = IF n < NUM_PWD THEN s[n + 1] ELSE Nil
    BY <1>2
  <1>4. h[MAXIMUM_NUMBER_OF_PWD] = Nil
    BY <1>1, <1>3, Sizes DEF Nil
  <1>5. {h[n] : n \in N} \ {Nil} = used
    <2>1. ASSUME NEW n \in N, h[n] # Nil PROVE h[n] \in used
      <3>1. n + 1 \in 1 .. NUM_PWD /\ h[n] = s[n + 1]
        BY <1>1, <1>3, <2>1, Sizes
      <3> QED
        BY <1>1, <3>1
    <2>2. ASSUME NEW c \in used PROVE c # Nil /\ \E n \in N : h[n] = c
      <3>1. PICK n \in 1 .. NUM_PWD : s[n] = c
        BY <1>1
      <3>2. n - 1 \in N /\ n - 1 < NUM_PWD /\ (n - 1) + 1 = n
        BY <1>1, Sizes DEF Nil
      <3> QED
        BY <1>1, <1>3, <3>1, <3>2, FramFields, MemoryFields
    <2> QED
      BY <2>1, <2>2
  <1>6. Members(l, first[l]) = used
    BY <1>5 DEF Members, h
  <1>7. \A d \in used : next[l][d] = Nil <=> d = s[NUM_PWD]
    <2> SUFFICES ASSUME NEW d \in used PROVE next[l][d] = Nil <=> d = s[NUM_PWD]
      OBVIOUS
    <2>1. PICK n \in 1 .. NUM_PWD : s[n] = d
      BY <1>1
    <2>2. CASE n = NUM_PWD
      BY <1>1, <2>1, <2>2
    <2>3. CASE n # NUM_PWD
      <3>1. n + 1 \in 1 .. NUM_PWD
        BY <1>1, <2>3
      <3>2. next[l][d] # Nil
        BY <1>1, <2>1, <2>3, <3>1, Sizes
      <3>3. next[l][s[NUM_PWD]] = Nil
        BY <1>1
      <3> QED
        BY <3>2, <3>3
    <2> QED
      BY <2>2, <2>3
  <1>8. s[NUM_PWD] \in used
    BY <1>1
  <1> QED
    BY <1>4, <1>6, <1>7, <1>8 DEF Ends, LastFrom, h
\* In the memory G the chunk c comes after those of the list l of F, and in the
\* sequence after those of s.
Appends(F, G, l, s, c) ==
  /\ c \in Ids /\ c \notin F.used /\ (F.num = 0 => c = 0)
  /\ G.used = F.used \cup {c} /\ G.num = F.num + 1 /\ G.first[l] = F.first[l]
  /\ \A d \in G.used :
       /\ G.next[l][d] = IF d = c THEN Nil ELSE IF d = s[F.num] THEN c ELSE F.next[l][d]
       /\ G.prev[l][d] = IF d # c THEN F.prev[l][d] ELSE IF F.num = 0 THEN Nil ELSE s[F.num]

With(s, c, num) == [n \in 1 .. num + 1 |-> IF n <= num THEN s[n] ELSE c]

\* The list l of G is the sequence with c at its end.
LEMMA AppendOrder ==
  ASSUME NEW F \in Fram, NEW G \in Fram, NEW l \in Lists, NEW s, Order(F, l, s),
         NEW c, Appends(F, G, l, s, c)
  PROVE  Order(G, l, With(s, c, F.num))
  <1> USE DEF Appends
  <1> DEFINE t == [n \in 1 .. G.num |-> IF n <= F.num THEN s[n] ELSE c]
  <1>1. F.num \in Nat /\ G.num \in Nat /\ G.num = F.num + 1
    BY OrderFields
  <1>2. \A n \in 1 .. F.num : n \in 1 .. G.num /\ t[n] = s[n] /\ s[n] \in F.used /\ s[n] # c
    BY <1>1, OrderFields
  <1>3. t[G.num] = c /\ G.num \in 1 .. G.num
    BY <1>1
  <1>4. \A n \in 1 .. G.num : n = G.num \/ n \in 1 .. F.num
    BY <1>1
  <1>5. t \in [1 .. G.num -> G.used]
    BY <1>2, <1>3, <1>4
  <1> HIDE DEF t
  <1>6. \A m, n \in 1 .. G.num : t[m] = t[n] => m = n
    BY <1>2, <1>3, <1>4 DEF Order
  <1>7. \A d \in G.used : \E n \in 1 .. G.num : t[n] = d
    BY <1>2, <1>3, OrderFields
  <1>8. G.first[l] = t[1] /\ G.num # 0
    <2>1. CASE F.num = 0
      BY <1>1, <1>3, <2>1, OrderFields
    <2>2. CASE F.num # 0
      BY <1>1, <1>2, <2>2, OrderFields
    <2> QED
      BY <2>1, <2>2
  <1>9. ASSUME NEW n \in 1 .. G.num
        PROVE  /\ G.next[l][t[n]] = IF n = G.num THEN Nil ELSE t[n + 1]
               /\ G.prev[l][t[n]] = IF n = 1 THEN Nil ELSE t[n - 1]
    <2>1. t[n] \in G.used
      BY <1>5
    <2>2. CASE n = G.num
      <3>1. t[n] = c
        BY <1>3, <2>2
      <3>2. F.num = 0 <=> n = 1
        BY <1>1, <2>2
      <3>3. F.num # 0 => n - 1 \in 1 .. F.num /\ n - 1 = F.num
        BY <1>1, <2>2
      <3> QED
        BY <1>2, <2>1, <2>2, <3>1, <3>2, <3>3
    <2>3. CASE n # G.num
      <3>1. n \in 1 .. F.num /\ t[n] = s[n] /\ t[n] # c
        BY <1>2, <1>4, <2>3
      <3>2. n # 1 => n - 1 \in 1 .. F.num
        BY <1>1, <3>1
      <3>3. n # F.num => n + 1 \in 1 .. F.num
        BY <1>1, <3>1
      <3>4. n = F.num => n + 1 = G.num
        BY <1>1
      <3>5. t[n] = s[F.num] <=> n = F.num
        BY <1>1, <3>1 DEF Order
      <3>6. G.prev[l][t[n]] = IF n = 1 THEN Nil ELSE t[n - 1]
        BY <1>2, <2>1, <3>1, <3>2, OrderFields
      <3>7. G.next[l][t[n]] = t[n + 1]
        BY <1>2, <1>3, <2>1, <3>1, <3>3, <3>4, <3>5, OrderFields
      <3> QED
        BY <2>3, <3>6, <3>7
    <2> QED
      BY <2>2, <2>3
  <1>10. Order(G, l, t)
    BY <1>5, <1>6, <1>7, <1>8, <1>9 DEF Order
  <1>11. t = With(s, c, F.num)
    BY <1>1 DEF t, With
  <1> QED
    BY <1>10, <1>11

\* The sequence without the chunk at place k.
Without(s, k, num) == [n \in 1 .. num - 1 |-> IF n < k THEN s[n] ELSE s[n + 1]]

Removes(F, G, l, s, k) ==
  /\ G.used = F.used \ {s[k]} /\ G.num = F.num - 1
  /\ G.first[l] = IF k # 1 THEN F.first[l] ELSE IF F.num = 1 THEN 0 ELSE s[2]
  /\ \A d \in G.used :
       /\ G.next[l][d] = IF k # 1 /\ d = s[k - 1] THEN F.next[l][s[k]] ELSE F.next[l][d]
       /\ G.prev[l][d] = IF k # F.num /\ d = s[k + 1] THEN F.prev[l][s[k]] ELSE F.prev[l][d]

\* The list l of G is the sequence without its k-th chunk.
LEMMA RemoveOrder ==
  ASSUME NEW F \in Fram, NEW G \in Fram, NEW l \in Lists, NEW s, Order(F, l, s),
         NEW k \in 1 .. F.num, Removes(F, G, l, s, k)
  PROVE  Order(G, l, Without(s, k, F.num))
  <1> USE DEF Removes
  <1> DEFINE t == Without(s, k, F.num)
             up(n) == IF n < k THEN n ELSE n + 1
  <1>1. F.num \in Nat /\ G.num \in Nat /\ F.num = G.num + 1 /\ k \in Nat
    BY OrderFields
  <1>2. \A n \in 1 .. G.num : up(n) \in 1 .. F.num /\ up(n) # k /\ t[n] = s[up(n)]
    BY <1>1 DEF Without
  <1>3. t = [n \in 1 .. G.num |-> s[up(n)]]
    BY <1>1 DEF Without
  <1>4. \A m, n \in 1 .. F.num : s[m] = s[n] => m = n
    BY DEF Order
  <1>5. ASSUME NEW n \in 1 .. G.num PROVE t[n] \in G.used
    <2> HIDE DEF up, t
    <2>1. s[up(n)] \in F.used /\ s[up(n)] # s[k]
      BY <1>2, <1>4, OrderFields
    <2> QED
      BY <1>2, <2>1
  <1> HIDE DEF t
  <1>6. t \in [1 .. G.num -> G.used]
    BY <1>3, <1>5
  <1>7. \A m, n \in 1 .. G.num : t[m] = t[n] => m = n
    BY <1>2, <1>4
  <1>8. \A d \in G.used : \E n \in 1 .. G.num : t[n] = d
    <2> SUFFICES ASSUME NEW d \in G.used PROVE \E n \in 1 .. G.num : t[n] = d
      OBVIOUS
    <2>1. PICK m \in 1 .. F.num : s[m] = d
      BY OrderFields
    <2>2. m # k
      BY <2>1
    <2>3. PICK n \in 1 .. G.num : up(n) = m
      <3>1. CASE m < k
        BY <1>1, <3>1
      <3>2. CASE m > k
        <4>1. m - 1 \in 1 .. G.num /\ up(m - 1) = m
          BY <1>1, <3>2
        <4> QED
          BY <4>1
      <3> QED
        BY <1>1, <2>2, <3>1, <3>2
    <2> QED
      BY <1>2, <2>1, <2>3
  <1>9. G.first[l] = IF G.num = 0 THEN 0 ELSE t[1]
    <2>1. G.num # 0 => t[1] = IF k = 1 THEN s[2] ELSE s[1]
      BY <1>1, <1>2
    <2> QED
      BY <1>1, <2>1, OrderFields
  <1>10. ASSUME NEW n \in 1 .. G.num
         PROVE  G.next[l][t[n]] = IF n = G.num THEN Nil ELSE t[n + 1]
    <2>1. t[n] \in G.used /\ t[n] = s[up(n)] /\ up(n) \in 1 .. F.num
      BY <1>2, <1>5
    <2>2. CASE k # 1 /\ n = k - 1
      <3>1. up(n) = k - 1 /\ (k = F.num <=> n = G.num)
        BY <1>1, <2>2
      <3>2. G.next[l][t[n]] = IF k = F.num THEN Nil ELSE s[k + 1]
        BY <2>1, <2>2, <3>1, OrderFields
      <3>3. n # G.num => n + 1 \in 1 .. G.num /\ up(n + 1) = k + 1
        BY <1>1, <2>2
      <3> QED
        BY <1>2, <3>1, <3>2, <3>3
    <2>3. CASE ~(k # 1 /\ n = k - 1)
      <3>1. k # 1 => k - 1 \in 1 .. F.num /\ up(n) # k - 1
        BY <1>1, <2>3
      <3>2. k # 1 => t[n] # s[k - 1]
        BY <1>4, <2>1, <3>1
      <3>3. G.next[l][t[n]] = IF up(n) = F.num THEN Nil ELSE s[up(n) + 1]
        BY <2>1, <3>2, OrderFields
      <3>4. up(n) = F.num <=> n = G.num
        BY <1>1, <2>3
      <3>5. n # G.num => n + 1 \in 1 .. G.num /\ up(n + 1) = up(n) + 1
        BY <1>1, <2>3
      <3> QED
        BY <1>2, <3>3, <3>4, <3>5
    <2> QED
      BY <2>2, <2>3
  <1>11. ASSUME NEW n \in 1 .. G.num
         PROVE  G.prev[l][t[n]] = IF n = 1 THEN Nil ELSE t[n - 1]
    <2>1. t[n] \in G.used /\ t[n] = s[up(n)] /\ up(n) \in 1 .. F.num
      BY <1>2, <1>5
    <2>2. CASE n = k
      <3>1. k # F.num /\ up(n) = k + 1
        BY <1>1, <2>2
      <3>2. G.prev[l][t[n]] = IF k = 1 THEN Nil ELSE s[k - 1]
        BY <2>1, <3>1, OrderFields
      <3>3. k # 1 => n - 1 \in 1 .. G.num /\ up(n - 1) = k - 1
        BY <1>1, <2>2
      <3> QED
        BY <1>2, <2>2, <3>2, <3>3
    <2>3. CASE n # k
      <3>1. k # F.num => k + 1 \in 1 .. F.num /\ up(n) # k + 1
        BY <1>1, <2>3
      <3>2. k # F.num => t[n] # s[k + 1]
        BY <1>4, <2>1, <3>1
      <3>3. G.prev[l][t[n]] = IF up(n) = 1 THEN Nil ELSE s[up(n) - 1]
        <4>1. G.prev[l][t[n]] = F.prev[l][s[up(n)]]
          BY <2>1, <3>2
        <4> HIDE DEF up
        <4> QED
          BY <2>1, <4>1, OrderFields
      <3>4. up(n) = 1 <=> n = 1
        BY <1>1, <2>3
      <3>5. n # 1 => n - 1 \in 1 .. G.num /\ up(n - 1) = up(n) - 1
        BY <1>1, <2>3
      <3> QED
        BY <1>2, <3>3, <3>4, <3>5
    <2> QED
      BY <2>2, <2>3
  <1>12. Order(G, l, t)
    BY <1>6, <1>7, <1>8, <1>9, <1>10, <1>11 DEF Order
  <1> QED
    BY <1>12 DEF t

\* The sequence with the chunks at the places k and k + 1 swapped.
Swapped(s, k, num) ==
  [n \in 1 .. num |-> IF n = k THEN s[k + 1] ELSE IF n = k + 1 THEN s[k] ELSE s[n]]

Swaps(F, G, l, s, k) ==
  /\ G.used = F.used /\ G.num = F.num
  /\ G.first[l] = IF k = 1 THEN s[k + 1] ELSE F.first[l]
  /\ \A d \in G.used :
       /\ G.next[l][d] = IF d = s[k] THEN F.next[l][s[k + 1]]
                         ELSE IF d = s[k + 1] THEN s[k]
                         ELSE IF k # 1 /\ d = s[k - 1] THEN s[k + 1]
                         ELSE F.next[l][d]
       /\ G.prev[l][d] = IF d = s[k] THEN s[k + 1]
                         ELSE IF d = s[k + 1] THEN F.prev[l][s[k]]
                         ELSE IF k + 1 # F.num /\ d = s[k + 2] THEN s[k]
                         ELSE F.prev[l][d]

\* The list l of G is the sequence with two neighbours swapped.
LEMMA SwapOrder ==
  ASSUME NEW F \in Fram, NEW G \in Fram, NEW l \in Lists, NEW s, Order(F, l, s),
         NEW k \in 1 .. F.num, k # F.num, Swaps(F, G, l, s, k)
  PROVE  Order(G, l, Swapped(s, k, F.num))
  <1> USE DEF Swaps
  <1> DEFINE t == Swapped(s, k, F.num)
             to(n) == IF n = k THEN k + 1 ELSE IF n = k + 1 THEN k ELSE n
  <1>1. F.num \in Nat /\ G.num = F.num /\ k \in Nat /\ k + 1 \in 1 .. F.num
        /\ (k # 1 => k - 1 \in 1 .. F.num) /\ (k + 1 # F.num => k + 2 \in 1 .. F.num)
    <2>1. F.num \in Nat
      BY OrderFields
    <2> QED
      BY <2>1
  <1>2. \A n \in 1 .. G.num : to(n) \in 1 .. F.num /\ to(to(n)) = n /\ t[n] = s[to(n)]
    BY <1>1 DEF Swapped
  <1>3. t = [n \in 1 .. G.num |-> s[to(n)]]
    BY <1>1 DEF Swapped
  <1>4. \A m, n \in 1 .. F.num : s[m] = s[n] => m = n
    BY DEF Order
  <1>5. \A n \in 1 .. G.num : t[n] \in G.used
    <2> HIDE DEF to, t
    <2> QED
      BY <1>1, <1>2, OrderFields
  <1> HIDE DEF t
  <1>6. t \in [1 .. G.num -> G.used]
    BY <1>3, <1>5
  <1>7. ASSUME NEW m \in 1 .. G.num, NEW n \in 1 .. G.num, t[m] = t[n] PROVE m = n
    <2>1. to(m) = to(n)
      BY <1>2, <1>4, <1>7
    <2> QED
      BY <1>2, <2>1
  <1>8. \A d \in G.used : \E n \in 1 .. G.num : t[n] = d
    <2> SUFFICES ASSUME NEW d \in G.used PROVE \E n \in 1 .. G.num : t[n] = d
      OBVIOUS
    <2>1. PICK m \in 1 .. F.num : s[m] = d
      BY OrderFields
    <2>2. to(m) \in 1 .. G.num /\ t[to(m)] = d
      BY <1>1, <1>2, <2>1
    <2> QED
      BY <2>2
  <1>9. G.num # 0 /\ G.first[l] = t[1]
    BY <1>1, <1>2, OrderFields
  <1>10. ASSUME NEW n \in 1 .. G.num
         PROVE  G.next[l][t[n]] = IF n = G.num THEN Nil ELSE t[n + 1]
    <2>1. t[n] \in G.used /\ t[n] = s[to(n)] /\ to(n) \in 1 .. F.num
      BY <1>2, <1>5
    <2>2. s[k] # s[k + 1] /\ (k # 1 => s[k - 1] # s[k] /\ s[k - 1] # s[k + 1])
      BY <1>1, <1>4
    <2>3. CASE n = k
      <3>1. t[n] = s[k + 1] /\ t[n + 1] = s[k] /\ n # G.num
        BY <1>1, <1>2, <2>3
      <3> QED
        BY <2>1, <2>2, <3>1
    <2>4. CASE n = k + 1
      <3>1. t[n] = s[k] /\ (n # G.num => t[n + 1] = s[k + 2])
        BY <1>1, <1>2, <2>4
      <3>2. F.next[l][s[k + 1]] = IF k + 1 = F.num THEN Nil ELSE s[k + 2]
        BY <1>1, OrderFields
      <3> QED
        BY <1>1, <2>1, <2>2, <2>4, <3>1, <3>2
    <2>5. CASE k # 1 /\ n = k - 1
      <3>1. t[n] = s[k - 1] /\ t[n + 1] = s[k + 1] /\ n # G.num
        BY <1>1, <1>2, <2>5
      <3> QED
        BY <2>1, <2>2, <2>5, <3>1
    <2>6. CASE n # k /\ n # k + 1 /\ (k # 1 => n # k - 1)
      <3>1. t[n] = s[n] /\ (n # G.num => n + 1 \in 1 .. F.num /\ t[n + 1] = s[n + 1])
        BY <1>1, <1>2, <2>6
      <3>2. t[n] # s[k] /\ t[n] # s[k + 1] /\ (k # 1 => t[n] # s[k - 1])
        BY <1>1, <1>4, <2>6, <3>1
      <3>3. G.next[l][t[n]] = F.next[l][s[n]]
        BY <2>1, <3>1, <3>2
      <3> QED
        BY <1>1, <3>1, <3>3, OrderFields
    <2> QED
      BY <2>3, <2>4, <2>5, <2>6
  <1>11. ASSUME NEW n \in 1 .. G.num
         PROVE  G.prev[l][t[n]] = IF n = 1 THEN Nil ELSE t[n - 1]
    <2>1. t[n] \in G.used /\ t[n] = s[to(n)] /\ to(n) \in 1 .. F.num
      BY <1>2, <1>5
    <2>2. s[k] # s[k + 1] /\ (k + 1 # F.num => s[k + 2] # s[k] /\ s[k + 2] # s[k + 1])
      BY <1>1, <1>4
    <2>3. CASE n = k
      <3>1. t[n] = s[k + 1] /\ (n # 1 => t[n - 1] = s[k - 1])
        BY <1>1, <1>2, <2>3
      <3>2. F.prev[l][s[k]] = IF k = 1 THEN Nil ELSE s[k - 1]
        BY <1>1, OrderFields
      <3> QED
        BY <2>1, <2>2, <2>3, <3>1, <3>2
    <2>4. CASE n = k + 1
      <3>1. t[n] = s[k] /\ t[n - 1] = s[k + 1] /\ n # 1
        BY <1>1, <1>2, <2>4
      <3> QED
        BY <2>1, <2>2, <3>1
    <2>5. CASE k + 1 # F.num /\ n = k + 2
      <3>1. t[n] = s[k + 2] /\ t[n - 1] = s[k] /\ n # 1
        BY <1>1, <1>2, <2>5
      <3> QED
        BY <2>1, <2>2, <2>5, <3>1
    <2>6. CASE n # k /\ n # k + 1 /\ (k + 1 # F.num => n # k + 2)
      <3>1. t[n] = s[n] /\ (n # 1 => n - 1 \in 1 .. F.num /\ t[n - 1] = s[n - 1])
        BY <1>1, <1>2, <2>6
      <3>2. t[n] # s[k] /\ t[n] # s[k + 1] /\ (k + 1 # F.num => t[n] # s[k + 2])
        BY <1>1, <1>4, <2>6, <3>1
      <3>3. G.prev[l][t[n]] = F.prev[l][s[n]]
        BY <2>1, <3>1, <3>2
      <3> QED
        BY <1>1, <3>1, <3>3, OrderFields
    <2> QED
      BY <2>3, <2>4, <2>5, <2>6
  <1>12. Order(G, l, t)
    BY <1>6, <1>7, <1>8, <1>9, <1>10, <1>11 DEF Order
  <1> QED
    BY <1>12 DEF t

\* A change of counters and names, or of the other list.
LEMMA KeepOrder ==
  ASSUME NEW F \in Fram, NEW G \in Fram, NEW l \in Lists, NEW s, Order(F, l, s),
         G.used = F.used, G.num = F.num, G.first[l] = F.first[l],
         G.next[l] = F.next[l], G.prev[l] = F.prev[l]
  PROVE  Order(G, l, s)
  <1>1. \A n \in 1 .. F.num : s[n] \in G.used
    BY OrderFields
  <1> QED
    BY <1>1 DEF Order
-----------------------------------------------------------------------------
(***************************************************************************)
(* The invariant, between and during operations.                           *)
(***************************************************************************)
\* The elements of a sequence of S are in S.
LEMMA ElementsType ==
  ASSUME NEW S, NEW s \in Seq(S)
  PROVE  Elements(s) \in SUBSET S
  BY DEF Elements

\* Two memories with the same fields are one.
LEMMA FramExt ==
  ASSUME NEW F \in Fram, NEW G \in Fram,
         F.used = G.used, F.num = G.num, F.first = G.first, F.prev = G.prev,
         F.next = G.next, F.count = G.count, F.name = G.name
  PROVE  F = G
  BY DEF Fram

\* No write leads from a memory to itself.
LEMMA LeadsNowhere ==
  ASSUME NEW F
  PROVE  Leads(F, {}, F)
  BY DEF Leads, Covers

\* With no write left, the memory is the outcome.
LEMMA Quiet ==
  ASSUME ListInv, todo = <<>>
  PROVE  Outcome = Memory /\ Catalogue(Memory)
  <1>1. Elements(todo) = {} /\ {} \in SUBSET WriteSet
    BY ElementsEmpty
  <1>2. Outcome = Memory
    BY <1>1, LeadsNowhere, AfterIs DEF Outcome, ListInv
  <1> QED
    BY <1>2 DEF ListInv

\* A memory that the writes lead to is the outcome.
LEMMA Establish ==
  ASSUME NEW F \in Fram, (Memory \in Fram)', LocalsOK', Control',
         Leads(Memory', Elements(todo'), F), Catalogue(F)'
  PROVE  ListInv'
  <1>1. Elements(todo') \in SUBSET WriteSet
    BY ElementsType DEF LocalsOK
  <1>2. After(Memory', Elements(todo')) = F
    BY <1>1, AfterIs
  <1>3. Outcome' = F
    BY <1>2 DEF Outcome
  <1>4. Leads(Memory, Elements(todo), Outcome)'
    BY <1>3 DEF Leads, Covers, Agrees
  <1>5. Catalogue(Outcome)'
    BY <1>3 DEF Catalogue, Arranged, Order, Walk, SortedTo, InOrder
  <1> QED
    BY <1>4, <1>5 DEF ListInv

\* The erased memory is a whole, empty catalogue.
LEMMA InitListInv == Init => ListInv
  <1> SUFFICES ASSUME Init PROVE ListInv
    OBVIOUS
  <1>1. Memory \in Fram
    BY Sizes, ListAssumption DEF Init, Memory, Fram, Lists
  <1>2. LocalsOK /\ Control
    BY Sizes DEF Init, LocalsOK, Control, Begun
  <1>3. todo = <<>> /\ Elements(todo) = {} /\ {} \in SUBSET WriteSet /\ plan = <<>>
    BY ElementsEmpty DEF Init
  <1>4. Outcome = Memory
    BY <1>1, <1>3, LeadsNowhere, AfterIs DEF Outcome
  <1>5. Leads(Memory, Elements(todo), Memory)
    BY <1>3, LeadsNowhere
  <1>6. Catalogue(Memory)
    <2>1. ASSUME NEW l \in Lists PROVE Arranged(Memory, l)
      <3> DEFINE s == [n \in 1 .. 0 |-> 0]
      <3>1. s \in [1 .. Memory.num -> Memory.used] /\ Memory.num = 0 /\ Memory.used = {}
            /\ Memory.first[l] = 0
        BY <2>1 DEF Init, Memory
      <3>2. Order(Memory, l, s)
        BY <3>1 DEF Order
      <3>3. SortedTo(Memory, l, s, Memory.num) /\ ~Begun
        BY <3>1 DEF SortedTo, Init, Begun
      <3> QED
        BY <3>1, <3>2, <3>3 DEF Arranged
    <2>2. \A l \in Lists, c \in Ids : Memory.next[l][c] = 0
      BY DEF Init, Memory
    <2> QED
      BY <1>1, <2>1, <2>2 DEF Catalogue, Init, Memory, Begun
  <1> QED
    BY <1>1, <1>2, <1>4, <1>5, <1>6 DEF ListInv

\* A write brings the memory closer to the outcome, which stays.
LEMMA PerformKeeps ==
  ASSUME ListInv, Perform
  PROVE  ListInv'
  <1> DEFINE w == Head(todo)
             T == Elements(Tail(todo))
             W == Elements(todo)
  <1>1. PICK F : F = Outcome
    OBVIOUS
  <1>2. /\ F \in Fram /\ Memory \in Fram /\ LocalsOK /\ Control /\ Catalogue(F)
        /\ Leads(Memory, W, F)
    BY <1>1 DEF ListInv, Catalogue
  <1>3. /\ w \in WriteSet /\ Tail(todo) \in Seq(WriteSet) /\ W = {w} \cup T
        /\ w.id \in Ids /\ w.list \in Lists
        /\ w.field \in {"prev", "next", "first", "set", "unset", "count", "name", "num", "clear"}
    <2>1. w \in WriteSet /\ Tail(todo) \in Seq(WriteSet) /\ W = {w} \cup T
      BY <1>2, ElementsTail DEF LocalsOK, Perform
    <2> QED
      BY <2>1 DEF WriteSet
  <1>4. Agrees(F, w) /\ (\A v \in T : Agrees(F, v)) /\ Covers(Memory, W, F)
    BY <1>2, <1>3 DEF Leads
  <1>5. /\ used \subseteq 0 .. Last - 1 /\ NUM_PWD \in 0 .. Last /\ first \in [Lists -> Ids]
        /\ prev \in [Lists -> [Ids -> Ptr]] /\ next \in [Lists -> [Ids -> Ptr]]
        /\ count \in [Ids -> 0 .. COUNT_MOD - 1] /\ name \in [Ids -> Names]
    BY <1>2, FramFields, MemoryFields
  <1>6. /\ F.used \subseteq 0 .. Last - 1 /\ F.num \in 0 .. Last /\ F.first \in [Lists -> Ids]
        /\ F.prev \in [Lists -> [Ids -> Ptr]] /\ F.next \in [Lists -> [Ids -> Ptr]]
        /\ F.count \in [Ids -> 0 .. COUNT_MOD - 1] /\ F.name \in [Ids -> Names]
    BY <1>2, FramFields
  <1> HIDE DEF w, T, W
  <1>7. /\ used' \subseteq 0 .. Last - 1
        /\ \A c \in Ids : \/ c \in F.used <=> c \in used'
                          \/ \E v \in T : v.field \in {"set", "unset"} /\ v.id = c
    <2>1. used' = CASE w.field = "set" -> used \cup {w.id}
                    [] w.field = "unset" -> used \ {w.id}
                    [] OTHER -> used
      BY DEF Perform, w
    <2>2. used' \subseteq 0 .. Last - 1
      BY <1>4, <1>5, <1>6, <2>1 DEF Agrees
    <2>3. \A c \in Ids : \/ c \in F.used <=> c \in used
                         \/ \E v \in W : v.field \in {"set", "unset"} /\ v.id = c
      BY <1>4, MemoryFields DEF Covers
    <2> QED
      BY <1>3, <1>4, <2>1, <2>2, <2>3 DEF Agrees
  <1>8. /\ NUM_PWD' \in 0 .. Last
        /\ F.num = NUM_PWD' \/ \E v \in T : v.field = "num"
    <2>1. NUM_PWD' = IF w.field = "num" THEN w.val ELSE NUM_PWD
      BY DEF Perform, w
    <2>2. F.num = NUM_PWD \/ \E v \in W : v.field = "num"
      BY <1>4, MemoryFields DEF Covers
    <2> QED
      BY <1>3, <1>4, <1>5, <1>6, <2>1, <2>2 DEF Agrees
  <1>9. /\ first' \in [Lists -> Ids]
        /\ \A l \in Lists : F.first[l] = first'[l] \/ \E v \in T : v.field = "first" /\ v.list = l
    <2>1. first' = IF w.field = "first" THEN [first EXCEPT ![w.list] = w.val] ELSE first
      BY DEF Perform, w
    <2>2. \A l \in Lists : F.first[l] = first[l] \/ \E v \in W : v.field = "first" /\ v.list = l
      BY <1>4, MemoryFields DEF Covers
    <2> QED
      BY <1>3, <1>4, <1>5, <1>6, <2>1, <2>2 DEF Agrees
  <1>10. /\ prev' \in [Lists -> [Ids -> Ptr]]
         /\ \A l \in Lists, c \in Ids :
              \/ F.prev[l][c] = prev'[l][c]
              \/ \E v \in T : v.id = c /\ (v.field = "clear" \/ (v.field = "prev" /\ v.list = l))
    <2>1. prev' = CASE w.field = "prev" -> [prev EXCEPT ![w.list][w.id] = w.val]
                    [] w.field = "clear" -> [l \in Lists |-> [prev[l] EXCEPT ![w.id] = 0]]
                    [] OTHER -> prev
      BY DEF Perform, w
    <2>2. \A l \in Lists, c \in Ids :
            \/ F.prev[l][c] = prev[l][c]
            \/ \E v \in W : v.id = c /\ (v.field = "clear" \/ (v.field = "prev" /\ v.list = l))
      BY <1>4, MemoryFields DEF Covers
    <2>3. w.field = "prev" => w.val = F.prev[w.list][w.id] /\ w.val \in Ptr
      BY <1>3, <1>4, <1>6 DEF Agrees
    <2>4. w.field = "clear" => \A l \in Lists : F.prev[l][w.id] = 0
      BY <1>4 DEF Agrees
    <2>5. prev' \in [Lists -> [Ids -> Ptr]]
      BY <1>3, <1>5, <2>1, <2>3, Sizes
    <2>6. \A l \in Lists, c \in Ids :
            prev'[l][c] = IF w.field = "prev" /\ l = w.list /\ c = w.id THEN w.val
                          ELSE IF w.field = "clear" /\ c = w.id THEN 0 ELSE prev[l][c]
      BY <1>3, <1>5, <2>1
    <2> QED
      BY <1>3, <2>2, <2>3, <2>4, <2>5, <2>6
  <1>11. /\ next' \in [Lists -> [Ids -> Ptr]]
         /\ \A l \in Lists, c \in Ids :
              \/ F.next[l][c] = next'[l][c]
              \/ \E v \in T : v.id = c /\ (v.field = "clear" \/ (v.field = "next" /\ v.list = l))
    <2>1. next' = CASE w.field = "next" -> [next EXCEPT ![w.list][w.id] = w.val]
                    [] w.field = "clear" -> [l \in Lists |-> [next[l] EXCEPT ![w.id] = 0]]
                    [] OTHER -> next
      BY DEF Perform, w
    <2>2. \A l \in Lists, c \in Ids :
            \/ F.next[l][c] = next[l][c]
            \/ \E v \in W : v.id = c /\ (v.field = "clear" \/ (v.field = "next" /\ v.list = l))
      BY <1>4, MemoryFields DEF Covers
    <2>3. w.field = "next" => w.val = F.next[w.list][w.id] /\ w.val \in Ptr
      BY <1>3, <1>4, <1>6 DEF Agrees
    <2>4. w.field = "clear" => \A l \in Lists : F.next[l][w.id] = 0
      BY <1>4 DEF Agrees
    <2>5. next' \in [Lists -> [Ids -> Ptr]]
      BY <1>3, <1>5, <2>1, <2>3, Sizes
    <2>6. \A l \in Lists, c \in Ids :
            next'[l][c] = IF w.field = "next" /\ l = w.list /\ c = w.id THEN w.val
                          ELSE IF w.field = "clear" /\ c = w.id THEN 0 ELSE next[l][c]
      BY <1>3, <1>5, <2>1
    <2> QED
      BY <1>3, <2>2, <2>3, <2>4, <2>5, <2>6
  <1>12. /\ count' \in [Ids -> 0 .. COUNT_MOD - 1]
         /\ \A c \in Ids : F.count[c] = count'[c] \/ \E v \in T : v.id = c /\ v.field \in {"count", "clear"}
    <2>1. count' = IF w.field \in {"count", "clear"} THEN [count EXCEPT ![w.id] = w.val] ELSE count
      BY DEF Perform, w
    <2>2. \A c \in Ids : F.count[c] = count[c] \/ \E v \in W : v.id = c /\ v.field \in {"count", "clear"}
      BY <1>4, MemoryFields DEF Covers
    <2> QED
      BY <1>3, <1>4, <1>5, <1>6, <2>1, <2>2 DEF Agrees
  <1>13. /\ name' \in [Ids -> Names]
         /\ \A c \in Ids : F.name[c] = name'[c] \/ \E v \in T : v.id = c /\ v.field \in {"name", "clear"}
    <2>1. name' = IF w.field \in {"name", "clear"} THEN [name EXCEPT ![w.id] = w.val] ELSE name
      BY DEF Perform, w
    <2>2. \A c \in Ids : F.name[c] = name[c] \/ \E v \in W : v.id = c /\ v.field \in {"name", "clear"}
      BY <1>4, MemoryFields DEF Covers
    <2> QED
      BY <1>3, <1>4, <1>5, <1>6, <2>1, <2>2 DEF Agrees
  <1>14. (Memory \in Fram)'
    BY <1>7, <1>8, <1>9, <1>10, <1>11, <1>12, <1>13 DEF Memory, Fram
  <1>15. todo' = Tail(todo) /\ Elements(todo') = T
    BY DEF Perform, T
  <1>16. Covers(Memory', T, F)
    BY <1>7, <1>8, <1>9, <1>10, <1>11, <1>12, <1>13 DEF Memory, Covers
  <1>17. Leads(Memory', Elements(todo'), F)
    BY <1>4, <1>15, <1>16 DEF Leads
  <1>18. UNCHANGED <<method, CURRENT_PASSWORD_ID, pc, plan, current, sorting_position>> /\ pc = "sort"
    BY DEF Perform, sortVars
  <1>19. LocalsOK' /\ Control'
    BY <1>2, <1>3, <1>15, <1>18 DEF LocalsOK, Control, Begun
  <1>20. Catalogue(F)'
    BY <1>2, <1>18 DEF Catalogue, Arranged, Walk, Begun
  <1> QED
    BY <1>2, <1>14, <1>17, <1>19, <1>20, Establish
-----------------------------------------------------------------------------
(***************************************************************************)
(* Moving about the catalogue.                                             *)
(***************************************************************************)
\* What is known of the memory when no write is left.
LEMMA ListFacts ==
  ASSUME ListInv, todo = <<>>
  PROVE  /\ Memory \in Fram /\ NUM_PWD \in 0 .. Last
         /\ used \subseteq 0 .. Last - 1 /\ used \in SUBSET Ids
         /\ used = {} <=> NUM_PWD = 0
         /\ \A l \in Lists : \E s : Order(Memory, l, s)
  <1>1. Memory \in Fram /\ \A l \in Lists : \E s : Order(Memory, l, s)
    BY Quiet DEF Catalogue, Arranged
  <1>2. NUM_PWD \in 0 .. Last /\ used \subseteq 0 .. Last - 1 /\ used \in SUBSET Ids
    BY <1>1, FramFields, MemoryFields
  <1>3. "use" \in Lists
    BY DEF Lists
  <1>4. PICK s : Order(Memory, "use", s)
    BY <1>1, <1>3
  <1>5. /\ \A c \in used : \E n \in 1 .. NUM_PWD : s[n] = c
        /\ \A n \in 1 .. NUM_PWD : s[n] \in used
    BY <1>1, <1>3, <1>4, ListIs
  <1>6. used = {} <=> NUM_PWD = 0
    <2>1. NUM_PWD \in Nat
      BY <1>2, Sizes
    <2>2. NUM_PWD # 0 => 1 \in 1 .. NUM_PWD
      BY <2>1
    <2>3. NUM_PWD = 0 => 1 .. NUM_PWD = {}
      OBVIOUS
    <2> QED
      BY <1>5, <2>2, <2>3
  <1> QED
    BY <1>1, <1>2, <1>6

\* get_first_entry_from finds a used chunk.
LEMMA FirstEntryStored ==
  ASSUME used \in SUBSET Ids, used # {}, NEW c
  PROVE  FirstEntryFrom(c) \in used
  <1> DEFINE above == {d \in used : d >= c}
  <1>1. used \in SUBSET Nat /\ above \in SUBSET Nat
    <2>1. Ids \in SUBSET Nat
      BY Sizes
    <2> QED
      BY <2>1
  <1> HIDE DEF above
  <1>2. above # {} => Least(above) \in above
    BY <1>1, LeastExists
  <1>3. Least(used) \in used
    BY <1>1, LeastExists
  <1>4. FirstEntryFrom(c) = IF above # {} THEN Least(above) ELSE Least(used)
    BY DEF FirstEntryFrom, above
  <1> QED
    BY <1>2, <1>3, <1>4 DEF above

\* pwd_list_get_prev_pwd_id_sort_none finds a used chunk, another one if there is.
LEMMA PrevEntryStored ==
  ASSUME used \in SUBSET Ids, NEW c \in used
  PROVE  /\ PrevInMemory(c) \in used
         /\ (\E d \in used : d # c) => PrevInMemory(c) # c
  <1> DEFINE below == {d \in used : d < c}
  <1>1. used \in SUBSET Ptr /\ below \in SUBSET Ptr /\ \A d \in used : d \in Int
    <2>1. Ids \in SUBSET Int /\ Ids \in SUBSET Ptr
      BY Sizes
    <2> QED
      BY <2>1
  <1>2. \A d \in below : d # c
    BY <1>1
  <1> HIDE DEF below
  <1>3. below # {} => Greatest(below) \in below
    BY <1>1, GreatestExists
  <1>4. Greatest(used) \in used /\ \A d \in used : d <= Greatest(used)
    BY <1>1, GreatestExists
  <1>5. PrevInMemory(c) = IF below # {} THEN Greatest(below) ELSE Greatest(used)
    BY DEF PrevInMemory, below
  <1>6. ASSUME below = {}, NEW d \in used, d # c PROVE Greatest(used) # c
    <2>1. ~(d < c)
      BY <1>6 DEF below
    <2>2. d \in Int /\ c \in Int /\ Greatest(used) \in Int
      BY <1>1, <1>4
    <2> QED
      BY <1>4, <1>6, <2>1, <2>2
  <1>7. below \subseteq used
    BY DEF below
  <1> QED
    BY <1>2, <1>3, <1>4, <1>5, <1>6, <1>7

\* pwd_list_get_first_pwd_id finds a used chunk, or 0.
LEMMA FirstStored ==
  ASSUME ListInv, todo = <<>>
  PROVE  IF used = {} THEN FirstOf = 0 ELSE FirstOf \in used
  <1>1. method \in {"none", "use", "alpha"}
    BY DEF ListInv, LocalsOK
  <1>2. CASE method = "none"
    <2>1. used # {} => FirstOf \in used
      BY <1>2, ListFacts, FirstEntryStored DEF FirstOf
    <2>2. used = {} => FirstOf = 0
      BY <1>2 DEF FirstOf, FirstEntryFrom
    <2> QED
      BY <2>1, <2>2
  <1>3. CASE method # "none"
    <2>1. method \in Lists /\ FirstOf = first[method]
      BY <1>1, <1>3 DEF Lists, FirstOf
    <2>2. PICK s : Order(Memory, method, s)
      BY <2>1, ListFacts
    <2>3. /\ first[method] = IF NUM_PWD = 0 THEN 0 ELSE s[1]
          /\ \A n \in 1 .. NUM_PWD : s[n] \in used
      BY <2>1, <2>2, ListFacts, ListIs
    <2>4. NUM_PWD # 0 => 1 \in 1 .. NUM_PWD
      BY ListFacts, Sizes
    <2> QED
      BY <2>1, <2>3, <2>4, ListFacts
  <1> QED
    BY <1>2, <1>3

\* pwd_list_get_next_pwd_id finds a used chunk, by every method.
LEMMA NextStored ==
  ASSUME ListInv, todo = <<>>, NEW c \in used
  PROVE  NextOf(c) \in used
  <1>1. method \in {"none", "use", "alpha"}
    BY DEF ListInv, LocalsOK
  <1>2. CASE method = "none"
    BY <1>2, ListFacts, FirstEntryStored DEF NextOf
  <1>3. CASE method # "none"
    <2>1. method \in Lists /\ NextOf(c) = NextSorted(method, c)
      BY <1>1, <1>3 DEF Lists, NextOf
    <2>2. PICK s : Order(Memory, method, s)
      BY <2>1, ListFacts
    <2>3. /\ first[method] = IF NUM_PWD = 0 THEN 0 ELSE s[1]
          /\ \A n \in 1 .. NUM_PWD :
               s[n] \in used /\ next[method][s[n]] = IF n = NUM_PWD THEN Nil ELSE s[n + 1]
          /\ \E n \in 1 .. NUM_PWD : s[n] = c
      BY <2>1, <2>2, ListFacts, ListIs
    <2>4. PICK n \in 1 .. NUM_PWD : s[n] = c
      BY <2>3
    <2>5. NUM_PWD \in Nat /\ 1 \in 1 .. NUM_PWD /\ (n # NUM_PWD => n + 1 \in 1 .. NUM_PWD)
      BY <2>4, ListFacts, Sizes
    <2> QED
      BY <2>1, <2>3, <2>4, <2>5 DEF NextSorted
  <1> QED
    BY <1>2, <1>3

\* pwd_list_get_prev_pwd_id returns, and finds a used chunk.
LEMMA PrevStored ==
  ASSUME ListInv, todo = <<>>, NEW c \in used
  PROVE  /\ method = "none" \/ PrevReturns(method, c)
         /\ PrevOf(c) \in used
         /\ NUM_PWD # 1 => PrevOf(c) # c
  <1>1. method \in {"none", "use", "alpha"} /\ NUM_PWD \in Nat
    BY ListFacts, Sizes DEF ListInv, LocalsOK
  <1>2. NUM_PWD # 1 => \E d \in used : d # c
    <2>1. "use" \in Lists
      BY DEF Lists
    <2>2. PICK s : Order(Memory, "use", s)
      BY <2>1, ListFacts
    <2>3. \A n \in 1 .. NUM_PWD : s[n] \in used
      BY <2>1, <2>2, ListFacts, ListIs
    <2>4. \A m, n \in 1 .. NUM_PWD : s[m] = s[n] => m = n
      BY <2>2, MemoryFields DEF Order
    <2>5. NUM_PWD # 0
      BY ListFacts
    <2>6. NUM_PWD # 1 => 1 \in 1 .. NUM_PWD /\ 2 \in 1 .. NUM_PWD
      BY <1>1, <2>5
    <2> QED
      BY <2>3, <2>4, <2>6
  <1>3. CASE method = "none"
    BY <1>2, <1>3, ListFacts, PrevEntryStored DEF PrevOf
  <1>4. CASE method # "none"
    <2>1. method \in Lists /\ PrevOf(c) = PrevSorted(method, c)
      BY <1>1, <1>4 DEF Lists, PrevOf
    <2>2. PICK s : Order(Memory, method, s)
      BY <2>1, ListFacts
    <2>3. /\ first[method] = IF NUM_PWD = 0 THEN 0 ELSE s[1]
          /\ \A n \in 1 .. NUM_PWD :
               s[n] \in used /\ s[n] # Nil /\ prev[method][s[n]] = IF n = 1 THEN Nil ELSE s[n - 1]
          /\ \E n \in 1 .. NUM_PWD : s[n] = c
      BY <2>1, <2>2, ListFacts, ListIs
    <2>4. PICK n \in 1 .. NUM_PWD : s[n] = c
      BY <2>3
    <2>5. \A m \in 1 .. NUM_PWD : s[m] = c => m = n
      BY <2>2, <2>4, MemoryFields DEF Order
    <2>6. CASE n = 1
      <3>1. prev[method][c] = Nil /\ c = first[method] /\ NUM_PWD # 0
        BY <1>1, <2>3, <2>4, <2>6
      <3>2. Ends(method, c) /\ LastFrom(method, c) = s[NUM_PWD]
        BY <2>1, <2>2, <3>1, ListFacts, WalkMeets
      <3>3. NUM_PWD \in 1 .. NUM_PWD
        BY <1>1, <3>1
      <3>4. PrevOf(c) = s[NUM_PWD] /\ PrevReturns(method, c)
        BY <2>1, <3>1, <3>2 DEF PrevSorted, PrevReturns
      <3> QED
        BY <2>3, <2>5, <2>6, <3>3, <3>4
    <2>7. CASE n # 1
      <3>1. n - 1 \in 1 .. NUM_PWD /\ n - 1 # n
        BY <1>1, <2>7
      <3>2. prev[method][c] = s[n - 1] /\ s[n - 1] # Nil
        BY <2>3, <2>4, <2>7, <3>1
      <3>3. PrevOf(c) = s[n - 1] /\ PrevReturns(method, c)
        BY <2>1, <3>2 DEF PrevSorted, PrevReturns
      <3> QED
        BY <2>3, <2>5, <3>1, <3>3
    <2> QED
      BY <2>6, <2>7
  <1> QED
    BY <1>3, <1>4
\* The search of select_pwd_from_letter stops, at a stored chunk.
LEMMA BrowseStored ==
  ASSUME ListInv, todo = <<>>, pc = "menu", NEW letter \in Names, Browse(letter)
  PROVE  /\ pc' = pc
         /\ IF NUM_PWD = 0 THEN CURRENT_PASSWORD_ID' = CURRENT_PASSWORD_ID
            ELSE CURRENT_PASSWORD_ID' = CURRENT_PASSWORD_ID \/ CURRENT_PASSWORD_ID' \in used
  <1> DEFINE f == first["alpha"]
             at == Chain("alpha", f)
             position(c) == Least({n \in DOMAIN at : at[n] = c})
             closer(c, d) == name[c] < name[d] \/ (name[c] = name[d] /\ position(c) <= position(d))
             candidates == {c \in Members("alpha", f) : name[c] >= letter}
             chosen == CHOOSE c \in candidates : \A d \in candidates : closer(c, d)
             returns == \/ Ends("alpha", f)
                        \/ \E n \in 1 .. MAXIMUM_NUMBER_OF_PWD : at[n] = f
                        \/ \E c \in candidates : name[c] = letter
  <1>0. Select(IF candidates = {} THEN CURRENT_PASSWORD_ID ELSE chosen, returns)
    BY DEF Browse
  <1>1. "alpha" \in Lists /\ Memory \in Fram
    BY ListFacts DEF Lists
  <1>2. PICK s : Order(Memory, "alpha", s)
    BY <1>1, ListFacts
  <1>3. CASE NUM_PWD # 0
    <2>1. Ends("alpha", f) /\ Members("alpha", f) = used
      BY <1>1, <1>2, <1>3, WalkMeets
    <2>2. at = [n \in 0 .. MAXIMUM_NUMBER_OF_PWD |-> IF n < NUM_PWD THEN s[n + 1] ELSE Nil]
      BY <1>1, <1>2, <1>3, ChainIs
    <2>3. ASSUME NEW c \in used PROVE position(c) \in Nat /\ name[c] \in Nat
      <3> DEFINE T == {n \in DOMAIN at : at[n] = c}
      <3>1. PICK n \in 1 .. NUM_PWD : s[n] = c
        BY <1>1, <1>2, ListIs
      <3>2. NUM_PWD \in 0 .. Last
        BY ListFacts
      <3>3. n - 1 \in 0 .. MAXIMUM_NUMBER_OF_PWD /\ n - 1 < NUM_PWD /\ (n - 1) + 1 = n
        BY <3>1, <3>2, Sizes DEF Nil
      <3>4. n - 1 \in T
        BY <2>2, <3>1, <3>3
      <3>5. T \in SUBSET Nat
        BY <2>2, Sizes
      <3> HIDE DEF T
      <3>6. Least(T) \in Nat
        BY <3>4, <3>5, LeastExists
      <3>7. name \in [Ids -> Names] /\ c \in Ids
        BY <1>1, MemoryFields, FramFields
      <3> QED
        BY <3>6, <3>7, ListAssumption DEF T
    <2>4. candidates \subseteq used
      BY <2>1
    <2> HIDE DEF position, candidates, at
    <2>5. ASSUME candidates # {}
          PROVE  \E c \in candidates : \A d \in candidates : closer(c, d)
      <3> DEFINE letters == {name[c] : c \in candidates}
      <3>1. letters \in SUBSET Nat /\ letters # {}
        BY <2>3, <2>4, <2>5
      <3> HIDE DEF letters
      <3>2. PICK x \in letters : \A y \in letters : x <= y
        BY <3>1, LeastExists
      <3> DEFINE places == {position(c) : c \in {d \in candidates : name[d] = x}}
      <3>3. places \in SUBSET Nat /\ places # {}
        BY <2>3, <2>4, <3>2 DEF letters
      <3> HIDE DEF places
      <3>4. PICK y \in places : \A z \in places : y <= z
        BY <3>3, LeastExists
      <3>5. PICK c \in candidates : name[c] = x /\ position(c) = y
        BY DEF places
      <3>6. ASSUME NEW d \in candidates PROVE closer(c, d)
        <4>1. x <= name[d] /\ x \in Nat /\ name[d] \in Nat
          BY <2>3, <2>4, <3>1, <3>2 DEF letters
        <4>2. name[d] = x => y <= position(d)
          BY <3>4 DEF places
        <4> QED
          BY <3>5, <4>1, <4>2
      <3> QED
        BY <3>6
    <2> HIDE DEF closer
    <2>6. candidates # {} => chosen \in used
      BY <2>4, <2>5
    <2>7. returns
      BY <2>1
    <2> HIDE DEF chosen, returns
    <2> QED
      BY <1>0, <1>3, <2>6, <2>7 DEF Select
  <1>4. CASE NUM_PWD = 0
    <2>1. /\ used = {} /\ Catalogue(Memory) /\ CURRENT_PASSWORD_ID = 0 /\ 0 \in Ids
          /\ f = 0 /\ next["alpha"][0] = 0
      <3>1. Catalogue(Memory)
        BY Quiet
      <3>2. used = {}
        BY <1>4, ListFacts
      <3> QED
        BY <1>1, <1>2, <1>4, <3>1, <3>2, MemoryFields, ListIs, Sizes DEF Catalogue
    <2>2. at = [n \in 0 .. MAXIMUM_NUMBER_OF_PWD |-> 0]
      BY <2>1, ChainTurns
    <2>3. 1 \in 1 .. MAXIMUM_NUMBER_OF_PWD /\ at[1] = f
      BY <2>1, <2>2, Sizes
    <2>4. returns
      BY <2>3
    <2>5. candidates \subseteq {0}
      <3>1. Members("alpha", f) \subseteq {0}
        BY <2>2 DEF Members
      <3> QED
        BY <3>1
    <2>6. candidates # {} => candidates = {0}
      BY <2>5
    <2>7. candidates # {} => chosen = 0
      <3>1. position(0) <= position(0)
        <4> DEFINE T == {n \in DOMAIN at : at[n] = 0}
        <4>1. 1 \in T /\ T \in SUBSET Nat
          BY <2>1, <2>2, <2>3, Sizes
        <4> HIDE DEF T
        <4>2. Least(T) \in Nat
          BY <4>1, LeastExists
        <4> QED
          BY <4>2 DEF T
      <3>2. closer(0, 0)
        BY <3>1
      <3> HIDE DEF closer, candidates
      <3> QED
        BY <2>6, <3>2
    <2> HIDE DEF chosen, returns, candidates
    <2> QED
      BY <1>0, <1>4, <2>1, <2>4, <2>7 DEF Select
  <1> QED
    BY <1>3, <1>4

\* Between operations, a move to a stored chunk or another sorting method.
LEMMA MoveKeeps ==
  ASSUME ListInv, pc = "menu", UNCHANGED <<fram, pc, todo, plan, sortVars>>,
         method' \in {"none", "use", "alpha"},
         \/ CURRENT_PASSWORD_ID' = CURRENT_PASSWORD_ID
         \/ NUM_PWD # 0 /\ CURRENT_PASSWORD_ID' \in used
  PROVE  ListInv'
  <1>1. todo = <<>> /\ plan = <<>>
    BY DEF ListInv, Control
  <1>2. PICK F : F = Memory
    OBVIOUS
  <1>3. F \in Fram /\ Catalogue(F) /\ Leads(Memory, Elements(todo), F)
    BY <1>1, <1>2, Quiet DEF ListInv
  <1>4. UNCHANGED <<used, NUM_PWD, first, prev, next, count, name, current, sorting_position>>
        /\ UNCHANGED <<pc, todo, plan>>
    BY DEF fram, sortVars
  <1>5. Memory' = F
    BY <1>2, <1>4 DEF Memory
  <1>6. CURRENT_PASSWORD_ID' \in Ids
    BY <1>2, <1>3, FramFields, MemoryFields DEF ListInv, LocalsOK
  <1>7. LocalsOK' /\ Control'
    BY <1>1, <1>4, <1>6 DEF ListInv, LocalsOK, Control, Begun
  <1>8. Leads(Memory', Elements(todo'), F)
    BY <1>2, <1>3, <1>4, <1>5
  <1>9. Catalogue(F)'
    BY <1>2, <1>3, <1>4, MemoryFields DEF Catalogue, Arranged, Walk, Begun
  <1> QED
    BY <1>3, <1>5, <1>7, <1>8, <1>9, Establish

\* The moves of the main and browse states, and the choice of a method.
LEMMA MovesKeep ==
  ASSUME ListInv,
         \/ \E m \in {"none", "use", "alpha"} : SetMethod(m)
         \/ PrevButton \/ NextButton \/ \E letter \in Names : Browse(letter)
  PROVE  ListInv'
  <1>1. pc = "menu"
    BY DEF SetMethod, PrevButton, NextButton, Browse
  <1>2. /\ todo = <<>> /\ method \in {"none", "use", "alpha"}
        /\ NUM_PWD # 0 => CURRENT_PASSWORD_ID \in used
    <2>1. todo = <<>> /\ method \in {"none", "use", "alpha"}
      BY <1>1 DEF ListInv, Control, LocalsOK
    <2> QED
      BY <1>1, <2>1, Quiet, MemoryFields DEF Catalogue
  <1>3. CASE \E m \in {"none", "use", "alpha"} : SetMethod(m)
    BY <1>1, <1>3, MoveKeeps DEF SetMethod
  <1>4. CASE PrevButton
    <2>1. NUM_PWD # 0 /\ CURRENT_PASSWORD_ID \in used
      BY <1>2, <1>4 DEF PrevButton, Selected
    <2>2. /\ method = "none" \/ PrevReturns(method, CURRENT_PASSWORD_ID)
          /\ PrevOf(CURRENT_PASSWORD_ID) \in used
      BY <1>2, <2>1, PrevStored
    <2>3. CURRENT_PASSWORD_ID' \in used /\ UNCHANGED <<fram, method, pc, todo, plan, sortVars>>
      BY <1>4, <2>2 DEF PrevButton, Select
    <2> QED
      BY <1>1, <1>2, <2>1, <2>3, MoveKeeps
  <1>5. CASE NextButton
    <2>1. NUM_PWD # 0 /\ CURRENT_PASSWORD_ID \in used
      BY <1>2, <1>5 DEF NextButton, Selected
    <2>2. NextOf(CURRENT_PASSWORD_ID) \in used
      BY <1>2, <2>1, NextStored
    <2>3. CURRENT_PASSWORD_ID' \in used /\ UNCHANGED <<fram, method, pc, todo, plan, sortVars>>
      BY <1>5, <2>2 DEF NextButton, Select
    <2> QED
      BY <1>1, <1>2, <2>1, <2>3, MoveKeeps
  <1>6. CASE \E letter \in Names : Browse(letter)
    <2>1. PICK letter \in Names : Browse(letter)
      BY <1>6
    <2>2. /\ pc' = pc
          /\ IF NUM_PWD = 0 THEN CURRENT_PASSWORD_ID' = CURRENT_PASSWORD_ID
             ELSE CURRENT_PASSWORD_ID' = CURRENT_PASSWORD_ID \/ CURRENT_PASSWORD_ID' \in used
      BY <1>1, <1>2, <2>1, BrowseStored
    <2>3. UNCHANGED <<fram, method, todo, plan, sortVars>>
      BY <2>1 DEF Browse, Select
    <2> QED
      BY <1>1, <1>2, <2>2, <2>3, MoveKeeps
  <1> QED
    BY <1>3, <1>4, <1>5, <1>6
-----------------------------------------------------------------------------
(***************************************************************************)
(* Starting an operation: its writes lead to a memory in which the lists   *)
(* that it will not sort are in order.                                     *)
(***************************************************************************)
\* What an operation owes: the memory F, with whole lists, that its writes lead to.
LEMMA StartKeeps ==
  ASSUME ListInv, NEW ws \in Seq(WriteSet), NEW ls, Start(ws, ls), NEW F \in Fram,
         pc \in {"menu", "locked"}, UNCHANGED method,
         ls \in {<<>>, <<"use">>, <<"alpha">>, <<"use", "alpha">>},
         Leads(Memory, Elements(ws), F),
         IF F.num = 0 THEN CURRENT_PASSWORD_ID' = 0 ELSE CURRENT_PASSWORD_ID' \in F.used,
         \A l \in Lists, c \in Ids \ F.used : F.next[l][c] = 0,
         \A l \in Lists : \E s : /\ Order(F, l, s)
                                 /\ l \notin Elements(ls) => SortedTo(F, l, s, F.num)
  PROVE  ListInv'
  <1>1. /\ UNCHANGED <<used, NUM_PWD, first, prev, next, count, name, current, sorting_position>>
        /\ pc' = "sort" /\ todo' = ws /\ plan' = ls
    BY DEF Start, fram, sortVars
  <1>2. Memory' = Memory
    BY <1>1 DEF Memory
  <1>3. plan = <<>> /\ ~Begun /\ current = Nil
    BY DEF ListInv, Control
  <1>4. ~Begun' /\ current' = Nil
    BY <1>1, <1>3 DEF Begun
  <1>5. CURRENT_PASSWORD_ID' \in Ids
    BY FramFields, Sizes
  <1>6. LocalsOK'
    BY <1>1, <1>5 DEF ListInv, LocalsOK
  <1>7. Control'
    BY <1>1, <1>4 DEF Control
  <1>8. (Memory \in Fram)'
    BY <1>2 DEF ListInv
  <1>9. Leads(Memory', Elements(todo'), F)
    BY <1>1, <1>2
  <1>10. Catalogue(F)'
    <2>1. ASSUME NEW l \in Lists PROVE Arranged(F, l)'
      <3>1. PICK s : Order(F, l, s) /\ (l \notin Elements(ls) => SortedTo(F, l, s, F.num))
        OBVIOUS
      <3>2. s \in [1 .. F.num -> F.used]
        BY <3>1 DEF Order
      <3> QED
        BY <1>1, <1>4, <3>1, <3>2 DEF Arranged
    <2> QED
      BY <1>1, <1>4, <2>1 DEF Catalogue
  <1> QED
    BY <1>6, <1>7, <1>8, <1>9, <1>10, Establish

\* Between operations every list is in order; the lists are kept whole by a
\* change of a counter or a name.
LEMMA QuietSorted ==
  ASSUME ListInv, pc \in {"menu", "locked"}
  PROVE  /\ todo = <<>> /\ plan = <<>> /\ Memory \in Fram
         /\ \A l \in Lists : \E s : Order(Memory, l, s) /\ SortedTo(Memory, l, s, NUM_PWD)
         /\ \A l \in Lists, c \in Ids \ used : next[l][c] = 0
         /\ NUM_PWD = 0 => CURRENT_PASSWORD_ID = 0
         /\ NUM_PWD # 0 /\ pc = "menu" => CURRENT_PASSWORD_ID \in used
  <1>1. todo = <<>> /\ plan = <<>>
    BY DEF ListInv, Control
  <1>2. Catalogue(Memory) /\ Elements(plan) = {}
    BY <1>1, Quiet, ElementsEmpty
  <1> QED
    BY <1>1, <1>2, MemoryFields DEF Catalogue, Arranged

\* Unlocking selects the first credential and sorts both lists.
LEMMA UnlockKeeps == ListInv /\ Unlock => ListInv'
  <1> SUFFICES ASSUME ListInv, Unlock PROVE ListInv'
    OBVIOUS
  <1>1. pc = "locked" /\ CURRENT_PASSWORD_ID' = FirstOf /\ Start(<<>>, <<"use", "alpha">>)
        /\ UNCHANGED method
    BY DEF Unlock
  <1>2. /\ todo = <<>> /\ Memory \in Fram
        /\ \A l \in Lists : \E s : Order(Memory, l, s) /\ SortedTo(Memory, l, s, NUM_PWD)
        /\ \A l \in Lists, c \in Ids \ used : next[l][c] = 0
    BY <1>1, QuietSorted
  <1>3. IF NUM_PWD = 0 THEN CURRENT_PASSWORD_ID' = 0 ELSE CURRENT_PASSWORD_ID' \in used
    BY <1>1, <1>2, FirstStored, ListFacts
  <1>4. <<>> \in Seq(WriteSet) /\ Leads(Memory, Elements(<<>>), Memory)
    BY ElementsEmpty, LeadsNowhere
  <1> QED
    BY <1>1, <1>2, <1>3, <1>4, StartKeeps, MemoryFields

\* An operation is over when nothing is left to write or to sort.
LEMMA ReturnKeeps == ListInv /\ Return => ListInv'
  <1> SUFFICES ASSUME ListInv, Return PROVE ListInv'
    OBVIOUS
  <1>1. /\ todo = <<>> /\ plan = <<>> /\ pc = "sort" /\ pc' = "menu"
        /\ UNCHANGED <<used, NUM_PWD, first, prev, next, count, name, current, sorting_position>>
        /\ UNCHANGED <<method, CURRENT_PASSWORD_ID, todo, plan>>
    BY DEF Return, fram, sortVars
  <1>2. PICK F : F = Memory
    OBVIOUS
  <1>3. F \in Fram /\ Catalogue(F) /\ Leads(Memory, Elements(todo), F)
    BY <1>1, <1>2, Quiet DEF ListInv
  <1>4. Memory' = F
    BY <1>1, <1>2 DEF Memory
  <1>5. LocalsOK' /\ Control'
    BY <1>1 DEF ListInv, LocalsOK, Control, Begun
  <1>6. Leads(Memory', Elements(todo'), F)
    BY <1>1, <1>2, <1>3, <1>4
  <1>7. Catalogue(F)'
    BY <1>1, <1>3 DEF Catalogue, Arranged, Walk, Begun
  <1> QED
    BY <1>3, <1>4, <1>5, <1>6, <1>7, Establish

\* Power lost between operations leaves the lists as they are.
LEMMA CrashKeeps ==
  ASSUME ~CutAnywhere, ListInv, Crash
  PROVE  ListInv'
  <1>1. /\ pc \in {"locked", "menu"} /\ pc' = "locked" /\ CURRENT_PASSWORD_ID' = 0
        /\ todo' = <<>> /\ plan' = <<>> /\ current' = Nil /\ sorting_position' = Nil
        /\ UNCHANGED <<used, NUM_PWD, first, prev, next, count, name, method>>
    BY DEF Crash, fram
  <1>2. /\ todo = <<>> /\ Memory \in Fram
        /\ \A l \in Lists : \E s : Order(Memory, l, s) /\ SortedTo(Memory, l, s, NUM_PWD)
        /\ \A l \in Lists, c \in Ids \ used : next[l][c] = 0
    BY <1>1, QuietSorted
  <1>3. PICK F : F = Memory
    OBVIOUS
  <1>4. Memory' = F /\ F \in Fram
    BY <1>1, <1>2, <1>3 DEF Memory
  <1>5. LocalsOK' /\ Control'
    BY <1>1, Sizes, ElementsEmpty DEF ListInv, LocalsOK, Control, Begun
  <1>6. Leads(Memory', Elements(todo'), F)
    BY <1>1, <1>4, ElementsEmpty, LeadsNowhere
  <1>7. Catalogue(F)'
    <2>1. ASSUME NEW l \in Lists PROVE Arranged(F, l)'
      <3>1. PICK s : Order(F, l, s) /\ SortedTo(F, l, s, F.num)
        BY <1>2, <1>3, MemoryFields
      <3>2. s \in [1 .. F.num -> F.used]
        BY <3>1 DEF Order
      <3> QED
        BY <1>1, <3>1, <3>2 DEF Arranged, Begun
    <2> QED
      BY <1>1, <1>2, <1>3, <1>4, <2>1, MemoryFields DEF Catalogue, Begun
  <1> QED
    BY <1>4, <1>5, <1>6, <1>7, Establish
\* A use is counted, or a credential renamed: the list by the other key stays
\* in order.
LEMMA SendPwdKeeps == ListInv /\ SendPwd => ListInv'
  <1> SUFFICES ASSUME ListInv, SendPwd PROVE ListInv'
    OBVIOUS
  <1> DEFINE c == CURRENT_PASSWORD_ID
             v == (count[c] + 1) % COUNT_MOD
             w == Write("count", "use", c, v)
             F == [Memory EXCEPT !.count = [count EXCEPT ![c] = v]]
  <1>1. pc = "menu" /\ NUM_PWD # 0 /\ Start(<<w>>, <<"use">>) /\ UNCHANGED <<method, CURRENT_PASSWORD_ID>>
    BY DEF SendPwd, Selected
  <1>2. /\ Memory \in Fram /\ c \in used
        /\ \A l \in Lists : \E s : Order(Memory, l, s) /\ SortedTo(Memory, l, s, NUM_PWD)
        /\ \A l \in Lists, d \in Ids \ used : next[l][d] = 0
    BY <1>1, QuietSorted
  <1>3. c \in Ids /\ count \in [Ids -> 0 .. COUNT_MOD - 1]
    BY <1>2, FramFields, MemoryFields
  <1>4. v \in 0 .. COUNT_MOD - 1
    BY <1>3, ListAssumption
  <1> HIDE DEF v
  <1>5. /\ w \in WriteSet /\ w.field = "count" /\ w.id = c /\ w.val = v
    BY <1>3, <1>4, ListAssumption DEF WriteSet, Write, Lists
  <1> HIDE DEF w
  <1>6. <<w>> \in Seq(WriteSet) /\ Elements(<<w>>) = {w}
    BY <1>5 DEF Elements
  <1>7. [count EXCEPT ![c] = v] \in [Ids -> 0 .. COUNT_MOD - 1]
    BY <1>3, <1>4
  <1>8. /\ F.used = used /\ F.num = NUM_PWD /\ F.first = first /\ F.prev = prev
        /\ F.next = next /\ F.name = name /\ F.count = [count EXCEPT ![c] = v]
    BY DEF Memory
  <1>9. F \in Fram
    BY <1>2, <1>7 DEF Memory, Fram
  <1>10. PICK G : G = F
    OBVIOUS
  <1> HIDE DEF F, c
  <1>11. Agrees(G, w)
    BY <1>3, <1>5, <1>8, <1>10 DEF Agrees
  <1>12. Covers(Memory, {w}, G)
    BY <1>3, <1>5, <1>8, <1>10, MemoryFields DEF Covers
  <1>13. Leads(Memory, Elements(<<w>>), G)
    BY <1>6, <1>11, <1>12 DEF Leads
  <1>14. ASSUME NEW l \in Lists
         PROVE  \E s : /\ Order(G, l, s)
                       /\ l \notin Elements(<<"use">>) => SortedTo(G, l, s, G.num)
    <2>1. PICK s : Order(Memory, l, s) /\ SortedTo(Memory, l, s, NUM_PWD)
      BY <1>2
    <2>2. Order(G, l, s)
      BY <1>2, <1>8, <1>9, <1>10, <2>1, KeepOrder, MemoryFields
    <2>3. l \notin Elements(<<"use">>) => l # "use"
      BY DEF Elements
    <2>4. l # "use" => SortedTo(G, l, s, G.num)
      BY <1>8, <1>10, <2>1, MemoryFields DEF SortedTo, InOrder
    <2> QED
      BY <2>2, <2>3, <2>4
  <1>15. IF G.num = 0 THEN CURRENT_PASSWORD_ID' = 0 ELSE CURRENT_PASSWORD_ID' \in G.used
    BY <1>1, <1>2, <1>8, <1>10 DEF c
  <1>16. \A l \in Lists, d \in Ids \ G.used : G.next[l][d] = 0
    BY <1>2, <1>8, <1>10
  <1>17. G \in Fram
    BY <1>9, <1>10
  <1> QED
    BY <1>1, <1>6, <1>13, <1>14, <1>15, <1>16, <1>17, StartKeeps

\* A renaming leaves the list by use as it is.
LEMMA ChangeNameKeeps ==
  ASSUME ListInv, NEW n \in Names, ChangeName(n)
  PROVE  ListInv'
  <1> DEFINE c == CURRENT_PASSWORD_ID
             w == Write("name", "use", c, n)
             F == [Memory EXCEPT !.name = [name EXCEPT ![c] = n]]
  <1>1. pc = "menu" /\ NUM_PWD # 0 /\ Start(<<w>>, <<"alpha">>) /\ UNCHANGED <<method, CURRENT_PASSWORD_ID>>
    BY DEF ChangeName, Selected
  <1>2. /\ Memory \in Fram /\ c \in used
        /\ \A l \in Lists : \E s : Order(Memory, l, s) /\ SortedTo(Memory, l, s, NUM_PWD)
        /\ \A l \in Lists, d \in Ids \ used : next[l][d] = 0
    BY <1>1, QuietSorted
  <1>3. c \in Ids /\ name \in [Ids -> Names]
    BY <1>2, FramFields, MemoryFields
  <1>4. w \in WriteSet /\ w.field = "name" /\ w.id = c /\ w.val = n
    BY <1>3, ListAssumption DEF WriteSet, Write, Lists
  <1> HIDE DEF w
  <1>5. <<w>> \in Seq(WriteSet) /\ Elements(<<w>>) = {w}
    BY <1>4 DEF Elements
  <1>6. [name EXCEPT ![c] = n] \in [Ids -> Names]
    BY <1>3
  <1>7. /\ F.used = used /\ F.num = NUM_PWD /\ F.first = first /\ F.prev = prev
        /\ F.next = next /\ F.count = count /\ F.name = [name EXCEPT ![c] = n]
    BY DEF Memory
  <1>8. F \in Fram
    BY <1>2, <1>6 DEF Memory, Fram
  <1>9. PICK G : G = F
    OBVIOUS
  <1> HIDE DEF F, c
  <1>10. Agrees(G, w)
    BY <1>3, <1>4, <1>7, <1>9 DEF Agrees
  <1>11. Covers(Memory, {w}, G)
    BY <1>3, <1>4, <1>7, <1>9, MemoryFields DEF Covers
  <1>12. Leads(Memory, Elements(<<w>>), G)
    BY <1>5, <1>10, <1>11 DEF Leads
  <1>13. ASSUME NEW l \in Lists
         PROVE  \E s : /\ Order(G, l, s)
                       /\ l \notin Elements(<<"alpha">>) => SortedTo(G, l, s, G.num)
    <2>1. PICK s : Order(Memory, l, s) /\ SortedTo(Memory, l, s, NUM_PWD)
      BY <1>2
    <2>2. Order(G, l, s)
      BY <1>2, <1>7, <1>8, <1>9, <2>1, KeepOrder, MemoryFields
    <2>3. l \notin Elements(<<"alpha">>) => l = "use"
      BY DEF Elements, Lists
    <2>4. l = "use" => SortedTo(G, l, s, G.num)
      BY <1>7, <1>9, <2>1, MemoryFields DEF SortedTo, InOrder
    <2> QED
      BY <2>2, <2>3, <2>4
  <1>14. IF G.num = 0 THEN CURRENT_PASSWORD_ID' = 0 ELSE CURRENT_PASSWORD_ID' \in G.used
    BY <1>1, <1>2, <1>7, <1>9 DEF c
  <1>15. \A l \in Lists, d \in Ids \ G.used : G.next[l][d] = 0
    BY <1>2, <1>7, <1>9
  <1>16. G \in Fram
    BY <1>8, <1>9
  <1> QED
    BY <1>1, <1>5, <1>12, <1>13, <1>14, <1>15, <1>16, StartKeeps
-----------------------------------------------------------------------------
(***************************************************************************)
(* Adding a credential.                                                    *)
(***************************************************************************)
\* What a write is, and when the memory F has its value.
LEMMA WriteFields ==
  ASSUME NEW f, NEW l, NEW c, NEW v
  PROVE  /\ Write(f, l, c, v).field = f /\ Write(f, l, c, v).list = l
         /\ Write(f, l, c, v).id = c /\ Write(f, l, c, v).val = v
         /\ (/\ f \in {"prev", "next", "first", "set", "unset", "count", "name", "num", "clear"}
             /\ l \in Lists /\ c \in Ids /\ v \in Int)
            => Write(f, l, c, v) \in WriteSet
  BY DEF Write, WriteSet

\* When the memory F holds what a write puts.
LEMMA Puts ==
  ASSUME NEW F, NEW l, NEW c, NEW v
  PROVE  /\ Agrees(F, Write("set", l, c, v)) <=> c \in F.used
         /\ Agrees(F, Write("unset", l, c, v)) <=> c \notin F.used
         /\ Agrees(F, Write("num", l, c, v)) <=> F.num = v
         /\ Agrees(F, Write("first", l, c, v)) <=> F.first[l] = v
         /\ Agrees(F, Write("prev", l, c, v)) <=> F.prev[l][c] = v
         /\ Agrees(F, Write("next", l, c, v)) <=> F.next[l][c] = v
         /\ Agrees(F, Write("count", l, c, v)) <=> F.count[c] = v
         /\ Agrees(F, Write("name", l, c, v)) <=> F.name[c] = v
         /\ Agrees(F, Write("clear", l, c, v))
              <=> /\ \A k \in Lists : F.prev[k][c] = 0 /\ F.next[k][c] = 0
                  /\ F.count[c] = v /\ F.name[c] = v
  BY DEF Agrees, Write

\* The elements of a literal sequence.
LEMMA ElementsOfOne ==
  ASSUME NEW S, NEW a \in S
  PROVE  <<a>> \in Seq(S) /\ Elements(<<a>>) = {a}
  BY DEF Elements

\* The same with two ...
LEMMA ElementsOfTwo ==
  ASSUME NEW S, NEW a \in S, NEW b \in S
  PROVE  <<a, b>> \in Seq(S) /\ Elements(<<a, b>>) = {a, b}
  <1>1. DOMAIN <<a, b>> = {1, 2} /\ <<a, b>>[1] = a /\ <<a, b>>[2] = b
    OBVIOUS
  <1> QED
    BY <1>1 DEF Elements

\* ... three ...
LEMMA ElementsOfThree ==
  ASSUME NEW S, NEW a \in S, NEW b \in S, NEW c \in S
  PROVE  <<a, b, c>> \in Seq(S) /\ Elements(<<a, b, c>>) = {a, b, c}
  <1>1. DOMAIN <<a, b, c>> = {1, 2, 3} /\ <<a, b, c>>[1] = a /\ <<a, b, c>>[2] = b /\ <<a, b, c>>[3] = c
    OBVIOUS
  <1> QED
    BY <1>1 DEF Elements

\* ... and four of them.
LEMMA ElementsOfFour ==
  ASSUME NEW S, NEW a \in S, NEW b \in S, NEW c \in S, NEW d \in S
  PROVE  <<a, b, c, d>> \in Seq(S) /\ Elements(<<a, b, c, d>>) = {a, b, c, d}
  <1>1. /\ DOMAIN <<a, b, c, d>> = {1, 2, 3, 4} /\ <<a, b, c, d>>[1] = a
        /\ <<a, b, c, d>>[2] = b /\ <<a, b, c, d>>[3] = c /\ <<a, b, c, d>>[4] = d
    OBVIOUS
  <1> QED
    BY <1>1 DEF Elements

\* The first free chunk is not the last one; it is the first of an empty memory.
LEMMA FreeChunk ==
  ASSUME ListInv, todo = <<>>, NUM_PWD # MAXIMUM_NUMBER_OF_PWD - 1
  PROVE  /\ Least(Ids \ used) \in 0 .. Last - 1 /\ Least(Ids \ used) \notin used
         /\ NUM_PWD = 0 => Least(Ids \ used) = 0
  <1>1. NUM_PWD \in 0 .. Last /\ used \subseteq 0 .. Last - 1 /\ (used = {} <=> NUM_PWD = 0)
        /\ Memory \in Fram /\ NUM_PWD < Last
    BY ListFacts, Sizes DEF Last
  <1>2. "use" \in Lists
    BY DEF Lists
  <1>3. PICK s : Order(Memory, "use", s)
    BY <1>2, ListFacts
  <1>4. IsFiniteSet(used) /\ Cardinality(used) = NUM_PWD
    BY <1>1, <1>2, <1>3, OrderNumber, MemoryFields
  <1>5. IsFiniteSet(0 .. Last - 1) /\ Cardinality(0 .. Last - 1) = Last
    <2>1. 0 \in Int /\ Last - 1 \in Int /\ 0 <= Last - 1 /\ (Last - 1) - 0 + 1 = Last
      BY Sizes
    <2>2. Cardinality(0 .. Last - 1) = (Last - 1) - 0 + 1
      BY <2>1, FS_Interval
    <2> QED
      BY <2>1, <2>2, FS_Interval
  <1>6. PICK d \in 0 .. Last - 1 : d \notin used
    <2>1. used # 0 .. Last - 1
      BY <1>1, <1>4, <1>5, Sizes
    <2> QED
      BY <1>1, <2>1
  <1>7. Ids \ used \in SUBSET Nat /\ d \in Ids \ used
    BY <1>6, Sizes
  <1>8. Least(Ids \ used) \in Ids \ used /\ \A y \in Ids \ used : Least(Ids \ used) <= y
    BY <1>7, LeastExists
  <1>9. Least(Ids \ used) <= d /\ Least(Ids \ used) \in Nat
    BY <1>7, <1>8
  <1>10. NUM_PWD = 0 => 0 \in Ids \ used
    BY <1>1, Sizes
  <1>11. NUM_PWD = 0 => Least(Ids \ used) <= 0
    BY <1>8, <1>10
  <1> QED
    BY <1>6, <1>8, <1>9, <1>11, Sizes

\* The walk of pwd_list_add_pwd finds the last chunk of each list.
LEMMA LastFound ==
  ASSUME ListInv, todo = <<>>, NUM_PWD # 0, NEW l \in Lists, NEW s, Order(Memory, l, s)
  PROVE  PrevReturns(l, first[l]) /\ PrevSorted(l, first[l]) = s[NUM_PWD]
  <1>1. Memory \in Fram /\ NUM_PWD \in Nat
    BY ListFacts, Sizes
  <1>2. 1 \in 1 .. NUM_PWD
    BY <1>1
  <1>3. prev[l][first[l]] = Nil
    BY <1>1, <1>2, ListIs
  <1>4. Ends(l, first[l]) /\ LastFrom(l, first[l]) = s[NUM_PWD]
    BY <1>1, WalkMeets
  <1> QED
    BY <1>3, <1>4 DEF PrevReturns, PrevSorted

\* The memory in which the chunk c of name n comes last in both lists.
Added(c, last, n) ==
  [used  |-> used \cup {c}, num |-> NUM_PWD + 1, first |-> first,
   prev  |-> [l \in Lists |-> [d \in Ids |-> IF d = c THEN last[l] ELSE prev[l][d]]],
   next  |-> [l \in Lists |-> [d \in Ids |->
                IF d = c THEN Nil ELSE IF NUM_PWD # 0 /\ d = last[l] THEN c ELSE next[l][d]]],
   count |-> [count EXCEPT ![c] = 0], name |-> [name EXCEPT ![c] = n]]

AddWrites(c, last, n) ==
  <<Write("set", "use", c, 0)>> \o LinkLast(c, last)
    \o <<Write("count", "use", c, 0), Write("name", "use", c, n), Write("num", "use", c, NUM_PWD + 1)>>

\* The writes of an addition, as a set.
LEMMA AddWritesAre ==
  ASSUME NEW c \in Ids, NEW last, \A l \in Lists : last[l] \in Int /\ (NUM_PWD # 0 => last[l] \in Ids),
         NEW n \in Names, NUM_PWD \in Nat
  PROVE  /\ AddWrites(c, last, n) \in Seq(WriteSet)
         /\ Elements(AddWrites(c, last, n)) =
              {Write("set", "use", c, 0), Write("count", "use", c, 0), Write("name", "use", c, n),
               Write("num", "use", c, NUM_PWD + 1)}
                \cup {Write("prev", l, c, last[l]) : l \in Lists}
                \cup {Write("next", l, c, Nil) : l \in Lists}
                \cup (IF NUM_PWD = 0 THEN {} ELSE {Write("next", l, last[l], c) : l \in Lists})
  <1> DEFINE pu == Write("prev", "use", c, last["use"])
             pa == Write("prev", "alpha", c, last["alpha"])
             nu == Write("next", "use", c, Nil)
             na == Write("next", "alpha", c, Nil)
             lu == Write("next", "use", last["use"], c)
             la == Write("next", "alpha", last["alpha"], c)
             st == Write("set", "use", c, 0)
             ct == Write("count", "use", c, 0)
             nm == Write("name", "use", c, n)
             nb == Write("num", "use", c, NUM_PWD + 1)
             links == IF NUM_PWD = 0 THEN <<>> ELSE <<lu, la>>
             head == <<st>>
             ends == <<pu, nu, pa, na>>
             keys == <<ct, nm, nb>>
  <1>1. /\ Lists = {"use", "alpha"} /\ c \in Int /\ n \in Int /\ NUM_PWD + 1 \in Int /\ Nil \in Int
        /\ last["use"] \in Int /\ last["alpha"] \in Int
        /\ NUM_PWD # 0 => last["use"] \in Ids /\ last["alpha"] \in Ids
    BY Sizes, ListAssumption DEF Lists
  <1>2. /\ pu \in WriteSet /\ pa \in WriteSet /\ nu \in WriteSet /\ na \in WriteSet
        /\ st \in WriteSet /\ ct \in WriteSet /\ nm \in WriteSet /\ nb \in WriteSet
        /\ NUM_PWD # 0 => lu \in WriteSet /\ la \in WriteSet
    BY <1>1, WriteFields
  <1>3. AddWrites(c, last, n) = head \o (links \o ends) \o keys
    BY DEF AddWrites, LinkLast
  <1>4. /\ {pu, pa} = {Write("prev", l, c, last[l]) : l \in Lists}
        /\ {nu, na} = {Write("next", l, c, Nil) : l \in Lists}
        /\ {lu, la} = {Write("next", l, last[l], c) : l \in Lists}
    BY <1>1
  <1> HIDE DEF pu, pa, nu, na, lu, la, st, ct, nm, nb
  <1>5. links \in Seq(WriteSet) /\ Elements(links) = IF NUM_PWD = 0 THEN {} ELSE {lu, la}
    BY <1>2, ElementsOfTwo, ElementsEmpty
  <1>6. /\ head \in Seq(WriteSet) /\ Elements(head) = {st}
        /\ ends \in Seq(WriteSet) /\ Elements(ends) = {pu, nu, pa, na}
        /\ keys \in Seq(WriteSet) /\ Elements(keys) = {ct, nm, nb}
    <2>1. head \in Seq(WriteSet) /\ Elements(head) = {st}
      BY <1>2, ElementsOfOne
    <2>2. ends \in Seq(WriteSet) /\ Elements(ends) = {pu, nu, pa, na}
      BY <1>2, ElementsOfFour
    <2>3. keys \in Seq(WriteSet) /\ Elements(keys) = {ct, nm, nb}
      BY <1>2, ElementsOfThree
    <2> QED
      BY <2>1, <2>2, <2>3
  <1> DEFINE tail == links \o ends
             most == head \o tail
  <1> HIDE DEF links, head, ends, keys
  <1>7. tail \in Seq(WriteSet) /\ Elements(tail) = Elements(links) \cup {pu, nu, pa, na}
    BY <1>5, <1>6, ElementsConcat
  <1>8. AddWrites(c, last, n) = most \o keys
    BY <1>3
  <1> HIDE DEF tail
  <1>9. most \in Seq(WriteSet) /\ Elements(most) = {st} \cup Elements(tail)
    BY <1>6, <1>7, ElementsConcat
  <1> HIDE DEF most
  <1>10. /\ most \o keys \in Seq(WriteSet)
         /\ Elements(most \o keys) = Elements(most) \cup Elements(keys)
    BY <1>6, <1>9, ElementsConcat
  <1> QED
    BY <1>4, <1>5, <1>6, <1>7, <1>8, <1>9, <1>10 DEF st, ct, nm, nb
\* The fields of that memory.
LEMMA AddedIs ==
  ASSUME Memory \in Fram, NEW c \in 0 .. Last - 1, NUM_PWD < Last, NEW last, NEW n \in Names,
         \A l \in Lists : last[l] \in Ptr
  PROVE  /\ Added(c, last, n) \in Fram
         /\ Added(c, last, n).used = used \cup {c} /\ Added(c, last, n).num = NUM_PWD + 1
         /\ Added(c, last, n).first = first
         /\ \A l \in Lists, d \in Ids :
              /\ Added(c, last, n).prev[l][d] = IF d = c THEN last[l] ELSE prev[l][d]
              /\ Added(c, last, n).next[l][d] =
                   IF d = c THEN Nil ELSE IF NUM_PWD # 0 /\ d = last[l] THEN c ELSE next[l][d]
         /\ \A d \in Ids : /\ Added(c, last, n).count[d] = IF d = c THEN 0 ELSE count[d]
                           /\ Added(c, last, n).name[d] = IF d = c THEN n ELSE name[d]
  <1>1. /\ used \subseteq 0 .. Last - 1 /\ NUM_PWD \in 0 .. Last /\ first \in [Lists -> Ids]
        /\ prev \in [Lists -> [Ids -> Ptr]] /\ next \in [Lists -> [Ids -> Ptr]]
        /\ count \in [Ids -> 0 .. COUNT_MOD - 1] /\ name \in [Ids -> Names]
    BY FramFields, MemoryFields
  <1>2. /\ c \in Ids /\ c \in Ptr /\ Nil \in Ptr /\ NUM_PWD + 1 \in 0 .. Last
        /\ 0 \in 0 .. COUNT_MOD - 1 /\ \A d \in Ids : d \in Ptr
    BY <1>1, Sizes, ListAssumption
  <1>3. /\ [l \in Lists |-> [d \in Ids |-> IF d = c THEN last[l] ELSE prev[l][d]]] \in [Lists -> [Ids -> Ptr]]
        /\ [l \in Lists |-> [d \in Ids |-> IF d = c THEN Nil
                               ELSE IF NUM_PWD # 0 /\ d = last[l] THEN c ELSE next[l][d]]]
             \in [Lists -> [Ids -> Ptr]]
        /\ [count EXCEPT ![c] = 0] \in [Ids -> 0 .. COUNT_MOD - 1]
        /\ [name EXCEPT ![c] = n] \in [Ids -> Names]
    BY <1>1, <1>2
  <1>4. Added(c, last, n) \in Fram
    BY <1>1, <1>2, <1>3 DEF Added, Fram
  <1> QED
    BY <1>1, <1>2, <1>4 DEF Added

\* An addition appends the chunk to both lists, which are sorted next.
LEMMA AddPwdKeeps ==
  ASSUME ListInv, NEW n \in Names, AddPwd(n)
  PROVE  ListInv'
  <1> DEFINE c == Least(Ids \ used)
             last == [l \in Lists |-> IF NUM_PWD = 0 THEN Nil ELSE PrevSorted(l, first[l])]
             W == Elements(AddWrites(c, last, n))
  <1>1. pc = "menu" /\ NUM_PWD # MAXIMUM_NUMBER_OF_PWD - 1 /\ UNCHANGED <<method, CURRENT_PASSWORD_ID>>
    BY DEF AddPwd
  <1>2. /\ todo = <<>> /\ Memory \in Fram
        /\ \A l \in Lists : \E s : Order(Memory, l, s)
        /\ \A l \in Lists, d \in Ids \ used : next[l][d] = 0
        /\ NUM_PWD = 0 => CURRENT_PASSWORD_ID = 0
        /\ NUM_PWD # 0 => CURRENT_PASSWORD_ID \in used
    BY <1>1, QuietSorted
  <1>3. c \in 0 .. Last - 1 /\ c \notin used /\ (NUM_PWD = 0 => c = 0)
    BY <1>1, <1>2, FreeChunk
  <1>4. NUM_PWD \in Nat /\ NUM_PWD < Last /\ c \in Ids
    BY <1>1, <1>2, <1>3, ListFacts, Sizes DEF Last
  <1>5. ASSUME NEW l \in Lists, NEW s, Order(Memory, l, s)
        PROVE  /\ last[l] = IF NUM_PWD = 0 THEN Nil ELSE s[NUM_PWD]
               /\ NUM_PWD = 0 \/ PrevReturns(l, first[l])
               /\ NUM_PWD # 0 => last[l] \in used
    <2>1. NUM_PWD # 0 => PrevReturns(l, first[l]) /\ PrevSorted(l, first[l]) = s[NUM_PWD]
      BY <1>2, <1>5, LastFound
    <2>2. NUM_PWD # 0 => NUM_PWD \in 1 .. NUM_PWD
      BY <1>4
    <2>3. NUM_PWD # 0 => s[NUM_PWD] \in used
      BY <1>2, <1>5, <2>2, ListIs
    <2> QED
      BY <2>1, <2>3
  <1>6. \A l \in Lists : /\ NUM_PWD = 0 \/ PrevReturns(l, first[l])
                         /\ IF NUM_PWD = 0 THEN last[l] = Nil ELSE last[l] \in used
    BY <1>2, <1>5
  <1>7. Start(AddWrites(c, last, n), <<"use", "alpha">>)
    BY <1>6 DEF AddPwd, AddWrites
  <1> HIDE DEF c, last
  <1>8. \A l \in Lists : last[l] \in Ptr /\ last[l] \in Int /\ (NUM_PWD # 0 => last[l] \in Ids)
    <2>1. used \subseteq Ids /\ Ids \subseteq Ptr /\ Ptr \subseteq Int
      BY <1>2, ListFacts, Sizes DEF Ptr, Nil
    <2> QED
      BY <1>6, <2>1, Sizes
  <1>9. /\ AddWrites(c, last, n) \in Seq(WriteSet)
        /\ W = {Write("set", "use", c, 0), Write("count", "use", c, 0), Write("name", "use", c, n),
                Write("num", "use", c, NUM_PWD + 1)}
                 \cup {Write("prev", l, c, last[l]) : l \in Lists}
                 \cup {Write("next", l, c, Nil) : l \in Lists}
                 \cup (IF NUM_PWD = 0 THEN {} ELSE {Write("next", l, last[l], c) : l \in Lists})
    BY <1>4, <1>8, AddWritesAre
  <1>10. PICK F : F = Added(c, last, n)
    OBVIOUS
  <1>11. /\ F \in Fram /\ F.used = used \cup {c} /\ F.num = NUM_PWD + 1 /\ F.first = first
         /\ \A l \in Lists, d \in Ids :
              /\ F.prev[l][d] = IF d = c THEN last[l] ELSE prev[l][d]
              /\ F.next[l][d] = IF d = c THEN Nil ELSE IF NUM_PWD # 0 /\ d = last[l] THEN c ELSE next[l][d]
         /\ \A d \in Ids : /\ F.count[d] = IF d = c THEN 0 ELSE count[d]
                           /\ F.name[d] = IF d = c THEN n ELSE name[d]
    BY <1>2, <1>3, <1>4, <1>8, <1>10, AddedIs
  <1> HIDE DEF W
  <1>12. ASSUME NEW w \in W PROVE Agrees(F, w)
    <2>1. CASE w \in {Write("set", "use", c, 0), Write("count", "use", c, 0), Write("name", "use", c, n),
                      Write("num", "use", c, NUM_PWD + 1)}
      BY <1>4, <1>11, <2>1, Puts
    <2>2. CASE \E l \in Lists : w = Write("prev", l, c, last[l])
      BY <1>4, <1>11, <2>2, Puts
    <2>3. CASE \E l \in Lists : w = Write("next", l, c, Nil)
      BY <1>4, <1>11, <2>3, Puts
    <2>4. CASE NUM_PWD # 0 /\ \E l \in Lists : w = Write("next", l, last[l], c)
      <3>1. \A l \in Lists : last[l] # c
        BY <1>3, <1>6, <2>4
      <3> QED
        BY <1>4, <1>8, <1>11, <2>4, <3>1, Puts
    <2> QED
      BY <1>9, <2>1, <2>2, <2>3, <2>4
  <1>13. Covers(Memory, W, F)
    <2>1. \A d \in Ids : \/ d \in F.used <=> d \in used
                         \/ \E w \in W : w.field \in {"set", "unset"} /\ w.id = d
      <3>1. Write("set", "use", c, 0) \in W /\ Write("set", "use", c, 0).field = "set"
            /\ Write("set", "use", c, 0).id = c
        BY <1>9, WriteFields
      <3> QED
        BY <1>11, <3>1
    <2>2. \E w \in W : w.field = "num"
      BY <1>9, WriteFields
    <2>3. ASSUME NEW l \in Lists, NEW d \in Ids
          PROVE  /\ F.prev[l][d] = prev[l][d] \/ \E w \in W : w.id = d /\ w.field = "prev" /\ w.list = l
                 /\ F.next[l][d] = next[l][d] \/ \E w \in W : w.id = d /\ w.field = "next" /\ w.list = l
      <3>1. Write("prev", l, c, last[l]) \in W /\ Write("next", l, c, Nil) \in W
            /\ (NUM_PWD # 0 => Write("next", l, last[l], c) \in W)
        BY <1>9
      <3> QED
        BY <1>11, <3>1, WriteFields
    <2>4. ASSUME NEW d \in Ids
          PROVE  /\ F.count[d] = count[d] \/ \E w \in W : w.id = d /\ w.field \in {"count", "clear"}
                 /\ F.name[d] = name[d] \/ \E w \in W : w.id = d /\ w.field \in {"name", "clear"}
      <3>1. Write("count", "use", c, 0) \in W /\ Write("name", "use", c, n) \in W
        BY <1>9
      <3> QED
        BY <1>11, <3>1, WriteFields
    <2> QED
      BY <1>11, <2>1, <2>2, <2>3, <2>4, MemoryFields DEF Covers
  <1>14. Leads(Memory, W, F)
    BY <1>12, <1>13 DEF Leads
  <1>15. ASSUME NEW l \in Lists
         PROVE  \E s : /\ Order(F, l, s)
                       /\ l \notin Elements(<<"use", "alpha">>) => SortedTo(F, l, s, F.num)
    <2>1. PICK s : Order(Memory, l, s)
      BY <1>2
    <2>2. last[l] = IF NUM_PWD = 0 THEN Nil ELSE s[NUM_PWD]
      BY <1>5, <2>1
    <2>3. ASSUME NEW d \in F.used
          PROVE  /\ F.next[l][d] = IF d = c THEN Nil ELSE IF d = s[NUM_PWD] THEN c ELSE next[l][d]
                 /\ F.prev[l][d] = IF d # c THEN prev[l][d] ELSE IF NUM_PWD = 0 THEN Nil ELSE s[NUM_PWD]
      <3>1. d \in Ids /\ (d # c => NUM_PWD # 0)
        BY <1>2, <1>4, <1>11, ListFacts
      <3> QED
        BY <1>11, <2>2, <3>1
    <2>4. Appends(Memory, F, l, s, c)
      BY <1>3, <1>4, <1>11, <2>3, MemoryFields DEF Appends
    <2>5. Order(F, l, With(s, c, Memory.num))
      BY <1>2, <1>11, <2>1, <2>4, AppendOrder
    <2>6. l \in Elements(<<"use", "alpha">>)
      BY ElementsOfTwo DEF Lists
    <2> QED
      BY <2>5, <2>6
  <1>16. IF F.num = 0 THEN CURRENT_PASSWORD_ID' = 0 ELSE CURRENT_PASSWORD_ID' \in F.used
    <2>1. F.num # 0
      BY <1>4, <1>11
    <2> QED
      BY <1>1, <1>2, <1>3, <1>11, <2>1
  <1>17. \A l \in Lists, d \in Ids \ F.used : F.next[l][d] = 0
    BY <1>2, <1>6, <1>11
  <1> QED
    BY <1>1, <1>7, <1>9, <1>11, <1>14, <1>15, <1>16, <1>17, StartKeeps DEF W
-----------------------------------------------------------------------------
(***************************************************************************)
(* Deleting a credential.                                                  *)
(***************************************************************************)
Deleted(c) ==
  [used  |-> used \ {c}, num |-> NUM_PWD - 1,
   first |-> [l \in Lists |-> IF prev[l][c] # Nil THEN first[l]
                              ELSE IF next[l][c] # Nil THEN next[l][c] ELSE 0],
   prev  |-> [l \in Lists |-> [d \in Ids |->
                IF d = c THEN 0 ELSE IF d = next[l][c] THEN prev[l][c] ELSE prev[l][d]]],
   next  |-> [l \in Lists |-> [d \in Ids |->
                IF d = c THEN 0 ELSE IF d = prev[l][c] THEN next[l][c] ELSE next[l][d]]],
   count |-> [count EXCEPT ![c] = 0], name |-> [name EXCEPT ![c] = 0]]

\* The fields of that memory.
LEMMA DeletedIs ==
  ASSUME Memory \in Fram, NUM_PWD # 0, NEW c \in used
  PROVE  /\ Deleted(c) \in Fram
         /\ Deleted(c).used = used \ {c} /\ Deleted(c).num = NUM_PWD - 1
         /\ \A l \in Lists : Deleted(c).first[l] = IF prev[l][c] # Nil THEN first[l]
                                                   ELSE IF next[l][c] # Nil THEN next[l][c] ELSE 0
         /\ \A l \in Lists, d \in Ids :
              /\ Deleted(c).prev[l][d] =
                   IF d = c THEN 0 ELSE IF d = next[l][c] THEN prev[l][c] ELSE prev[l][d]
              /\ Deleted(c).next[l][d] =
                   IF d = c THEN 0 ELSE IF d = prev[l][c] THEN next[l][c] ELSE next[l][d]
         /\ \A d \in Ids : /\ Deleted(c).count[d] = IF d = c THEN 0 ELSE count[d]
                           /\ Deleted(c).name[d] = IF d = c THEN 0 ELSE name[d]
  <1>1. /\ used \subseteq 0 .. Last - 1 /\ NUM_PWD \in 0 .. Last /\ first \in [Lists -> Ids]
        /\ prev \in [Lists -> [Ids -> Ptr]] /\ next \in [Lists -> [Ids -> Ptr]]
        /\ count \in [Ids -> 0 .. COUNT_MOD - 1] /\ name \in [Ids -> Names] /\ c \in Ids
    BY FramFields, MemoryFields
  <1>2. /\ NUM_PWD - 1 \in 0 .. Last /\ used \ {c} \subseteq 0 .. Last - 1 /\ 0 \in Ptr /\ 0 \in Ids
        /\ 0 \in 0 .. COUNT_MOD - 1 /\ 0 \in Names /\ \A d \in Ptr : d # Nil => d \in Ids
    BY <1>1, Sizes, ListAssumption
  <1>3. /\ [l \in Lists |-> IF prev[l][c] # Nil THEN first[l]
                            ELSE IF next[l][c] # Nil THEN next[l][c] ELSE 0] \in [Lists -> Ids]
        /\ [l \in Lists |-> [d \in Ids |->
             IF d = c THEN 0 ELSE IF d = next[l][c] THEN prev[l][c] ELSE prev[l][d]]]
             \in [Lists -> [Ids -> Ptr]]
        /\ [l \in Lists |-> [d \in Ids |->
             IF d = c THEN 0 ELSE IF d = prev[l][c] THEN next[l][c] ELSE next[l][d]]]
             \in [Lists -> [Ids -> Ptr]]
        /\ [count EXCEPT ![c] = 0] \in [Ids -> 0 .. COUNT_MOD - 1]
        /\ [name EXCEPT ![c] = 0] \in [Ids -> Names]
    BY <1>1, <1>2
  <1>4. Deleted(c) \in Fram
    BY <1>2, <1>3 DEF Deleted, Fram
  <1> QED
    BY <1>1, <1>2, <1>4 DEF Deleted

\* The writes that take a chunk out of a list, as a set.
LEMMA UnlinkIs ==
  ASSUME NEW l \in Lists, NEW c \in Ids, prev[l][c] \in Ptr, next[l][c] \in Ptr
  PROVE  /\ Unlink(l, c) \in Seq(WriteSet)
         /\ Elements(Unlink(l, c)) =
              (IF next[l][c] # Nil THEN {Write("prev", l, next[l][c], prev[l][c])} ELSE {})
                \cup {IF prev[l][c] # Nil THEN Write("next", l, prev[l][c], next[l][c])
                      ELSE Write("first", l, c, IF next[l][c] # Nil THEN next[l][c] ELSE 0)}
  <1> DEFINE p == prev[l][c]
             n == next[l][c]
             wp == Write("prev", l, n, p)
             wn == Write("next", l, p, n)
             wf == Write("first", l, c, IF n # Nil THEN n ELSE 0)
             head == IF n # Nil THEN <<wp>> ELSE <<>>
             tail == IF p # Nil THEN <<wn>> ELSE <<wf>>
  <1>1. \A d \in Ptr : d \in Int /\ (d # Nil => d \in Ids)
    BY Sizes
  <1>2. (n # Nil => wp \in WriteSet) /\ (p # Nil => wn \in WriteSet) /\ wf \in WriteSet
    BY <1>1, WriteFields
  <1>3. Unlink(l, c) = head \o tail
    BY DEF Unlink
  <1> HIDE DEF wp, wn, wf
  <1>4. head \in Seq(WriteSet) /\ Elements(head) = IF n # Nil THEN {wp} ELSE {}
    BY <1>2, ElementsOfOne, ElementsEmpty
  <1>5. tail \in Seq(WriteSet) /\ Elements(tail) = {IF p # Nil THEN wn ELSE wf}
    BY <1>2, ElementsOfOne
  <1> HIDE DEF head, tail
  <1>6. head \o tail \in Seq(WriteSet) /\ Elements(head \o tail) = Elements(head) \cup Elements(tail)
    BY <1>4, <1>5, ElementsConcat
  <1> QED
    BY <1>3, <1>4, <1>5, <1>6 DEF wp, wn, wf

DeleteWrites(c) ==
  Unlink("use", c) \o Unlink("alpha", c)
    \o <<Write("unset", "use", c, 0), Write("num", "use", c, NUM_PWD - 1), Write("clear", "use", c, 0)>>

\* The writes of a deletion, as a set.
LEMMA DeleteWritesAre ==
  ASSUME Memory \in Fram, NEW c \in used
  PROVE  /\ DeleteWrites(c) \in Seq(WriteSet)
         /\ Elements(DeleteWrites(c)) =
              {Write("unset", "use", c, 0), Write("num", "use", c, NUM_PWD - 1), Write("clear", "use", c, 0)}
                \cup {Write("prev", l, next[l][c], prev[l][c]) : l \in {k \in Lists : next[k][c] # Nil}}
                \cup {Write("next", l, prev[l][c], next[l][c]) : l \in {k \in Lists : prev[k][c] # Nil}}
                \cup {Write("first", l, c, IF next[l][c] # Nil THEN next[l][c] ELSE 0) :
                        l \in {k \in Lists : prev[k][c] = Nil}}
  <1> DEFINE un == Write("unset", "use", c, 0)
             nb == Write("num", "use", c, NUM_PWD - 1)
             cl == Write("clear", "use", c, 0)
             us == Unlink("use", c)
             al == Unlink("alpha", c)
             keys == <<un, nb, cl>>
             links == us \o al
             P(l) == IF next[l][c] # Nil THEN {Write("prev", l, next[l][c], prev[l][c])} ELSE {}
             N(l) == {IF prev[l][c] # Nil THEN Write("next", l, prev[l][c], next[l][c])
                      ELSE Write("first", l, c, IF next[l][c] # Nil THEN next[l][c] ELSE 0)}
  <1>1. /\ Lists = {"use", "alpha"} /\ c \in Ids /\ NUM_PWD - 1 \in Int
        /\ \A l \in Lists : prev[l][c] \in Ptr /\ next[l][c] \in Ptr
    BY FramFields, MemoryFields, Sizes DEF Lists
  <1>2. un \in WriteSet /\ nb \in WriteSet /\ cl \in WriteSet
    BY <1>1, WriteFields
  <1>3. DeleteWrites(c) = links \o keys
    BY DEF DeleteWrites
  <1> HIDE DEF un, nb, cl
  <1>4. us \in Seq(WriteSet) /\ Elements(us) = P("use") \cup N("use")
    BY <1>1, UnlinkIs
  <1>5. al \in Seq(WriteSet) /\ Elements(al) = P("alpha") \cup N("alpha")
    BY <1>1, UnlinkIs
  <1>6. keys \in Seq(WriteSet) /\ Elements(keys) = {un, nb, cl}
    BY <1>2, ElementsOfThree
  <1> HIDE DEF us, al, keys
  <1>7. links \in Seq(WriteSet) /\ Elements(links) = Elements(us) \cup Elements(al)
    BY <1>4, <1>5, ElementsConcat
  <1> HIDE DEF links
  <1>8. /\ links \o keys \in Seq(WriteSet)
        /\ Elements(links \o keys) = Elements(links) \cup Elements(keys)
    BY <1>6, <1>7, ElementsConcat
  <1>9. Elements(DeleteWrites(c)) = {un, nb, cl} \cup UNION {P(l) \cup N(l) : l \in Lists}
    BY <1>1, <1>3, <1>4, <1>5, <1>6, <1>7, <1>8
  <1>10. UNION {P(l) \cup N(l) : l \in Lists} =
            {Write("prev", l, next[l][c], prev[l][c]) : l \in {k \in Lists : next[k][c] # Nil}}
              \cup {Write("next", l, prev[l][c], next[l][c]) : l \in {k \in Lists : prev[k][c] # Nil}}
              \cup {Write("first", l, c, IF next[l][c] # Nil THEN next[l][c] ELSE 0) :
                      l \in {k \in Lists : prev[k][c] = Nil}}
    OBVIOUS
  <1> QED
    BY <1>3, <1>8, <1>9, <1>10 DEF un, nb, cl
\* A list in order is still in order without one of its chunks.
LEMMA RemoveSorted ==
  ASSUME NEW F \in Fram, NEW G, NEW l \in Lists, NEW s, Order(F, l, s), SortedTo(F, l, s, F.num),
         NEW k \in 1 .. F.num, G.num = F.num - 1,
         \A d \in F.used : d # s[k] => G.count[d] = F.count[d] /\ G.name[d] = F.name[d]
  PROVE  SortedTo(G, l, Without(s, k, F.num), G.num)
  <1> DEFINE t == Without(s, k, F.num)
  <1>1. /\ F.num \in Nat /\ k \in Nat /\ \A n \in 1 .. F.num : s[n] \in F.used
        /\ \A m, n \in 1 .. F.num : s[m] = s[n] => m = n
    <2>1. F.num \in Nat /\ \A n \in 1 .. F.num : s[n] \in F.used
      BY OrderFields
    <2>2. \A m, n \in 1 .. F.num : s[m] = s[n] => m = n
      BY DEF Order
    <2> QED
      BY <2>1, <2>2
  <1>2. \A d \in F.used : F.count[d] \in Int /\ F.name[d] \in Int
    <2>1. /\ F.used \subseteq Ids /\ F.count \in [Ids -> 0 .. COUNT_MOD - 1]
          /\ F.name \in [Ids -> Names]
      BY FramFields
    <2>2. 0 .. COUNT_MOD - 1 \subseteq Int /\ Names \subseteq Int
      BY ListAssumption
    <2> QED
      BY <2>1, <2>2
  <1>3. ASSUME NEW m \in 1 .. F.num, NEW n \in 1 .. F.num, m # k, n # k, InOrder(F, l, s[m], s[n])
        PROVE  InOrder(G, l, s[m], s[n])
    <2>1. s[m] # s[k] /\ s[n] # s[k] /\ s[m] \in F.used /\ s[n] \in F.used
      BY <1>1, <1>3
    <2> QED
      BY <1>3, <2>1 DEF InOrder
  <1>4. \A n \in 1 .. F.num - 1 : InOrder(F, l, s[n], s[n + 1])
    BY DEF SortedTo
  <1>5. ASSUME NEW n \in 1 .. G.num - 1 PROVE InOrder(G, l, t[n], t[n + 1])
    <2>0. n \in 1 .. F.num - 1 /\ n + 1 \in 1 .. F.num - 1 /\ n \in 1 .. F.num
          /\ n + 1 \in 1 .. F.num /\ n + 2 \in 1 .. F.num /\ (n + 1) + 1 = n + 2
      BY <1>1
    <2>1. t[n] = (IF n < k THEN s[n] ELSE s[n + 1]) /\ t[n + 1] = IF n + 1 < k THEN s[n + 1] ELSE s[n + 2]
      BY <2>0 DEF Without
    <2> HIDE DEF t
    <2>2. CASE n + 1 < k
      <3>1. t[n] = s[n] /\ t[n + 1] = s[n + 1] /\ n # k /\ n + 1 # k
        BY <1>1, <2>0, <2>1, <2>2
      <3> QED
        BY <1>3, <1>4, <2>0, <3>1
    <2>3. CASE n + 1 = k
      <3>1. t[n] = s[n] /\ t[n + 1] = s[n + 2] /\ n # k /\ n + 2 # k
        BY <1>1, <2>0, <2>1, <2>3
      <3>2. InOrder(F, l, s[n], s[n + 1]) /\ InOrder(F, l, s[n + 1], s[n + 2])
        BY <1>4, <2>0
      <3>3. InOrder(F, l, s[n], s[n + 2])
        BY <1>1, <1>2, <2>0, <3>2 DEF InOrder
      <3> QED
        BY <1>3, <2>0, <3>1, <3>3
    <2>4. CASE k <= n
      <3>1. t[n] = s[n + 1] /\ t[n + 1] = s[n + 2] /\ n + 1 # k /\ n + 2 # k
        BY <1>1, <2>0, <2>1, <2>4
      <3> QED
        BY <1>3, <1>4, <2>0, <3>1
    <2> QED
      BY <1>1, <2>0, <2>2, <2>3, <2>4
  <1> QED
    BY <1>5 DEF SortedTo

\* A deletion removes the chunk from both lists, which stay in order.
LEMMA DeletePwdKeeps == ListInv /\ DeletePwd => ListInv'
  <1> SUFFICES ASSUME ListInv, DeletePwd PROVE ListInv'
    OBVIOUS
  <1> DEFINE c == CURRENT_PASSWORD_ID
             W == Elements(DeleteWrites(c))
             head(l) == IF next[l][c] # Nil THEN next[l][c] ELSE 0
  <1>1. pc = "menu" /\ NUM_PWD # 0
    BY DEF DeletePwd, Selected
  <1>2. /\ todo = <<>> /\ Memory \in Fram /\ c \in used
        /\ \A l \in Lists : \E s : Order(Memory, l, s) /\ SortedTo(Memory, l, s, NUM_PWD)
        /\ \A l \in Lists, d \in Ids \ used : next[l][d] = 0
    BY <1>1, QuietSorted
  <1>3. /\ method = "none" \/ PrevReturns(method, c)
        /\ PrevOf(c) \in used /\ (NUM_PWD # 1 => PrevOf(c) # c)
    BY <1>2, PrevStored
  <1>4. /\ Start(DeleteWrites(c), <<>>) /\ UNCHANGED method
        /\ CURRENT_PASSWORD_ID' = IF NUM_PWD = 1 THEN 0 ELSE PrevOf(c)
    BY <1>3 DEF DeletePwd, DeleteWrites
  <1> HIDE DEF c
  <1>5. c \in Ids /\ c # Nil /\ NUM_PWD \in Nat /\ (\A d \in used : d \in Ids)
    BY <1>2, FramFields, MemoryFields
  <1>6. /\ DeleteWrites(c) \in Seq(WriteSet)
        /\ W = {Write("unset", "use", c, 0), Write("num", "use", c, NUM_PWD - 1), Write("clear", "use", c, 0)}
                 \cup {Write("prev", l, next[l][c], prev[l][c]) : l \in {k \in Lists : next[k][c] # Nil}}
                 \cup {Write("next", l, prev[l][c], next[l][c]) : l \in {k \in Lists : prev[k][c] # Nil}}
                 \cup {Write("first", l, c, head(l)) : l \in {k \in Lists : prev[k][c] = Nil}}
    BY <1>2, DeleteWritesAre
  <1>7. PICK F : F = Deleted(c)
    OBVIOUS
  <1>8. /\ F \in Fram /\ F.used = used \ {c} /\ F.num = NUM_PWD - 1
        /\ \A l \in Lists : F.first[l] = IF prev[l][c] # Nil THEN first[l] ELSE head(l)
        /\ \A l \in Lists, d \in Ids :
             /\ F.prev[l][d] = IF d = c THEN 0 ELSE IF d = next[l][c] THEN prev[l][c] ELSE prev[l][d]
             /\ F.next[l][d] = IF d = c THEN 0 ELSE IF d = prev[l][c] THEN next[l][c] ELSE next[l][d]
        /\ \A d \in Ids : /\ F.count[d] = IF d = c THEN 0 ELSE count[d]
                          /\ F.name[d] = IF d = c THEN 0 ELSE name[d]
    BY <1>1, <1>2, <1>7, DeletedIs
  <1> HIDE DEF W
  \* Where c stands in a list.
  <1>9. ASSUME NEW l \in Lists, NEW s, Order(Memory, l, s)
        PROVE  \E k \in 1 .. NUM_PWD :
                 /\ s[k] = c
                 /\ prev[l][c] = IF k = 1 THEN Nil ELSE s[k - 1]
                 /\ next[l][c] = IF k = NUM_PWD THEN Nil ELSE s[k + 1]
                 /\ k # 1 => s[k - 1] \in used /\ s[k - 1] # c /\ s[k - 1] # Nil
                 /\ k # NUM_PWD => s[k + 1] \in used /\ s[k + 1] # c /\ s[k + 1] # Nil
    <2>1. /\ \A m, n \in 1 .. NUM_PWD : s[m] = s[n] => m = n
          /\ \A n \in 1 .. NUM_PWD :
               /\ s[n] \in used /\ s[n] # Nil
               /\ next[l][s[n]] = IF n = NUM_PWD THEN Nil ELSE s[n + 1]
               /\ prev[l][s[n]] = IF n = 1 THEN Nil ELSE s[n - 1]
      <3>1. \A m, n \in 1 .. NUM_PWD : s[m] = s[n] => m = n
        BY <1>9, MemoryFields DEF Order
      <3> QED
        BY <1>2, <1>9, <3>1, ListIs
    <2>2. PICK k \in 1 .. NUM_PWD : s[k] = c
      BY <1>2, <1>9, ListIs
    <2>3. (k # 1 => k - 1 \in 1 .. NUM_PWD) /\ (k # NUM_PWD => k + 1 \in 1 .. NUM_PWD)
          /\ k - 1 # k /\ k + 1 # k
      BY <1>5
    <2> QED
      BY <2>1, <2>2, <2>3
  <1>10. ASSUME NEW l \in Lists
         PROVE  /\ prev[l][c] # Nil => prev[l][c] \in used /\ prev[l][c] # c
                /\ next[l][c] # Nil => next[l][c] \in used /\ next[l][c] # c
    <2>1. PICK s : Order(Memory, l, s)
      BY <1>2
    <2> QED
      BY <1>9, <2>1
  <1>11. ASSUME NEW w \in W PROVE Agrees(F, w)
    <2>1. CASE w \in {Write("unset", "use", c, 0), Write("num", "use", c, NUM_PWD - 1), Write("clear", "use", c, 0)}
      BY <1>5, <1>8, <2>1, Puts
    <2>2. CASE \E l \in Lists : next[l][c] # Nil /\ w = Write("prev", l, next[l][c], prev[l][c])
      BY <1>5, <1>8, <1>10, <2>2, Puts
    <2>3. CASE \E l \in Lists : prev[l][c] # Nil /\ w = Write("next", l, prev[l][c], next[l][c])
      BY <1>5, <1>8, <1>10, <2>3, Puts
    <2>4. CASE \E l \in Lists : prev[l][c] = Nil /\ w = Write("first", l, c, head(l))
      BY <1>8, <2>4, Puts
    <2> QED
      BY <1>6, <2>1, <2>2, <2>3, <2>4
  <1>12. Covers(Memory, W, F)
    <2>1. /\ Write("unset", "use", c, 0) \in W /\ Write("num", "use", c, NUM_PWD - 1) \in W
          /\ Write("clear", "use", c, 0) \in W
      BY <1>6
    <2>2. /\ \E w \in W : w.field = "num"
          /\ \E w \in W : w.field \in {"set", "unset"} /\ w.id = c
          /\ \E w \in W : w.field = "clear" /\ w.id = c
      BY <2>1, WriteFields
    <2>3. ASSUME NEW l \in Lists
          PROVE  F.first[l] = first[l] \/ \E w \in W : w.field = "first" /\ w.list = l
      <3>1. prev[l][c] = Nil => Write("first", l, c, head(l)) \in W
        BY <1>6
      <3> QED
        BY <1>8, <3>1, WriteFields
    <2>4. ASSUME NEW l \in Lists, NEW d \in Ids, d # c
          PROVE  /\ F.prev[l][d] = prev[l][d] \/ \E w \in W : w.id = d /\ w.field = "prev" /\ w.list = l
                 /\ F.next[l][d] = next[l][d] \/ \E w \in W : w.id = d /\ w.field = "next" /\ w.list = l
      <3>1. /\ next[l][c] # Nil => Write("prev", l, next[l][c], prev[l][c]) \in W
            /\ prev[l][c] # Nil => Write("next", l, prev[l][c], next[l][c]) \in W
        BY <1>6
      <3>2. d # Nil
        BY Sizes
      <3> QED
        BY <1>8, <2>4, <3>1, <3>2, WriteFields
    <2> QED
      BY <1>8, <2>2, <2>3, <2>4, MemoryFields DEF Covers
  <1>13. Leads(Memory, W, F)
    BY <1>11, <1>12 DEF Leads
  <1>14. ASSUME NEW l \in Lists
         PROVE  \E s : Order(F, l, s) /\ SortedTo(F, l, s, F.num)
    <2>1. PICK s : Order(Memory, l, s) /\ SortedTo(Memory, l, s, NUM_PWD)
      BY <1>2
    <2>2. PICK k \in 1 .. NUM_PWD :
            /\ s[k] = c
            /\ prev[l][c] = IF k = 1 THEN Nil ELSE s[k - 1]
            /\ next[l][c] = IF k = NUM_PWD THEN Nil ELSE s[k + 1]
            /\ k # 1 => s[k - 1] \in used /\ s[k - 1] # c /\ s[k - 1] # Nil
            /\ k # NUM_PWD => s[k + 1] \in used /\ s[k + 1] # c /\ s[k + 1] # Nil
      BY <1>9, <2>1
    <2>3. F.first[l] = IF k # 1 THEN first[l] ELSE IF NUM_PWD = 1 THEN 0 ELSE s[2]
      <3>1. k = 1 => (k = NUM_PWD <=> NUM_PWD = 1) /\ k + 1 = 2
        BY <1>5
      <3> QED
        BY <1>8, <2>2, <3>1
    <2>4. ASSUME NEW d \in F.used
          PROVE  /\ F.next[l][d] = IF k # 1 /\ d = s[k - 1] THEN next[l][s[k]] ELSE next[l][d]
                 /\ F.prev[l][d] = IF k # NUM_PWD /\ d = s[k + 1] THEN prev[l][s[k]] ELSE prev[l][d]
      <3>1. d \in Ids /\ d # c /\ d # Nil
        BY <1>5, <1>8, Sizes
      <3> QED
        BY <1>8, <2>2, <3>1
    <2>5. Removes(Memory, F, l, s, k)
      BY <1>8, <2>2, <2>3, <2>4, MemoryFields DEF Removes
    <2>6. k \in 1 .. Memory.num
      BY MemoryFields
    <2>7. Order(F, l, Without(s, k, Memory.num))
      BY <1>2, <1>8, <2>1, <2>5, <2>6, RemoveOrder
    <2>8. \A d \in Memory.used : d # s[k] => F.count[d] = Memory.count[d] /\ F.name[d] = Memory.name[d]
      BY <1>5, <1>8, <2>2, MemoryFields
    <2>9. SortedTo(F, l, Without(s, k, Memory.num), F.num)
      BY <1>2, <1>8, <2>1, <2>6, <2>8, RemoveSorted, MemoryFields
    <2> QED
      BY <2>7, <2>9
  <1>15. IF F.num = 0 THEN CURRENT_PASSWORD_ID' = 0 ELSE CURRENT_PASSWORD_ID' \in F.used
    BY <1>1, <1>3, <1>4, <1>5, <1>8
  <1>16. \A l \in Lists, d \in Ids \ F.used : F.next[l][d] = 0
    BY <1>2, <1>8, <1>10, Sizes
  <1> HIDE DEF head
  <1> QED
    BY <1>1, <1>4, <1>6, <1>8, <1>13, <1>14, <1>15, <1>16, StartKeeps DEF W
-----------------------------------------------------------------------------
(***************************************************************************)
(* The sort of a list.                                                     *)
(***************************************************************************)
\* The list being sorted, and those that wait.
LEMMA PlanFacts ==
  ASSUME Control, plan # <<>>
  PROVE  /\ Head(plan) \in Lists /\ Head(plan) \in Elements(plan)
         /\ Tail(plan) # plan /\ Tail(plan) \in {<<>>, <<"use">>, <<"alpha">>, <<"use", "alpha">>}
         /\ \A l \in Lists : l # Head(plan) /\ l \notin Elements(Tail(plan)) => l \notin Elements(plan)
  <1>1. plan \in {<<"use">>, <<"alpha">>, <<"use", "alpha">>}
    BY DEF Control
  <1>2. /\ Lists = {"use", "alpha"} /\ Elements(<<>>) = {}
        /\ Elements(<<"use">>) = {"use"} /\ Elements(<<"alpha">>) = {"alpha"}
        /\ Elements(<<"use", "alpha">>) = {"use", "alpha"}
    BY ElementsOfOne, ElementsOfTwo, ElementsEmpty DEF Lists
  <1>3. CASE plan = <<"use">>
    <2>1. Head(plan) = "use" /\ Tail(plan) = <<>>
      BY <1>3
    <2> QED
      BY <1>2, <1>3, <2>1
  <1>4. CASE plan = <<"alpha">>
    <2>1. Head(plan) = "alpha" /\ Tail(plan) = <<>>
      BY <1>4
    <2> QED
      BY <1>2, <1>4, <2>1
  <1>5. CASE plan = <<"use", "alpha">>
    <2>1. Head(plan) = "use" /\ Tail(plan) = <<"alpha">>
      BY <1>5
    <2>2. <<"alpha">> # <<"use", "alpha">>
      OBVIOUS
    <2> QED
      BY <1>2, <1>5, <2>1, <2>2
  <1> QED
    BY <1>1, <1>3, <1>4, <1>5

\* What is known when a step of the sort is taken.
LEMMA SortFacts ==
  ASSUME ListInv, Sorting
  PROVE  /\ pc = "sort" /\ todo = <<>> /\ plan # <<>> /\ Memory \in Fram /\ Catalogue(Memory)
         /\ Head(plan) \in Lists /\ NUM_PWD \in 0 .. Last /\ NUM_PWD \in Nat
         /\ \E s : Order(Memory, Head(plan), s) /\ (Begun => Walk(Memory, Head(plan), s))
         /\ ~Begun => current = Nil
         /\ Begun => NUM_PWD >= 2
  <1>1. pc = "sort" /\ todo = <<>> /\ plan # <<>>
    BY DEF Sorting
  <1>2. Memory \in Fram /\ Catalogue(Memory) /\ Control
    BY <1>1, Quiet DEF ListInv, Catalogue
  <1>3. Head(plan) \in Lists
    BY <1>1, <1>2, PlanFacts
  <1>4. \E s : Order(Memory, Head(plan), s) /\ (Begun => Walk(Memory, Head(plan), s))
    BY <1>2, <1>3 DEF Catalogue, Arranged
  <1>5. NUM_PWD \in 0 .. Last /\ NUM_PWD \in Nat
    BY <1>2, FramFields, MemoryFields
  <1>6. (~Begun => current = Nil) /\ (Begun => NUM_PWD >= 2)
    BY <1>2, MemoryFields DEF Control, Catalogue
  <1> QED
    BY <1>1, <1>2, <1>3, <1>4, <1>5, <1>6

\* A step that only moves the walk, or ends it on a list in order.
LEMMA SortStep ==
  ASSUME ListInv, Sorting, NEW F, F = Memory,
         UNCHANGED <<fram, method, CURRENT_PASSWORD_ID, pc, todo>>,
         current' \in Ptr, sorting_position' \in Ptr,
         NEW s, Order(F, Head(plan), s),
         \/ plan' = plan /\ Begun' /\ F.num >= 2 /\ Walk(F, Head(plan), s)'
         \/ /\ plan' = Tail(plan) /\ ~Begun' /\ current' = Nil
            /\ SortedTo(F, Head(plan), s, F.num)
  PROVE  ListInv'
  <1>1. /\ UNCHANGED <<used, NUM_PWD, first, prev, next, count, name>>
        /\ UNCHANGED <<method, CURRENT_PASSWORD_ID, pc, todo>>
    BY DEF fram
  <1>2. /\ pc = "sort" /\ todo = <<>> /\ plan # <<>> /\ F \in Fram /\ Catalogue(F) /\ Control
        /\ LocalsOK
    BY SortFacts DEF ListInv
  <1>3. /\ Head(plan) \in Lists /\ Tail(plan) # plan
        /\ Tail(plan) \in {<<>>, <<"use">>, <<"alpha">>, <<"use", "alpha">>}
        /\ \A l \in Lists : l # Head(plan) /\ l \notin Elements(Tail(plan)) => l \notin Elements(plan)
        /\ Head(plan) \in Elements(plan)
    BY <1>2, PlanFacts
  <1>4. Memory' = F
    BY <1>1 DEF Memory
  <1>5. LocalsOK'
    BY <1>1, <1>2 DEF LocalsOK
  <1>6. Control'
    BY <1>1, <1>2, <1>3 DEF Control
  <1>7. Leads(Memory', Elements(todo'), F)
    BY <1>1, <1>2, <1>4, ElementsEmpty, LeadsNowhere
  <1>8. Catalogue(F)'
    <2>1. ASSUME NEW l \in Lists, l = Head(plan) PROVE Arranged(F, l)'
      <3>1. s \in [1 .. F.num -> F.used] /\ Order(F, l, s)
        BY <2>1 DEF Order
      <3>2. l \notin Elements(plan') => SortedTo(F, l, s, F.num)
        BY <1>3, <2>1
      <3>3. Begun' /\ l = Head(plan') => Walk(F, l, s)'
        BY <2>1
      <3> QED
        BY <3>1, <3>2, <3>3 DEF Arranged
    <2>2. ASSUME NEW l \in Lists, l # Head(plan) PROVE Arranged(F, l)'
      <3>1. PICK t \in [1 .. F.num -> F.used] :
              Order(F, l, t) /\ (l \notin Elements(plan) => SortedTo(F, l, t, F.num))
        BY <1>2 DEF Catalogue, Arranged
      <3>2. l \notin Elements(plan') => SortedTo(F, l, t, F.num)
        BY <1>3, <2>2, <3>1
      <3>3. ~(Begun' /\ l = Head(plan'))
        BY <2>2
      <3> QED
        BY <3>1, <3>2, <3>3 DEF Arranged
    <2>3. \A l \in Lists : Arranged(F, l)'
      BY <2>1, <2>2
    <2> QED
      BY <1>1, <1>2, <2>3 DEF Catalogue
  <1> QED
    BY <1>2, <1>4, <1>5, <1>6, <1>7, <1>8, Establish

\* A list of less than two chunks is in order.
LEMMA SortSkipKeeps == ListInv /\ SortSkip => ListInv'
  <1> SUFFICES ASSUME ListInv, SortSkip PROVE ListInv'
    OBVIOUS
  <1>1. /\ Sorting /\ ~Begun /\ NUM_PWD < 2 /\ plan' = Tail(plan)
        /\ UNCHANGED <<fram, method, CURRENT_PASSWORD_ID, pc, todo, current, sorting_position>>
    BY DEF SortSkip, sortVars
  <1>2. PICK F : F = Memory
    OBVIOUS
  <1>3. PICK s : Order(F, Head(plan), s)
    BY <1>1, <1>2, SortFacts
  <1>4. F.num \in Nat /\ F.num < 2 /\ current = Nil
    BY <1>1, <1>2, SortFacts, MemoryFields
  <1>5. SortedTo(F, Head(plan), s, F.num)
    <2>1. 1 .. F.num - 1 = {}
      BY <1>4
    <2> QED
      BY <2>1 DEF SortedTo
  <1>6. ~Begun' /\ current' = Nil /\ current' \in Ptr /\ sorting_position' \in Ptr
    BY <1>1, <1>4 DEF ListInv, LocalsOK, Begun
  <1>7. UNCHANGED <<fram, method, CURRENT_PASSWORD_ID, pc, todo>>
    BY <1>1
  <1> QED
    BY <1>1, <1>2, <1>3, <1>5, <1>6, <1>7, SortStep

\* The walk ends when the whole list is in order.
LEMMA SortEndKeeps == ListInv /\ SortEnd => ListInv'
  <1> SUFFICES ASSUME ListInv, SortEnd PROVE ListInv'
    OBVIOUS
  <1>1. /\ Sorting /\ Begun /\ current = Nil /\ plan' = Tail(plan)
        /\ current' = Nil /\ sorting_position' = Nil
        /\ UNCHANGED <<fram, method, CURRENT_PASSWORD_ID, pc, todo>>
    BY DEF SortEnd
  <1>2. PICK F : F = Memory
    OBVIOUS
  <1>3. PICK s : Order(F, Head(plan), s) /\ Walk(F, Head(plan), s)
    BY <1>1, <1>2, SortFacts
  <1>4. SortedTo(F, Head(plan), s, F.num)
    BY <1>1, <1>3 DEF Walk
  <1>5. ~Begun' /\ current' \in Ptr /\ sorting_position' \in Ptr
    BY <1>1, Sizes DEF Begun
  <1> QED
    BY <1>1, <1>2, <1>3, <1>4, <1>5, SortStep

\* The walk goes on after the j-th chunk, with the chunks up to it in order.
LEMMA VisitNext ==
  ASSUME NEW F \in Fram, NEW l \in Lists, NEW s, Order(F, l, s), NEW j \in 1 .. F.num,
         SortedTo(F, l, s, j), Visit(F.next[l][s[j]])
  PROVE  Walk(F, l, s)' /\ Begun' /\ current' \in Ptr /\ sorting_position' \in Ptr
  <1>1. F.num \in Nat /\ F.next[l][s[j]] = IF j = F.num THEN Nil ELSE s[j + 1]
    BY OrderFields
  <1>2. CASE j = F.num
    BY <1>1, <1>2, Sizes DEF Visit, Walk, Begun, SortedTo, InOrder
  <1>3. CASE j # F.num
    <2>1. j + 1 \in 1 .. F.num /\ (j + 1) - 1 = j
      BY <1>1, <1>3
    <2>2. s[j + 1] # Nil /\ s[j + 1] \in Ptr
      BY <2>1, OrderFields, Sizes
    <2>3. current' = s[j + 1] /\ sorting_position' = s[j + 1]
      BY <1>1, <1>3, <2>2 DEF Visit
    <2>4. \E n \in 1 .. F.num : s[n] = current' /\ SortedTo(F, l, s, n - 1)
      BY <2>1, <2>3
    <2> QED
      BY <2>2, <2>3, <2>4 DEF Walk, Begun, SortedTo, InOrder
  <1> QED
    BY <1>2, <1>3

\* The first chunk is in order with itself.
LEMMA SortBeginKeeps == ListInv /\ SortBegin => ListInv'
  <1> SUFFICES ASSUME ListInv, SortBegin PROVE ListInv'
    OBVIOUS
  <1> DEFINE l == Head(plan)
  <1>1. /\ Sorting /\ ~Begun /\ NUM_PWD >= 2 /\ Visit(next[l][first[l]])
        /\ UNCHANGED <<fram, method, CURRENT_PASSWORD_ID, pc, todo>> /\ plan' = plan
    BY DEF SortBegin
  <1>2. PICK F : F = Memory
    OBVIOUS
  <1>3. /\ l \in Lists /\ F \in Fram /\ F.num \in Nat /\ F.num >= 2
        /\ F.next = next /\ F.first = first
    BY <1>1, <1>2, SortFacts, MemoryFields
  <1>4. PICK s : Order(F, l, s)
    BY <1>1, <1>2, SortFacts
  <1>5. 1 \in 1 .. F.num /\ first[l] = s[1]
    BY <1>3, <1>4, OrderFields
  <1>6. SortedTo(F, l, s, 1)
    BY DEF SortedTo
  <1>7. Visit(F.next[l][s[1]])
    BY <1>1, <1>3, <1>5
  <1>8. Walk(F, l, s)' /\ Begun' /\ current' \in Ptr /\ sorting_position' \in Ptr
    <2> HIDE DEF l
    <2>1. PICK k : k = l
      OBVIOUS
    <2>2. Walk(F, k, s)' /\ Begun' /\ current' \in Ptr /\ sorting_position' \in Ptr
      BY <1>3, <1>4, <1>5, <1>6, <1>7, <2>1, VisitNext
    <2>3. l' = l
      BY <1>1 DEF l
    <2> QED
      BY <2>1, <2>2, <2>3
  <1> QED
    BY <1>1, <1>2, <1>3, <1>4, <1>8, SortStep
\* What stands between current and the end of the part in order.
LEMMA WalkSorted ==
  ASSUME NEW F \in Fram, NEW l \in Lists, NEW s, Order(F, l, s), Walk(F, l, s), current # Nil,
         ~(F.prev[l][current] # Nil /\ (IF l = "use" THEN F.count[current] > F.count[F.prev[l][current]]
                                        ELSE F.name[current] < F.name[F.prev[l][current]]))
  PROVE  \E j \in 1 .. F.num : s[j] = sorting_position /\ SortedTo(F, l, s, j)
  <1>1. PICK n \in 1 .. F.num :
          /\ s[n] = current /\ SortedTo(F, l, s, n - 1)
          /\ \/ sorting_position = current
             \/ n < F.num /\ sorting_position = s[n + 1] /\ InOrder(F, l, s[n], s[n + 1])
    BY DEF Walk
  <1>2. F.num \in Nat /\ \A d \in F.used : F.count[d] \in Int /\ F.name[d] \in Int
    <2>1. /\ F.used \subseteq Ids /\ F.count \in [Ids -> 0 .. COUNT_MOD - 1]
          /\ F.name \in [Ids -> Names] /\ F.num \in Nat
      BY FramFields
    <2>2. 0 .. COUNT_MOD - 1 \subseteq Int /\ Names \subseteq Int
      BY ListAssumption
    <2> QED
      BY <2>1, <2>2
  <1>3. n # 1 => InOrder(F, l, s[n - 1], s[n])
    <2> SUFFICES ASSUME n # 1 PROVE InOrder(F, l, s[n - 1], s[n])
      OBVIOUS
    <2>1. n - 1 \in 1 .. F.num
      BY <1>2
    <2>2. F.prev[l][current] = s[n - 1] /\ s[n - 1] # Nil /\ s[n - 1] \in F.used /\ s[n] \in F.used
      BY <1>1, <2>1, OrderFields
    <2> QED
      BY <1>1, <1>2, <2>2 DEF InOrder
  <1>4. SortedTo(F, l, s, n)
    <2>1. \A k \in 1 .. n - 2 : InOrder(F, l, s[k], s[k + 1])
      <3>1. (n - 1) - 1 = n - 2
        BY <1>2
      <3> QED
        BY <1>1, <3>1 DEF SortedTo
    <2>2. \A k \in 1 .. n - 1 : k \in 1 .. n - 2 \/ (k = n - 1 /\ k + 1 = n /\ n # 1)
      BY <1>2
    <2> QED
      BY <1>3, <2>1, <2>2 DEF SortedTo
  <1>5. CASE sorting_position = current
    BY <1>1, <1>4, <1>5
  <1>6. CASE n < F.num /\ sorting_position = s[n + 1] /\ InOrder(F, l, s[n], s[n + 1])
    <2>1. n + 1 \in 1 .. F.num /\ (n + 1) - 1 = n
      BY <1>2, <1>6
    <2>2. \A k \in 1 .. n : k \in 1 .. n - 1 \/ k = n
      BY <1>2
    <2>3. SortedTo(F, l, s, n + 1)
      BY <1>4, <1>6, <2>1, <2>2 DEF SortedTo
    <2> QED
      BY <1>6, <2>1, <2>3
  <1> QED
    BY <1>1, <1>5, <1>6

\* A chunk that need not move is in order with those before it.
LEMMA SortNextKeeps == ListInv /\ SortNext => ListInv'
  <1> SUFFICES ASSUME ListInv, SortNext PROVE ListInv'
    OBVIOUS
  <1> DEFINE l == Head(plan)
  <1>1. /\ Sorting /\ Begun /\ current # Nil /\ Visit(next[l][sorting_position])
        /\ ~(prev[l][current] # Nil /\ GoesBefore(l, current, prev[l][current]))
        /\ UNCHANGED <<fram, method, CURRENT_PASSWORD_ID, pc, todo>> /\ plan' = plan
    BY DEF SortNext
  <1>2. PICK F : F = Memory
    OBVIOUS
  <1>3. /\ l \in Lists /\ F \in Fram /\ F.num \in Nat /\ F.num >= 2
        /\ F.next = next /\ F.prev = prev /\ F.count = count /\ F.name = name
    BY <1>1, <1>2, SortFacts, MemoryFields
  <1>4. PICK s : Order(F, l, s) /\ Walk(F, l, s)
    BY <1>1, <1>2, SortFacts
  <1>5. PICK k : k = l
    OBVIOUS
  <1>6. l' = l
    BY <1>1
  <1> HIDE DEF l
  <1>7. PICK j \in 1 .. F.num : s[j] = sorting_position /\ SortedTo(F, k, s, j)
    <2>1. ~(F.prev[k][current] # Nil /\ (IF k = "use" THEN F.count[current] > F.count[F.prev[k][current]]
                                         ELSE F.name[current] < F.name[F.prev[k][current]]))
      BY <1>1, <1>3, <1>5 DEF GoesBefore
    <2> QED
      BY <1>1, <1>3, <1>4, <1>5, <2>1, WalkSorted
  <1>8. Visit(F.next[k][s[j]])
    BY <1>1, <1>3, <1>5, <1>7
  <1>9. Walk(F, k, s)' /\ Begun' /\ current' \in Ptr /\ sorting_position' \in Ptr
    BY <1>3, <1>4, <1>5, <1>7, <1>8, VisitNext
  <1>10. Walk(F, l, s)'
    BY <1>5, <1>6, <1>9
  <1> QED
    BY <1>1, <1>2, <1>3, <1>4, <1>9, <1>10, SortStep DEF l

\* The memory in which two neighbours of the list l are swapped.
SwapIn(l, lower, upper) ==
  [used |-> used, num |-> NUM_PWD, count |-> count, name |-> name,
   first |-> [first EXCEPT ![l] = IF lower = first[l] THEN upper ELSE first[l]],
   prev |-> [prev EXCEPT ![l] = [d \in Ids |->
               IF d = lower THEN upper ELSE IF d = upper THEN prev[l][lower]
               ELSE IF d = next[l][upper] THEN lower ELSE prev[l][d]]],
   next |-> [next EXCEPT ![l] = [d \in Ids |->
               IF d = lower THEN next[l][upper] ELSE IF d = upper THEN lower
               ELSE IF d = prev[l][lower] THEN upper ELSE next[l][d]]]]

\* The fields of that memory.
LEMMA SwapInIs ==
  ASSUME Memory \in Fram, NEW l \in Lists, NEW lower \in used, NEW upper \in used
  PROVE  /\ SwapIn(l, lower, upper) \in Fram
         /\ SwapIn(l, lower, upper).used = used /\ SwapIn(l, lower, upper).num = NUM_PWD
         /\ SwapIn(l, lower, upper).count = count /\ SwapIn(l, lower, upper).name = name
         /\ SwapIn(l, lower, upper).first[l] = IF lower = first[l] THEN upper ELSE first[l]
         /\ \A d \in Ids :
              /\ SwapIn(l, lower, upper).prev[l][d] =
                   IF d = lower THEN upper ELSE IF d = upper THEN prev[l][lower]
                   ELSE IF d = next[l][upper] THEN lower ELSE prev[l][d]
              /\ SwapIn(l, lower, upper).next[l][d] =
                   IF d = lower THEN next[l][upper] ELSE IF d = upper THEN lower
                   ELSE IF d = prev[l][lower] THEN upper ELSE next[l][d]
         /\ \A m \in Lists : m # l => /\ SwapIn(l, lower, upper).first[m] = first[m]
                                      /\ SwapIn(l, lower, upper).prev[m] = prev[m]
                                      /\ SwapIn(l, lower, upper).next[m] = next[m]
  <1>1. /\ used \subseteq 0 .. Last - 1 /\ NUM_PWD \in 0 .. Last /\ first \in [Lists -> Ids]
        /\ prev \in [Lists -> [Ids -> Ptr]] /\ next \in [Lists -> [Ids -> Ptr]]
        /\ count \in [Ids -> 0 .. COUNT_MOD - 1] /\ name \in [Ids -> Names]
        /\ lower \in Ids /\ upper \in Ids /\ lower \in Ptr /\ upper \in Ptr
    BY FramFields, MemoryFields, Sizes
  <1>2. /\ [first EXCEPT ![l] = IF lower = first[l] THEN upper ELSE first[l]] \in [Lists -> Ids]
        /\ [prev EXCEPT ![l] = [d \in Ids |->
              IF d = lower THEN upper ELSE IF d = upper THEN prev[l][lower]
              ELSE IF d = next[l][upper] THEN lower ELSE prev[l][d]]] \in [Lists -> [Ids -> Ptr]]
        /\ [next EXCEPT ![l] = [d \in Ids |->
              IF d = lower THEN next[l][upper] ELSE IF d = upper THEN lower
              ELSE IF d = prev[l][lower] THEN upper ELSE next[l][d]]] \in [Lists -> [Ids -> Ptr]]
    BY <1>1
  <1>3. SwapIn(l, lower, upper) \in Fram
    BY <1>1, <1>2 DEF Fram, SwapIn
  <1> QED
    BY <1>1, <1>3 DEF SwapIn

\* The writes of swap_neighbours, as a set.
LEMMA SwapWritesAre ==
  ASSUME Memory \in Fram, NEW l \in Lists, NEW lower \in used, NEW upper \in used
  PROVE  /\ Swap(l, lower, upper) \in Seq(WriteSet)
         /\ Elements(Swap(l, lower, upper)) =
              {Write("prev", l, lower, upper), Write("next", l, lower, next[l][upper]),
               Write("prev", l, upper, prev[l][lower]), Write("next", l, upper, lower)}
                \cup (IF lower = first[l] THEN {Write("first", l, lower, upper)} ELSE {})
                \cup (IF prev[l][lower] # Nil THEN {Write("next", l, prev[l][lower], upper)} ELSE {})
                \cup (IF next[l][upper] # Nil THEN {Write("prev", l, next[l][upper], lower)} ELSE {})
  <1> DEFINE pl == prev[l][lower]
             nu == next[l][upper]
             wf == Write("first", l, lower, upper)
             w1 == Write("prev", l, lower, upper)
             w2 == Write("next", l, lower, nu)
             w3 == Write("prev", l, upper, pl)
             w4 == Write("next", l, upper, lower)
             wp == Write("next", l, pl, upper)
             wn == Write("prev", l, nu, lower)
             a == IF lower = first[l] THEN <<wf>> ELSE <<>>
             b == <<w1, w2, w3, w4>>
             c == IF pl # Nil THEN <<wp>> ELSE <<>>
             d == IF nu # Nil THEN <<wn>> ELSE <<>>
             ab == a \o b
             abc == ab \o c
  <1>1. /\ lower \in Ids /\ upper \in Ids /\ lower \in Int /\ upper \in Int
        /\ pl \in Ptr /\ nu \in Ptr /\ \A x \in Ptr : x \in Int /\ (x # Nil => x \in Ids)
    <2>1. /\ used \subseteq Ids /\ prev \in [Lists -> [Ids -> Ptr]]
          /\ next \in [Lists -> [Ids -> Ptr]]
      BY FramFields, MemoryFields
    <2>2. lower \in Ids /\ upper \in Ids /\ pl \in Ptr /\ nu \in Ptr
      BY <2>1
    <2>3. \A x \in Ptr : x \in Int /\ (x # Nil => x \in Ids)
      BY Sizes
    <2> QED
      BY <2>2, <2>3, Sizes
  <1>2. /\ wf \in WriteSet /\ w1 \in WriteSet /\ w2 \in WriteSet /\ w3 \in WriteSet /\ w4 \in WriteSet
        /\ (pl # Nil => wp \in WriteSet) /\ (nu # Nil => wn \in WriteSet)
    BY <1>1, WriteFields
  <1>3. Swap(l, lower, upper) = abc \o d
    BY DEF Swap
  <1> HIDE DEF wf, w1, w2, w3, w4, wp, wn
  <1>4. a \in Seq(WriteSet) /\ Elements(a) = IF lower = first[l] THEN {wf} ELSE {}
    BY <1>2, ElementsOfOne, ElementsEmpty
  <1>5. b \in Seq(WriteSet) /\ Elements(b) = {w1, w2, w3, w4}
    BY <1>2, ElementsOfFour
  <1>6. c \in Seq(WriteSet) /\ Elements(c) = IF pl # Nil THEN {wp} ELSE {}
    BY <1>2, ElementsOfOne, ElementsEmpty
  <1>7. d \in Seq(WriteSet) /\ Elements(d) = IF nu # Nil THEN {wn} ELSE {}
    BY <1>2, ElementsOfOne, ElementsEmpty
  <1> HIDE DEF a, b, c, d
  <1>8. ab \in Seq(WriteSet) /\ Elements(ab) = Elements(a) \cup Elements(b)
    BY <1>4, <1>5, ElementsConcat
  <1> HIDE DEF ab
  <1>9. abc \in Seq(WriteSet) /\ Elements(abc) = Elements(ab) \cup Elements(c)
    BY <1>6, <1>8, ElementsConcat
  <1> HIDE DEF abc
  <1>10. abc \o d \in Seq(WriteSet) /\ Elements(abc \o d) = Elements(abc) \cup Elements(d)
    BY <1>7, <1>9, ElementsConcat
  <1> QED
    BY <1>3, <1>4, <1>5, <1>6, <1>7, <1>8, <1>9, <1>10 DEF wf, w1, w2, w3, w4, wp, wn
\* A swap moves current one place down: what it overtakes stays in order.
LEMMA SortSwapKeeps == ListInv /\ SortSwap => ListInv'
  <1> SUFFICES ASSUME ListInv, SortSwap PROVE ListInv'
    OBVIOUS
  <1> DEFINE head == Head(plan)
             up == current
  <1>1. /\ Sorting /\ Begun /\ up # Nil /\ prev[head][up] # Nil
        /\ GoesBefore(head, up, prev[head][up])
        /\ todo' = Swap(head, prev[head][up], up) /\ sorting_position' = prev[head][up]
        /\ UNCHANGED <<used, NUM_PWD, first, prev, next, count, name>>
        /\ UNCHANGED <<method, CURRENT_PASSWORD_ID, pc, plan, current>>
    BY DEF SortSwap, fram
  <1>2. PICK M : M = Memory
    OBVIOUS
  <1>3. PICK l : l = head
    OBVIOUS
  <1>4. PICK s : Order(M, l, s) /\ Walk(M, l, s)
    BY <1>1, <1>2, <1>3, SortFacts
  <1>5. /\ l \in Lists /\ M \in Fram /\ Catalogue(M) /\ M.num \in Nat /\ M.num >= 2 /\ pc = "sort"
        /\ M.used = used /\ M.num = NUM_PWD /\ M.first = first /\ M.prev = prev /\ M.next = next
        /\ M.count = count /\ M.name = name /\ plan # <<>> /\ Memory \in Fram
    BY <1>1, <1>2, <1>3, SortFacts, MemoryFields
  <1> HIDE DEF head
  <1>6. PICK n \in 1 .. M.num : s[n] = up /\ SortedTo(M, l, s, n - 1)
    BY <1>1, <1>4 DEF Walk
  \* up stands at k + 1, the neighbour that it overtakes at k.
  <1>7. PICK k \in 1 .. M.num :
          /\ k = n - 1 /\ n = k + 1 /\ k # M.num /\ prev[l][up] = s[k] /\ s[k + 1] = up
          /\ s[k] \in used /\ up \in used /\ s[k] \in Ids /\ up \in Ids /\ s[k] # up
    <2>1. /\ prev[l][up] = IF n = 1 THEN Nil ELSE s[n - 1]
          /\ up \in used /\ up \in Ids
      BY <1>4, <1>5, <1>6, OrderFields
    <2>2. n # 1 /\ n - 1 \in 1 .. M.num /\ n - 1 # M.num /\ (n - 1) + 1 = n /\ n - 1 # n
      BY <1>1, <1>3, <1>5, <1>6, <2>1
    <2>3. s[n - 1] \in used /\ s[n - 1] \in Ids
      BY <1>4, <1>5, <2>2, OrderFields
    <2>4. s[n - 1] # s[n]
      BY <1>4, <2>2 DEF Order
    <2> QED
      BY <1>6, <2>1, <2>2, <2>3, <2>4
  <1> DEFINE low == s[k]
             W == Elements(Swap(l, low, up))
  <1>8. /\ todo' = Swap(l, low, up) /\ sorting_position' = low /\ GoesBefore(l, up, low)
    BY <1>1, <1>3, <1>7
  <1>9. /\ Swap(l, low, up) \in Seq(WriteSet)
        /\ W = {Write("prev", l, low, up), Write("next", l, low, next[l][up]),
                Write("prev", l, up, prev[l][low]), Write("next", l, up, low)}
                 \cup (IF low = first[l] THEN {Write("first", l, low, up)} ELSE {})
                 \cup (IF prev[l][low] # Nil THEN {Write("next", l, prev[l][low], up)} ELSE {})
                 \cup (IF next[l][up] # Nil THEN {Write("prev", l, next[l][up], low)} ELSE {})
    BY <1>5, <1>7, SwapWritesAre
  <1>10. PICK F : F = SwapIn(l, low, up)
    OBVIOUS
  <1>11. /\ F \in Fram /\ F.used = used /\ F.num = NUM_PWD /\ F.count = count /\ F.name = name
         /\ F.first[l] = IF low = first[l] THEN up ELSE first[l]
         /\ \A d \in Ids :
              /\ F.prev[l][d] = IF d = low THEN up ELSE IF d = up THEN prev[l][low]
                                ELSE IF d = next[l][up] THEN low ELSE prev[l][d]
              /\ F.next[l][d] = IF d = low THEN next[l][up] ELSE IF d = up THEN low
                                ELSE IF d = prev[l][low] THEN up ELSE next[l][d]
         /\ \A m \in Lists : m # l => /\ F.first[m] = first[m] /\ F.prev[m] = prev[m]
                                      /\ F.next[m] = next[m]
    BY <1>5, <1>7, <1>10, SwapInIs
  <1>12. /\ prev[l][low] = IF k = 1 THEN Nil ELSE s[k - 1]
         /\ next[l][up] = IF k + 1 = M.num THEN Nil ELSE s[k + 2]
         /\ k # 1 => s[k - 1] \in used /\ s[k - 1] \in Ids /\ s[k - 1] # Nil /\ s[k - 1] # low /\ s[k - 1] # up
         /\ k + 1 # M.num => s[k + 2] \in used /\ s[k + 2] \in Ids /\ s[k + 2] # Nil /\ s[k + 2] # low /\ s[k + 2] # up
         /\ low = first[l] <=> k = 1
    <2>1. /\ k + 1 \in 1 .. M.num /\ 1 \in 1 .. M.num /\ (k # 1 => k - 1 \in 1 .. M.num)
          /\ (k + 1 # M.num => k + 2 \in 1 .. M.num) /\ (k + 1) + 1 = k + 2
          /\ k - 1 # k /\ k - 1 # k + 1 /\ k + 2 # k /\ k + 2 # k + 1
      BY <1>5, <1>7
    <2>2. \A i, j \in 1 .. M.num : s[i] = s[j] => i = j
      BY <1>4 DEF Order
    <2>0. \A i \in 1 .. M.num : /\ s[i] \in used /\ s[i] \in Ids /\ s[i] # Nil
                                 /\ prev[l][s[i]] = IF i = 1 THEN Nil ELSE s[i - 1]
      BY <1>4, <1>5, OrderFields
    <2>3. prev[l][low] = IF k = 1 THEN Nil ELSE s[k - 1]
      BY <1>7, <2>0
    <2>4. next[l][up] = IF k + 1 = M.num THEN Nil ELSE s[k + 2]
      BY <1>4, <1>5, <1>7, <2>1, OrderFields
    <2>5. first[l] = s[1]
      BY <1>4, <1>5, OrderFields
    <2>6. k # 1 => s[k - 1] \in used /\ s[k - 1] \in Ids /\ s[k - 1] # Nil
      BY <2>0, <2>1
    <2>7. k + 1 # M.num => s[k + 2] \in used /\ s[k + 2] \in Ids /\ s[k + 2] # Nil
      BY <2>0, <2>1
    <2> QED
      BY <1>7, <2>1, <2>2, <2>3, <2>4, <2>5, <2>6, <2>7
  <1> HIDE DEF W, low, up
  <1>13. ASSUME NEW w \in W PROVE Agrees(F, w)
    <2>0. low \in Ids /\ up \in Ids /\ low # up
      BY <1>7 DEF low
    <2>1. CASE w \in {Write("prev", l, low, up), Write("next", l, low, next[l][up]),
                      Write("prev", l, up, prev[l][low]), Write("next", l, up, low)}
      BY <1>11, <2>0, <2>1, Puts
    <2>2. CASE low = first[l] /\ w = Write("first", l, low, up)
      BY <1>11, <2>2, Puts
    <2>3. CASE prev[l][low] # Nil /\ w = Write("next", l, prev[l][low], up)
      BY <1>11, <1>12, <2>3, Puts
    <2>4. CASE next[l][up] # Nil /\ w = Write("prev", l, next[l][up], low)
      BY <1>11, <1>12, <2>4, Puts
    <2> QED
      BY <1>9, <2>1, <2>2, <2>3, <2>4
  <1>14. Covers(M, W, F)
    <2>1. \A m \in Lists : F.first[m] = first[m] \/ \E w \in W : w.field = "first" /\ w.list = m
      BY <1>9, <1>11, WriteFields
    <2>2. ASSUME NEW d \in Ids
          PROVE  /\ F.prev[l][d] = prev[l][d] \/ \E w \in W : w.id = d /\ w.field = "prev" /\ w.list = l
                 /\ F.next[l][d] = next[l][d] \/ \E w \in W : w.id = d /\ w.field = "next" /\ w.list = l
      <3>1. /\ Write("prev", l, low, up) \in W /\ Write("next", l, low, next[l][up]) \in W
            /\ Write("prev", l, up, prev[l][low]) \in W /\ Write("next", l, up, low) \in W
            /\ prev[l][low] # Nil => Write("next", l, prev[l][low], up) \in W
            /\ next[l][up] # Nil => Write("prev", l, next[l][up], low) \in W
        BY <1>9
      <3>2. d # Nil
        BY Sizes
      <3> QED
        BY <1>11, <3>1, <3>2, WriteFields
    <2>3. ASSUME NEW m \in Lists, NEW d \in Ids
          PROVE  /\ F.prev[m][d] = prev[m][d] \/ \E w \in W : w.id = d /\ w.field = "prev" /\ w.list = m
                 /\ F.next[m][d] = next[m][d] \/ \E w \in W : w.id = d /\ w.field = "next" /\ w.list = m
      BY <1>11, <2>2
    <2> QED
      BY <1>5, <1>11, <2>1, <2>3 DEF Covers
  <1>15. Leads(M, W, F)
    BY <1>13, <1>14 DEF Leads
  <1>16. Swaps(M, F, l, s, k)
    <2>1. F.first[l] = IF k = 1 THEN up ELSE first[l]
      BY <1>11, <1>12
    <2>2. ASSUME NEW d \in F.used
          PROVE  /\ F.next[l][d] = IF d = low THEN next[l][up] ELSE IF d = up THEN low
                                   ELSE IF k # 1 /\ d = s[k - 1] THEN up ELSE next[l][d]
                 /\ F.prev[l][d] = IF d = low THEN up ELSE IF d = up THEN prev[l][low]
                                   ELSE IF k + 1 # M.num /\ d = s[k + 2] THEN low ELSE prev[l][d]
      <3>1. d \in Ids /\ d # Nil
        BY <1>11, FramFields
      <3> QED
        BY <1>11, <1>12, <3>1
    <2> QED
      BY <1>5, <1>7, <1>11, <2>1, <2>2 DEF Swaps, low
  <1> DEFINE t == Swapped(s, k, M.num)
  <1>17. Order(F, l, t)
    BY <1>4, <1>5, <1>7, <1>11, <1>16, SwapOrder
  <1>18. Walk(F, l, t)'
    <2>1. /\ k + 1 \in 1 .. M.num /\ (k # 1 => k - 1 \in 1 .. M.num /\ k - 1 # k /\ k - 1 # k + 1)
          /\ k < M.num /\ F.num = M.num
      BY <1>5, <1>7, <1>11
    <2>2. t[k] = up /\ t[k + 1] = low /\ (k # 1 => t[k - 1] = s[k - 1])
      BY <1>5, <1>7, <2>1 DEF Swapped, low
    <2>3. \A x, y : InOrder(F, l, x, y) = InOrder(M, l, x, y)
      BY <1>5, <1>11 DEF InOrder
    <2>4. \A i \in 1 .. k - 1 : InOrder(M, l, s[i], s[i + 1])
      BY <1>6, <1>7 DEF SortedTo
    <2>5. SortedTo(F, l, t, k - 1)
      <3>1. \A i \in 1 .. (k - 1) - 1 : i \in 1 .. k - 1 /\ t[i] = s[i] /\ t[i + 1] = s[i + 1]
        BY <1>5, <1>7 DEF Swapped
      <3> QED
        BY <2>3, <2>4, <3>1 DEF SortedTo
    <2>6. InOrder(F, l, t[k], t[k + 1])
      <3>1. InOrder(M, l, up, low)
        <4>1. /\ M.used \subseteq Ids /\ M.count \in [Ids -> 0 .. COUNT_MOD - 1]
              /\ M.name \in [Ids -> Names] /\ up \in Ids /\ low \in Ids
          BY <1>5, <1>7, FramFields DEF low
        <4>2. 0 .. COUNT_MOD - 1 \subseteq Int /\ Names \subseteq Int
          BY ListAssumption
        <4>3. M.count[up] \in Int /\ M.count[low] \in Int /\ M.name[up] \in Int /\ M.name[low] \in Int
          BY <4>1, <4>2
        <4> QED
          BY <1>5, <1>8, <4>3 DEF InOrder, GoesBefore
      <3> QED
        BY <2>2, <2>3, <3>1
    <2>7. k > 1 => InOrder(F, l, t[k - 1], t[k + 1])
      <3>1. k > 1 => k - 1 \in 1 .. k - 1 /\ (k - 1) + 1 = k /\ k # 1
        BY <1>7
      <3>2. k > 1 => InOrder(M, l, s[k - 1], s[k])
        BY <2>4, <3>1
      <3> QED
        BY <2>2, <2>3, <3>1, <3>2 DEF low
    <2>8. current' = up /\ up # Nil /\ sorting_position' = low
      BY <1>1, <1>8 DEF up
    <2> HIDE DEF t
    <2>9. k \in 1 .. F.num /\ k < F.num
      BY <2>1
    <2>10. Walk(F, l, t)' <=>
             IF current' = Nil THEN sorting_position' = 0 /\ SortedTo(F, l, t, F.num)
             ELSE \E j \in 1 .. F.num :
                    /\ t[j] = current' /\ SortedTo(F, l, t, j - 1)
                    /\ \/ sorting_position' = current'
                       \/ /\ j < F.num /\ sorting_position' = t[j + 1]
                          /\ InOrder(F, l, t[j], t[j + 1])
                          /\ j > 1 => InOrder(F, l, t[j - 1], t[j + 1])
      BY DEF Walk, SortedTo, InOrder
    <2> QED
      BY <2>2, <2>5, <2>6, <2>7, <2>8, <2>9, <2>10
  <1> HIDE DEF t
  <1>19. Memory' = M
    BY <1>1, <1>2 DEF Memory
  <1>20. low \in Ids /\ low \in Ptr /\ low # Nil
    BY <1>7, Sizes DEF low
  <1>21. LocalsOK'
    BY <1>1, <1>8, <1>9, <1>20 DEF ListInv, LocalsOK
  <1>22. Begun'
    BY <1>8, <1>20 DEF Begun
  <1>23. Control'
    BY <1>1, <1>5, <1>22 DEF ListInv, Control
  <1>24. Leads(Memory', Elements(todo'), F)
    BY <1>8, <1>15, <1>19 DEF W
  <1>25. Catalogue(F)'
    <2>1. Arranged(F, l)'
      <3>1. t \in [1 .. F.num -> F.used]
        BY <1>17 DEF Order
      <3>2. l \in Elements(plan')
        <4>1. Control
          BY DEF ListInv
        <4>2. Head(plan) \in Elements(plan)
          BY <1>5, <4>1, PlanFacts
        <4> QED
          BY <1>1, <1>3, <4>2 DEF head
      <3> QED
        BY <1>17, <1>18, <3>1, <3>2 DEF Arranged
    <2>2. ASSUME NEW m \in Lists, m # l PROVE Arranged(F, m)'
      <3>1. PICK r \in [1 .. M.num -> M.used] :
              Order(M, m, r) /\ (m \notin Elements(plan) => SortedTo(M, m, r, M.num))
        BY <1>5 DEF Catalogue, Arranged
      <3>2. Order(F, m, r)
        BY <1>5, <1>11, <2>2, <3>1, KeepOrder
      <3>3. m \notin Elements(plan) => SortedTo(F, m, r, F.num)
        BY <1>5, <1>11, <3>1 DEF SortedTo, InOrder
      <3>4. m # Head(plan')
        BY <1>1, <1>3, <2>2 DEF head
      <3>5. r \in [1 .. F.num -> F.used] /\ plan' = plan
        BY <1>1, <1>5, <1>11, <3>1
      <3> QED
        BY <3>2, <3>3, <3>4, <3>5 DEF Arranged
    <2>3. \A m \in Lists : Arranged(F, m)'
      BY <2>1, <2>2
    <2>4. \A m \in Lists, d \in Ids \ F.used : F.next[m][d] = 0
      <3>1. \A m \in Lists, d \in Ids \ used : next[m][d] = 0
        BY <1>5 DEF Catalogue
      <3>2. low \in used /\ up \in used
        BY <1>7 DEF low
      <3>3. ASSUME NEW d \in Ids \ used PROVE F.next[l][d] = 0
        <4>1. d # low /\ d # up /\ d # prev[l][low]
          BY <1>12, <3>2, Sizes
        <4> QED
          BY <1>5, <1>11, <3>1, <4>1
      <3> QED
        BY <1>11, <3>1, <3>3
    <2> QED
      BY <1>1, <1>5, <1>11, <2>3, <2>4 DEF Catalogue
  <1> QED
    BY <1>5, <1>11, <1>19, <1>21, <1>23, <1>24, <1>25, Establish
-----------------------------------------------------------------------------
(***************************************************************************)
(* The invariant holds, and what it says between operations.               *)
(***************************************************************************)
\* A step that changes no variable.
LEMMA StutterKeeps == ListInv /\ UNCHANGED vars => ListInv'
  <1> SUFFICES ASSUME ListInv, UNCHANGED vars PROVE ListInv'
    OBVIOUS
  <1>1. /\ UNCHANGED <<used, NUM_PWD, first, prev, next, count, name>>
        /\ UNCHANGED <<method, CURRENT_PASSWORD_ID, pc, todo, plan, current, sorting_position>>
    BY DEF vars
  <1>2. PICK F : F = Outcome
    OBVIOUS
  <1>3. Memory' = Memory /\ F \in Fram
    BY <1>1, <1>2 DEF Memory, ListInv, Catalogue
  <1>4. LocalsOK' /\ Control'
    BY <1>1 DEF ListInv, LocalsOK, Control, Begun
  <1>5. Leads(Memory', Elements(todo'), F) /\ (Memory \in Fram)'
    BY <1>1, <1>2, <1>3 DEF ListInv
  <1>6. Catalogue(F)'
    BY <1>1, <1>2 DEF ListInv, Catalogue, Arranged, Walk, Begun
  <1> QED
    BY <1>3, <1>4, <1>5, <1>6, Establish

\* Each step of the device, of the user and of the power supply.
LEMMA NextKeeps ==
  ASSUME ~CutAnywhere, ListInv, [Next]_vars
  PROVE  ListInv'
  <1>1. CASE Device
    BY <1>1, PerformKeeps, SortSkipKeeps, SortBeginKeeps, SortSwapKeeps, SortNextKeeps,
       SortEndKeeps, ReturnKeeps DEF Device, Sort
  <1>2. CASE Unlock \/ DeletePwd \/ SendPwd
    BY <1>2, UnlockKeeps, DeletePwdKeeps, SendPwdKeeps
  <1>3. CASE \E n \in Names : AddPwd(n) \/ ChangeName(n)
    BY <1>3, AddPwdKeeps, ChangeNameKeeps
  <1>4. CASE \/ PrevButton \/ NextButton
             \/ \E m \in {"none", "use", "alpha"} : SetMethod(m)
             \/ \E n \in Names : Browse(n)
    BY <1>4, MovesKeep
  <1>5. CASE Crash
    BY <1>5, CrashKeeps
  <1>6. CASE UNCHANGED vars
    BY <1>6, StutterKeeps
  <1> QED
    BY <1>1, <1>2, <1>3, <1>4, <1>5, <1>6 DEF Next, User

\* When power is lost only between operations, the writes still to be performed
\* always lead to a memory whose lists are whole, whatever the user does.
THEOREM ListInvariant ==
  ASSUME ~CutAnywhere
  PROVE  Spec => []ListInv
  <1>1. ListInv /\ [Next]_vars => ListInv'
    BY NextKeeps
  <1> QED
    BY <1>1, InitListInv, PTL DEF Spec

\* Then the FRAM, the selection and the locals of the sort keep their types:
\* the use counter fits its two bytes, no head is the end mark, no walk runs on.
THEOREM ListTypes ==
  ASSUME ~CutAnywhere
  PROVE  Spec => []TypeOK
  <1>1. ASSUME ListInv PROVE TypeOK
    <2>1. /\ used \subseteq Ids /\ NUM_PWD \in 0 .. MAXIMUM_NUMBER_OF_PWD - 1
          /\ first \in [Lists -> Ids]
          /\ prev \in [Lists -> [Ids -> Ptr]] /\ next \in [Lists -> [Ids -> Ptr]]
          /\ count \in [Ids -> 0 .. COUNT_MOD - 1] /\ name \in [Ids -> Names]
      <3>1. Memory \in Fram
        BY <1>1 DEF ListInv
      <3> QED
        BY <3>1, FramFields, MemoryFields DEF Last
    <2>2. plan \in Seq(Lists)
      <3>1. "use" \in Lists /\ "alpha" \in Lists
        BY DEF Lists
      <3>2. /\ <<>> \in Seq(Lists) /\ <<"use">> \in Seq(Lists)
            /\ <<"alpha">> \in Seq(Lists) /\ <<"use", "alpha">> \in Seq(Lists)
        BY <3>1, ElementsOfOne, ElementsOfTwo, ElementsEmpty
      <3> QED
        BY <1>1, <3>2 DEF ListInv, Control
    <2> QED
      BY <1>1, <2>1, <2>2 DEF ListInv, LocalsOK, Control, TypeOK
  <1> QED
    BY <1>1, ListInvariant, PTL

\* Between operations each list chains exactly the used chunks, both ways, and
\* NUM_PWD counts them, for any number of chunks.
THEOREM ListsAreIntact ==
  ASSUME ~CutAnywhere
  PROVE  Spec => []ListsIntact
  <1>1. ASSUME ListInv PROVE ListsIntact
    <2> SUFFICES ASSUME pc = "menu" PROVE ListsIntact
      BY DEF ListsIntact
    <2>1. /\ todo = <<>> /\ Memory \in Fram /\ (used = {} <=> NUM_PWD = 0) /\ NUM_PWD \in Nat
          /\ \A l \in Lists : \E s : Order(Memory, l, s)
      BY <1>1, QuietSorted, ListFacts, Sizes
    <2>2. NUM_PWD = Cardinality(used)
      <3>1. "use" \in Lists
        BY DEF Lists
      <3> QED
        BY <2>1, <3>1, OrderNumber, MemoryFields
    <2>3. ASSUME NEW l \in Lists
          PROVE  IF used = {} THEN first[l] = 0
                 ELSE /\ Ends(l, first[l]) /\ Members(l, first[l]) = used
                      /\ prev[l][first[l]] = Nil
                      /\ \A c \in used : next[l][c] # Nil => prev[l][next[l][c]] = c
      <3>1. PICK s : Order(Memory, l, s)
        BY <2>1
      <3>2. /\ first[l] = IF NUM_PWD = 0 THEN 0 ELSE s[1]
            /\ \A c \in used : \E n \in 1 .. NUM_PWD : s[n] = c
            /\ \A n \in 1 .. NUM_PWD :
                 /\ s[n] # Nil
                 /\ next[l][s[n]] = IF n = NUM_PWD THEN Nil ELSE s[n + 1]
                 /\ prev[l][s[n]] = IF n = 1 THEN Nil ELSE s[n - 1]
        BY <2>1, <3>1, ListIs
      <3>3. CASE used = {}
        BY <2>1, <3>2, <3>3
      <3>4. CASE used # {}
        <4>1. Ends(l, first[l]) /\ Members(l, first[l]) = used
          BY <2>1, <3>1, <3>4, WalkMeets
        <4>2. 1 \in 1 .. NUM_PWD
          BY <2>1, <3>4
        <4>3. prev[l][first[l]] = Nil
          BY <3>2, <4>2
        <4>4. ASSUME NEW c \in used, next[l][c] # Nil PROVE prev[l][next[l][c]] = c
          <5>1. PICK n \in 1 .. NUM_PWD : s[n] = c
            BY <3>2
          <5>2. n # NUM_PWD
            BY <3>2, <4>4, <5>1
          <5>3. n + 1 \in 1 .. NUM_PWD /\ n + 1 # 1 /\ (n + 1) - 1 = n
            BY <2>1, <5>2
          <5> QED
            BY <3>2, <5>1, <5>2, <5>3
        <4> QED
          BY <3>4, <4>1, <4>3, <4>4
      <3> QED
        BY <3>3, <3>4
    <2> QED
      BY <2>2, <2>3 DEF ListsIntact
  <1> QED
    BY <1>1, ListInvariant, PTL

\* Between operations the lists are in order, most used first also after a
\* counter has wrapped, and by name: every operation that changes a key sorts.
THEOREM ListsAreSorted ==
  ASSUME ~CutAnywhere
  PROVE  Spec => []ListsSorted
  <1>1. ASSUME ListInv PROVE ListsSorted
    <2> SUFFICES ASSUME pc = "menu" PROVE ListsSorted
      BY DEF ListsSorted
    <2>1. /\ todo = <<>> /\ Memory \in Fram /\ NUM_PWD \in Nat
          /\ \A l \in Lists : \E s : Order(Memory, l, s) /\ SortedTo(Memory, l, s, NUM_PWD)
      BY <1>1, QuietSorted, ListFacts, Sizes
    <2>2. ASSUME NEW l \in Lists, NEW c \in used, next[l][c] # Nil
          PROVE  InOrder(Memory, l, c, next[l][c])
      <3>1. PICK s : Order(Memory, l, s) /\ SortedTo(Memory, l, s, NUM_PWD)
        BY <2>1
      <3>2. PICK n \in 1 .. NUM_PWD : s[n] = c
        BY <2>1, <3>1, ListIs
      <3>3. next[l][c] = IF n = NUM_PWD THEN Nil ELSE s[n + 1]
        BY <2>1, <3>1, <3>2, ListIs
      <3>4. n \in 1 .. NUM_PWD - 1
        BY <2>1, <2>2, <3>2, <3>3
      <3> QED
        BY <2>2, <3>1, <3>2, <3>3, <3>4 DEF SortedTo
    <2>3. "use" \in Lists /\ "alpha" \in Lists /\ "use" # "alpha"
      BY DEF Lists
    <2> QED
      BY <2>2, <2>3, MemoryFields DEF ListsSorted, InOrder
  <1> QED
    BY <1>1, ListInvariant, PTL

\* What is shown, sent, edited or deleted next is a stored credential.
THEOREM SelectionIsStored ==
  ASSUME ~CutAnywhere
  PROVE  Spec => []CurrentStored
  <1>1. ListInv => CurrentStored
    BY QuietSorted DEF CurrentStored
  <1> QED
    BY <1>1, ListInvariant, PTL

\* The chunk that does not fit in the FRAM whole is never used: additions stop
\* at the limit on NUM_PWD, which counts the used chunks.
THEOREM LastChunkIsFree ==
  ASSUME ~CutAnywhere
  PROVE  Spec => []LastChunkFree
  <1>1. ASSUME ListInv PROVE LastChunkFree
    <2>1. Memory \in Fram
      BY <1>1 DEF ListInv
    <2>2. used \subseteq 0 .. Last - 1
      BY <2>1, FramFields, MemoryFields
    <2> QED
      BY <2>2, Sizes DEF LastChunkFree, Last
  <1> QED
    BY <1>1, ListInvariant, PTL

\* No walk along a list turns in circles: it takes a power loss in the middle of
\* an operation to make the wallet hang.
THEOREM NoWalkHangs ==
  ASSUME ~CutAnywhere
  PROVE  Spec => []WalksEnd
  <1>1. ListInv => WalksEnd
    BY DEF ListInv, Control, WalksEnd
  <1> QED
    BY <1>1, ListInvariant, PTL
=============================================================================
