-------------------------- MODULE FullReset_proofs --------------------------
(***************************************************************************)
(* Proofs about FullReset, for every size of the memory, of a page and of  *)
(* an int, every outcome of the overflow and any number of power losses:   *)
(* the wallet declared initialised has an empty first page, the flag goes  *)
(* before what it vouches for, and what is left is what the addresses of   *)
(* the loop cannot name.                                                   *)
(***************************************************************************)
EXTENDS FullReset, TLAPS

AfterLoop == {"clear", "change_confirm", "change", "hung", "flag"}

\* The last page of the loop is the first page of the memory, from its start,
\* and what follows the loop writes no block.
Progress ==
  /\ pc = "erase" /\ i = 0 => \A b \in Section : b < j => b \notin stale
  /\ pc \in AfterLoop => Section \cap stale = {}

\* The flag is in the first block that is erased of the first page, on
\* whichever page of the loop the address wraps to it.
FlagProgress ==
  /\ FlagFirst
  /\ pc = "erase" /\ INITIALIZED =>
       /\ Section \subseteq stale
       /\ j # 0 => Address(i * PAGE_BLOCKS) # 0

\* The product that points at a block, the only one if it wraps.
Home(b) ==
  IF overflow = "sign" /\ 2 * b >= INT_BLOCKS THEN b - FRAM_BLOCKS + INT_BLOCKS ELSE b

\* What no product points at stays; of the rest, what is left lies where its
\* product is below the page of the loop, or as far in that page as the loop has come.
LeftProgress ==
  /\ Unreached \subseteq stale
  /\ pc = "erase" => \A b \in stale \ Unreached :
       \/ Home(b) < i * PAGE_BLOCKS
       \/ i * PAGE_BLOCKS + j <= Home(b) /\ Home(b) < (i + 1) * PAGE_BLOCKS
  /\ pc \in AfterLoop => stale \subseteq Unreached

ResetInv == TypeOK /\ Progress /\ FlagProgress /\ LeftProgress

LEMMA Sizes ==
  /\ FRAM_BLOCKS \in Nat \ {0} /\ PAGE_BLOCKS \in Nat \ {0} /\ INT_BLOCKS \in Nat \ {0}
  /\ Pages \in Nat \ {0} /\ PAGE_BLOCKS <= FRAM_BLOCKS
  /\ 2 * PAGE_BLOCKS <= INT_BLOCKS
  /\ Section \subseteq Blocks /\ 0 \in Section
  <1>1. FRAM_BLOCKS \in Nat \ {0} /\ PAGE_BLOCKS \in Nat \ {0} /\ INT_BLOCKS \in Nat \ {0}
        /\ FRAM_BLOCKS = Pages * PAGE_BLOCKS /\ INT_BLOCKS % (2 * PAGE_BLOCKS) = 0
    BY SizesAssumption
  <1>2. Pages \in Int
    BY <1>1 DEF Pages
  <1>3. \A p, s \in Int : s > 0 /\ p * s > 0 => p > 0 /\ s <= p * s
    OBVIOUS
  <1>4. Pages > 0 /\ PAGE_BLOCKS <= FRAM_BLOCKS
    BY <1>1, <1>2, <1>3
  <1>5. 2 * PAGE_BLOCKS <= INT_BLOCKS
    <2>1. \A n, m \in Nat \ {0} : n < m => n % m = n
      OBVIOUS
    <2> QED
      BY <1>1, <2>1
  <1> QED
    BY <1>1, <1>2, <1>4, <1>5 DEF Section, Blocks

\* On the first page the product does not overflow.
LEMMA FirstPageAddress ==
  ASSUME NEW n \in Section, overflow \in {"product", "zero", "sign"}
  PROVE  Address(0 * PAGE_BLOCKS + n) = n
  <1>1. n \in Nat /\ n < FRAM_BLOCKS /\ 2 * n < INT_BLOCKS /\ n < INT_BLOCKS
        /\ FRAM_BLOCKS \in Nat \ {0} /\ INT_BLOCKS \in Nat \ {0}
    BY Sizes DEF Section
  <1>2. 0 * PAGE_BLOCKS + n = n
    BY <1>1, Sizes
  <1>3. n % INT_BLOCKS = n /\ n % FRAM_BLOCKS = n
    BY <1>1
  <1>4. Signed(n % INT_BLOCKS) = n
    BY <1>1, <1>3 DEF Signed
  <1> QED
    BY <1>2, <1>3, <1>4 DEF Address

\* Division with remainder is unique.
LEMMA Remainder ==
  ASSUME NEW k \in Int, NEW r \in Int, NEW m \in Int, 0 <= r, r < m
  PROVE  (k * m + r) % m = r
  <1> DEFINE n == k * m + r
  <1> DEFINE q == n \div m
  <1> DEFINE s == n % m
  <1>1. n \in Int /\ q \in Int /\ s \in Int /\ n = m * q + s /\ 0 <= s /\ s < m
    OBVIOUS
  <1>2. (k - q) * m = s - r
    BY <1>1
  <1> HIDE DEF n, q, s
  <1>3. \A d \in Int : d * m < m /\ -m < d * m => d = 0
    OBVIOUS
  <1>4. k - q = 0
    BY <1>1, <1>2, <1>3
  <1> QED
    BY <1>1, <1>2, <1>4 DEF n, s

\* Half the range of an int is a number of pages.
LEMMA IntPages ==
  \E h \in Nat \ {0} : INT_BLOCKS = 2 * h * PAGE_BLOCKS
  <1> DEFINE m == 2 * PAGE_BLOCKS
  <1> DEFINE h == INT_BLOCKS \div m
  <1>1. m \in Nat \ {0} /\ INT_BLOCKS \in Nat \ {0} /\ PAGE_BLOCKS \in Nat \ {0} /\ INT_BLOCKS % m = 0
    BY SizesAssumption
  <1>2. h \in Int /\ INT_BLOCKS = m * h + (INT_BLOCKS % m)
    BY <1>1
  <1> HIDE DEF h
  <1>3. INT_BLOCKS = m * h
    <2>1. m * h \in Int
      BY <1>1, <1>2
    <2> HIDE DEF m
    <2> QED
      BY <1>1, <1>2, <2>1
  <1>4. INT_BLOCKS = 2 * h * PAGE_BLOCKS
    BY <1>1, <1>2, <1>3
  <1> HIDE DEF m
  <1>5. h > 0
    BY <1>1, <1>2, <1>3
  <1> QED
    BY <1>2, <1>4, <1>5

\* The blocks of the page a are below those of the page k.
LEMMA InPage ==
  ASSUME NEW k \in Int, NEW a \in Int, 0 <= a, a < k, NEW n \in Section
  PROVE  0 <= a * PAGE_BLOCKS + n /\ a * PAGE_BLOCKS + n < k * PAGE_BLOCKS
  <1>1. PAGE_BLOCKS \in Nat /\ n \in Nat /\ n < PAGE_BLOCKS
    BY Sizes DEF Section
  <1>2. (a + 1) * PAGE_BLOCKS <= k * PAGE_BLOCKS /\ 0 <= a * PAGE_BLOCKS
    BY <1>1
  <1>3. (a + 1) * PAGE_BLOCKS = a * PAGE_BLOCKS + PAGE_BLOCKS
    BY <1>1
  <1> QED
    BY <1>1, <1>2, <1>3

\* Whatever the compiler makes of the product, the loop erases a page of the
\* memory from its start: the addresses wrap between pages.
LEMMA PageOfLoop ==
  ASSUME NEW p \in 0 .. Pages - 1, overflow \in {"product", "zero", "sign"}
  PROVE  \E q \in Int : \A n \in Section : Address(p * PAGE_BLOCKS + n) = q * PAGE_BLOCKS + n
  <1>1. PICK h \in Nat \ {0} : INT_BLOCKS = 2 * h * PAGE_BLOCKS
    BY IntPages
  <1>2. /\ PAGE_BLOCKS \in Nat \ {0} /\ Pages \in Nat \ {0} /\ INT_BLOCKS \in Nat \ {0}
        /\ FRAM_BLOCKS \in Nat \ {0} /\ FRAM_BLOCKS = Pages * PAGE_BLOCKS
        /\ p \in Int
    BY Sizes, SizesAssumption
  <1> DEFINE t == 2 * h
  <1> DEFINE e == p \div t
  <1> DEFINE r == p % t
  <1>3. /\ t \in Int /\ e \in Int /\ r \in Int /\ p = t * e + r /\ 0 <= r /\ r < t
    BY <1>2
  <1> HIDE DEF e, r
  <1> DEFINE u == IF r >= h THEN r - t ELSE r
  <1> DEFINE f == u \div Pages
  <1> DEFINE v == u % Pages
  <1>4. u \in Int /\ f \in Int /\ v \in Int /\ u = Pages * f + v /\ 0 <= v /\ v < Pages
    <2>1. u \in Int
      BY <1>3
    <2> HIDE DEF u
    <2> QED
      BY <2>1, <1>2
  <1> HIDE DEF f, v
  <1>5. ASSUME NEW n \in Section
        PROVE  /\ (p * PAGE_BLOCKS + n) % INT_BLOCKS = r * PAGE_BLOCKS + n
               /\ Signed(r * PAGE_BLOCKS + n) = u * PAGE_BLOCKS + n
               /\ (u * PAGE_BLOCKS + n) % FRAM_BLOCKS = v * PAGE_BLOCKS + n
    <2>1. n \in Int /\ INT_BLOCKS = t * PAGE_BLOCKS
      BY <1>1, <1>2 DEF Section
    <2>2. (p * PAGE_BLOCKS + n) % INT_BLOCKS = r * PAGE_BLOCKS + n
      <3>1. 0 <= r * PAGE_BLOCKS + n /\ r * PAGE_BLOCKS + n < INT_BLOCKS
        BY <1>3, <2>1, InPage
      <3>2. p * PAGE_BLOCKS + n = e * INT_BLOCKS + (r * PAGE_BLOCKS + n)
        BY <1>2, <1>3, <2>1
      <3>3. r * PAGE_BLOCKS + n \in Int
        BY <1>2, <1>3, <2>1
      <3> QED
        BY <1>2, <1>3, <3>1, <3>2, <3>3, Remainder
    <2>3. Signed(r * PAGE_BLOCKS + n) = u * PAGE_BLOCKS + n
      <3>1. INT_BLOCKS = 2 * (h * PAGE_BLOCKS) /\ h * PAGE_BLOCKS \in Int /\ r * PAGE_BLOCKS + n \in Int
        BY <1>1, <1>2, <1>3, <2>1
      <3>2. CASE r >= h
        <4>1. r * PAGE_BLOCKS + n >= h * PAGE_BLOCKS
          BY <1>2, <1>3, <3>2 DEF Section
        <4>2. (r - t) * PAGE_BLOCKS + n = (r * PAGE_BLOCKS + n) - INT_BLOCKS
          BY <1>2, <1>3, <2>1
        <4>3. 2 * (r * PAGE_BLOCKS + n) >= INT_BLOCKS
          BY <3>1, <4>1
        <4> QED
          BY <3>2, <4>2, <4>3 DEF Signed
      <3>3. CASE ~(r >= h)
        <4>1. r * PAGE_BLOCKS + n < h * PAGE_BLOCKS
          BY <1>3, <3>3, InPage
        <4>2. ~(2 * (r * PAGE_BLOCKS + n) >= INT_BLOCKS)
          BY <3>1, <4>1
        <4> QED
          BY <3>3, <4>2 DEF Signed
      <3> QED
        BY <3>2, <3>3
    <2> HIDE DEF u
    <2>4. (u * PAGE_BLOCKS + n) % FRAM_BLOCKS = v * PAGE_BLOCKS + n
      <3>1. 0 <= v * PAGE_BLOCKS + n /\ v * PAGE_BLOCKS + n < FRAM_BLOCKS
        BY <1>2, <1>4, <2>1, InPage
      <3>2. u * PAGE_BLOCKS + n = f * FRAM_BLOCKS + (v * PAGE_BLOCKS + n)
        BY <1>2, <1>4, <2>1
      <3>3. v * PAGE_BLOCKS + n \in Int
        BY <1>2, <1>4, <2>1
      <3>4. (f * FRAM_BLOCKS + (v * PAGE_BLOCKS + n)) % FRAM_BLOCKS = v * PAGE_BLOCKS + n
        BY <1>2, <1>4, <3>1, <3>3, Remainder
      <3> QED
        BY ONLY <3>2, <3>4
    <2> QED
      BY <2>2, <2>3, <2>4
  <1> HIDE DEF u
  <1>6. CASE overflow = "product"
    BY <1>2, <1>6 DEF Address
  <1>7. CASE overflow = "zero"
    BY <1>3, <1>5, <1>7 DEF Address
  <1>8. CASE overflow = "sign"
    BY <1>4, <1>5, <1>8 DEF Address
  <1> QED
    BY <1>6, <1>7, <1>8

\* A block of the first page has only one page and one place in it.
LEMMA FirstPage ==
  ASSUME NEW q \in Int, NEW n \in Section, q * PAGE_BLOCKS + n \in Section
  PROVE  q * PAGE_BLOCKS + n = n /\ q * PAGE_BLOCKS = 0
  <1>1. PAGE_BLOCKS \in Nat \ {0} /\ n \in Nat /\ n < PAGE_BLOCKS
        /\ q * PAGE_BLOCKS + n >= 0 /\ q * PAGE_BLOCKS + n < PAGE_BLOCKS
    BY Sizes DEF Section
  <1>2. \A d, m \in Int : m > 0 /\ d * m < m /\ -m < d * m => d = 0
    OBVIOUS
  <1>3. q * PAGE_BLOCKS \in Int
    BY <1>1
  <1>4. q * PAGE_BLOCKS < PAGE_BLOCKS /\ -PAGE_BLOCKS < q * PAGE_BLOCKS
    BY <1>1, <1>3
  <1>5. q = 0
    BY <1>1, <1>2, <1>4
  <1> QED
    BY <1>1, <1>5

\* Before the first block of the memory no other one of its page is erased.
LEMMA FlagBlockFirst ==
  ASSUME TypeOK, Address(i * PAGE_BLOCKS + j) \in Section
  PROVE  Address(i * PAGE_BLOCKS + j) = j /\ Address(i * PAGE_BLOCKS) = 0
  <1>1. PICK q \in Int : \A n \in Section : Address(i * PAGE_BLOCKS + n) = q * PAGE_BLOCKS + n
    BY PageOfLoop DEF TypeOK
  <1>2. j \in Section /\ 0 \in Section
    BY Sizes DEF TypeOK
  <1>3. q * PAGE_BLOCKS + j = j /\ q * PAGE_BLOCKS = 0
    BY <1>1, <1>2, FirstPage
  <1>4. i * PAGE_BLOCKS + 0 = i * PAGE_BLOCKS /\ q * PAGE_BLOCKS + 0 = q * PAGE_BLOCKS
    BY Sizes DEF TypeOK
  <1> QED
    BY <1>1, <1>2, <1>3, <1>4

\* An int ends within the memory, or beyond twice its size.
LEMMA MemoryAndInt == FRAM_BLOCKS >= INT_BLOCKS \/ INT_BLOCKS >= 2 * FRAM_BLOCKS
  <1>1. FRAM_BLOCKS \in Nat \ {0} /\ INT_BLOCKS \in Nat \ {0}
    BY Sizes
  <1>2. CASE FRAM_BLOCKS % INT_BLOCKS = 0
    <2>1. \A n, m \in Nat \ {0} : n < m => n % m = n
      OBVIOUS
    <2> QED
      BY <1>1, <1>2, <2>1
  <1>3. CASE INT_BLOCKS % FRAM_BLOCKS = 0
    <2> DEFINE q == INT_BLOCKS \div FRAM_BLOCKS
    <2>1. q \in Int /\ INT_BLOCKS = FRAM_BLOCKS * q + (INT_BLOCKS % FRAM_BLOCKS)
      BY <1>1
    <2> HIDE DEF q
    <2>2. INT_BLOCKS = FRAM_BLOCKS * q
      <3>1. FRAM_BLOCKS * q \in Int
        BY <1>1, <2>1
      <3> QED
        BY <1>3, <2>1, <3>1
    <2>3. \A f, k \in Int : f > 0 /\ f * k > 0 => k = 1 \/ f * k >= 2 * f
      OBVIOUS
    <2>4. q = 1 \/ FRAM_BLOCKS * q >= 2 * FRAM_BLOCKS
      BY <1>1, <2>1, <2>2, <2>3
    <2> QED
      BY <1>1, <2>2, <2>4
  <1> QED
    BY <1>2, <1>3, SizesAssumption

\* No product points at an unreached block.
LEMMA NeverNamed ==
  ASSUME NEW n \in Int, overflow \in {"product", "zero", "sign"}
  PROVE  Address(n) \notin Unreached
  <1>1. FRAM_BLOCKS \in Nat \ {0} /\ INT_BLOCKS \in Nat \ {0}
    BY Sizes
  <1> DEFINE m == n % INT_BLOCKS
  <1>2. m \in Int /\ 0 <= m /\ m < INT_BLOCKS
    BY <1>1
  <1> HIDE DEF m
  <1>3. CASE overflow = "product"
    BY <1>3 DEF Unreached
  <1>4. CASE overflow = "zero"
    BY <1>1, <1>2, <1>4 DEF Unreached, Address, m
  <1>5. CASE overflow = "sign"
    <2> DEFINE s == Signed(m)
    <2> DEFINE a == s % FRAM_BLOCKS
    <2>1. s \in Int /\ 2 * s < INT_BLOCKS /\ -INT_BLOCKS <= 2 * s
      BY <1>1, <1>2 DEF Signed
    <2> HIDE DEF s
    <2>2. a \in Int /\ 0 <= a /\ a < FRAM_BLOCKS
      BY <1>1, <2>1
    <2>3. ~(2 * a >= INT_BLOCKS /\ 2 * (FRAM_BLOCKS - a) > INT_BLOCKS)
      <3>1. CASE INT_BLOCKS >= 2 * FRAM_BLOCKS
        <4> HIDE DEF a
        <4> QED
          BY <1>1, <2>2, <3>1
      <3>2. CASE FRAM_BLOCKS >= INT_BLOCKS /\ s >= 0
        <4>1. s < FRAM_BLOCKS
          BY <1>1, <2>1, <3>2
        <4>2. a = s
          BY <1>1, <2>1, <3>2, <4>1
        <4> HIDE DEF a
        <4> QED
          BY <1>1, <2>1, <4>2
      <3>3. CASE FRAM_BLOCKS >= INT_BLOCKS /\ s < 0
        <4>1. 0 <= s + FRAM_BLOCKS /\ s + FRAM_BLOCKS < FRAM_BLOCKS
              /\ s = (-1) * FRAM_BLOCKS + (s + FRAM_BLOCKS)
          BY <1>1, <2>1, <3>3
        <4>2. ((-1) * FRAM_BLOCKS + (s + FRAM_BLOCKS)) % FRAM_BLOCKS = s + FRAM_BLOCKS
          BY <1>1, <2>1, <4>1, Remainder
        <4>3. a = s + FRAM_BLOCKS
          BY <4>1, <4>2
        <4> HIDE DEF a
        <4> QED
          BY <1>1, <2>1, <4>3
      <3> QED
        BY <2>1, <3>1, <3>2, <3>3, MemoryAndInt
    <2>4. Address(n) = a
      BY <1>5 DEF Address, m, s
    <2> HIDE DEF a
    <2> QED
      BY <1>5, <2>3, <2>4 DEF Unreached
  <1> QED
    BY <1>3, <1>4, <1>5

\* Every other block has a product that points at it.
LEMMA HomeOf ==
  ASSUME NEW b \in Blocks, b \notin Unreached, overflow \in {"product", "zero", "sign"}
  PROVE  Home(b) \in Blocks /\ Address(Home(b)) = b
  <1>1. FRAM_BLOCKS \in Nat \ {0} /\ INT_BLOCKS \in Nat \ {0}
        /\ b \in Nat /\ b < FRAM_BLOCKS
    BY Sizes DEF Blocks
  <1>2. b % FRAM_BLOCKS = b /\ (b < INT_BLOCKS => b % INT_BLOCKS = b)
    BY <1>1
  <1>3. CASE overflow = "product"
    BY <1>3 DEF Home, Address
  <1>4. CASE overflow = "zero"
    BY <1>1, <1>2, <1>4 DEF Home, Address, Unreached
  <1>5. CASE overflow = "sign" /\ 2 * b < INT_BLOCKS
    <2>1. Home(b) = b /\ b < INT_BLOCKS
      BY <1>1, <1>5 DEF Home
    <2>2. Signed(b) = b
      BY <1>1, <1>5 DEF Signed
    <2> QED
      BY <1>2, <1>5, <2>1, <2>2 DEF Address
  <1>6. CASE overflow = "sign" /\ 2 * b >= INT_BLOCKS
    <2> DEFINE h == b - FRAM_BLOCKS + INT_BLOCKS
    <2>1. 2 * (FRAM_BLOCKS - b) <= INT_BLOCKS
      BY <1>1, <1>6 DEF Unreached
    <2>2. FRAM_BLOCKS >= INT_BLOCKS
      BY <1>1, <1>6, MemoryAndInt
    <2>3. h \in Int /\ 2 * h >= INT_BLOCKS /\ 0 <= h /\ h < INT_BLOCKS /\ h \in Blocks
          /\ h - INT_BLOCKS = (-1) * FRAM_BLOCKS + b
      BY <1>1, <2>1, <2>2 DEF Blocks
    <2> HIDE DEF h
    <2>4. Home(b) = h
      BY <1>6 DEF Home, h
    <2>5. h % INT_BLOCKS = h
      BY <1>1, <2>3
    <2>6. Signed(h) = (-1) * FRAM_BLOCKS + b
      BY <2>3 DEF Signed
    <2>7. ((-1) * FRAM_BLOCKS + b) % FRAM_BLOCKS = b
      BY <1>1, Remainder
    <2> QED
      BY <1>6, <2>3, <2>4, <2>5, <2>6, <2>7 DEF Address
  <1> QED
    BY <1>1, <1>3, <1>4, <1>5, <1>6

\* A wallet in use has its memory as it was.
LEMMA InitResetInv == Init => ResetInv
  <1> SUFFICES ASSUME Init PROVE ResetInv
    OBVIOUS
  <1>1. 0 \in 0..(Pages - 1) /\ 0 \in Section /\ 0 \in 0..MaxCuts
    BY Sizes, SizesAssumption
  <1>2. TypeOK
    BY <1>1 DEF Init, TypeOK
  <1>3. Section \subseteq stale /\ pc = "boot" /\ pc # "erase" /\ pc \notin AfterLoop
    BY Sizes DEF Init, AfterLoop
  <1>4. Unreached \subseteq stale
    BY <1>2 DEF Init, TypeOK, Unreached
  <1> QED
    BY <1>2, <1>3, <1>4 DEF ResetInv, Progress, FlagProgress, FlagFirst, LeftProgress

\* One fram_set of the loop.
LEMMA EraseKeeps ==
  ASSUME ResetInv, Erase
  PROVE  ResetInv'
  <1>1. TypeOK /\ Progress /\ FlagProgress /\ LeftProgress /\ pc = "erase"
    BY DEF ResetInv, Erase
  <1>2. stale' \subseteq stale /\ INITIALIZED' \in BOOLEAN
    BY <1>1 DEF Erase, Erased, TypeOK
  <1>3. TypeOK'
    <2>1. /\ i \in 0..(Pages - 1) /\ j \in 0..(PAGE_BLOCKS - 1)
          /\ Pages \in Nat \ {0} /\ PAGE_BLOCKS \in Nat \ {0}
      BY <1>1, Sizes DEF TypeOK, Section
    <2>2. i' \in 0..(Pages - 1) /\ j' \in 0..(PAGE_BLOCKS - 1)
          /\ pc' \in {"erase", "clear"}
      BY <1>1, <2>1 DEF Erase, Go
    <2> QED
      BY <1>1, <1>2, <2>2 DEF TypeOK, Erase, ram, Section
  <1>4. Progress'
    <2>1. CASE i # 0
      <3>1. pc' = "erase" /\ (i' = 0 => j' = 0 \/ i = 0)
        BY <1>1, <2>1 DEF Erase, Go, TypeOK
      <3>2. \A b \in Section : ~(b < 0)
        BY Sizes DEF Section
      <3> QED
        BY <2>1, <3>1, <3>2 DEF Progress, AfterLoop
    <2>2. CASE i = 0
      <3>1. j \in Section /\ j \notin stale'
        BY <1>1, <2>2, FirstPageAddress DEF Erase, Erased, TypeOK
      <3>2. \A b \in Section : b < j + 1 => b \notin stale'
        <4> SUFFICES ASSUME NEW b \in Section, b < j + 1 PROVE b \notin stale'
          OBVIOUS
        <4>1. b < j \/ b = j
          BY <3>1, Sizes DEF Section
        <4> QED
          BY <1>1, <1>2, <2>2, <3>1, <4>1 DEF Progress
      <3>3. CASE j < PAGE_BLOCKS - 1
        <4>1. pc' = "erase" /\ j' = j + 1
          BY <3>3, <1>1 DEF Erase
        <4> QED
          BY <3>2, <4>1 DEF Progress, AfterLoop
      <3>4. CASE ~(j < PAGE_BLOCKS - 1)
        <4>1. pc' = "clear"
          BY <2>2, <3>4 DEF Erase, Go
        <4>2. \A b \in Section : b < j + 1
          BY <3>1, <3>4, Sizes DEF Section
        <4> QED
          BY <3>2, <4>1, <4>2 DEF Progress
      <3> QED
        BY <3>3, <3>4
    <2> QED
      BY <2>1, <2>2
  <1>5. /\ pc' \in {"erase", "clear"} /\ (pc' = "clear" => i = 0 /\ j = PAGE_BLOCKS - 1)
        /\ pc' = "erase" => \/ i' = i /\ j' = j + 1
                            \/ i' = i - 1 /\ j' = 0 /\ j = PAGE_BLOCKS - 1
        /\ overflow' = overflow
        /\ stale' = stale \ {Address(i * PAGE_BLOCKS + j)}
        /\ INITIALIZED' = (INITIALIZED /\ Address(i * PAGE_BLOCKS + j) # 0)
        /\ i \in Nat /\ j \in Nat /\ j < PAGE_BLOCKS /\ PAGE_BLOCKS \in Nat \ {0}
    <2>1. /\ i \in Nat /\ j \in Nat /\ j < PAGE_BLOCKS /\ PAGE_BLOCKS \in Nat \ {0}
      BY <1>1, Sizes DEF TypeOK, Section
    <2> QED
      BY <1>1, <2>1 DEF Erase, Erased, Go
  <1>6. FlagProgress'
    <2> SUFFICES ASSUME INITIALIZED' = TRUE
                 PROVE  /\ pc' = "erase"
                        /\ Section \subseteq stale'
                        /\ j' # 0 => Address(i * PAGE_BLOCKS)' # 0
      BY <1>2, <1>4, <1>5 DEF FlagProgress, FlagFirst, Progress, AfterLoop
    <2>1. INITIALIZED = TRUE /\ Address(i * PAGE_BLOCKS + j) # 0
      BY <1>1, <1>5 DEF TypeOK
    <2>2. Section \subseteq stale /\ (j # 0 => Address(i * PAGE_BLOCKS) # 0)
      BY <1>1, <2>1 DEF FlagProgress
    <2>3. Address(i * PAGE_BLOCKS + j) \notin Section
      <3> SUFFICES ASSUME Address(i * PAGE_BLOCKS + j) \in Section PROVE FALSE
        OBVIOUS
      <3>1. Address(i * PAGE_BLOCKS + j) = j /\ Address(i * PAGE_BLOCKS) = 0
        BY <1>1, FlagBlockFirst
      <3> QED
        BY <2>1, <2>2, <3>1
    <2>4. pc' # "clear"
      <3> SUFFICES ASSUME pc' = "clear" PROVE FALSE
        OBVIOUS
      <3>1. i = 0 /\ j \in Section
        BY <1>1, <1>5 DEF TypeOK
      <3>2. Address(i * PAGE_BLOCKS + j) = j
        BY <1>1, <3>1, FirstPageAddress DEF TypeOK
      <3> QED
        BY <2>3, <3>1, <3>2
    <2>5. j' # 0 => Address(i * PAGE_BLOCKS)' # 0
      <3> SUFFICES ASSUME j' # 0 PROVE Address(i * PAGE_BLOCKS) # 0
        BY <1>5, <2>4 DEF Address
      <3>1. CASE j = 0
        BY <1>5, <2>1, <3>1
      <3> QED
        BY <2>2, <3>1
    <2> QED
      BY <1>5, <2>2, <2>3, <2>4, <2>5
  <1>7. LeftProgress'
    <2> DEFINE n == i * PAGE_BLOCKS
    <2>1. n \in Nat /\ (i + 1) * PAGE_BLOCKS = n + PAGE_BLOCKS /\ (i - 1) * PAGE_BLOCKS = n - PAGE_BLOCKS
          /\ (i = 0 => n = 0) /\ overflow \in {"product", "zero", "sign"}
      BY <1>1, <1>5, Sizes DEF TypeOK
    <2>2. Unreached' = Unreached /\ \A b : Home(b)' = Home(b)
      BY <1>5 DEF Unreached, Home
    <2>3. Unreached \subseteq stale'
      <3>1. Address(n + j) \notin Unreached
        <4>1. n + j \in Int
          BY <1>5, <2>1
        <4> QED
          BY <2>1, <4>1, NeverNamed
      <3> QED
        BY <1>1, <1>5, <3>1 DEF LeftProgress
    <2>4. ASSUME NEW b \in stale' \ Unreached
          PROVE  Home(b) \in Nat /\ (Home(b) < n \/ (n + j + 1 <= Home(b) /\ Home(b) < n + PAGE_BLOCKS))
      <3>1. b \in stale \ Unreached /\ b \in Blocks
        BY <1>1, <1>2 DEF TypeOK
      <3>2. Home(b) \in Nat /\ Address(Home(b)) = b
        BY <2>1, <3>1, HomeOf, Sizes DEF Blocks
      <3>3. Home(b) < n \/ (n + j <= Home(b) /\ Home(b) < n + PAGE_BLOCKS)
        BY <1>1, <2>1, <3>1 DEF LeftProgress
      <3>4. Home(b) # n + j
        BY <1>5, <3>2
      <3> HIDE DEF n
      <3> QED
        BY <1>5, <2>1, <3>2, <3>3, <3>4
    <2> HIDE DEF n
    <2>5. CASE pc' = "clear"
      <3>1. \A b \in stale' : b \in Unreached
        BY <1>5, <2>1, <2>4, <2>5
      <3> QED
        BY <2>2, <2>3, <2>5, <3>1 DEF LeftProgress
    <2>6. CASE pc' = "erase"
      <3>1. ASSUME NEW b \in stale' \ Unreached
            PROVE  \/ Home(b) < i' * PAGE_BLOCKS
                   \/ i' * PAGE_BLOCKS + j' <= Home(b) /\ Home(b) < (i' + 1) * PAGE_BLOCKS
        <4>1. CASE i' = i /\ j' = j + 1
          BY <1>5, <2>1, <2>4, <4>1 DEF n
        <4>2. CASE i' = i - 1 /\ j' = 0 /\ j = PAGE_BLOCKS - 1
          <5>1. i' * PAGE_BLOCKS = n - PAGE_BLOCKS /\ (i' + 1) * PAGE_BLOCKS = n
            <6>1. i' + 1 = i
              BY <1>5, <4>2
            <6> QED
              BY <2>1, <4>2, <6>1 DEF n
          <5> QED
            BY <1>5, <2>1, <2>4, <4>2, <5>1
        <4> QED
          BY <1>5, <2>6, <4>1, <4>2
      <3> QED
        BY <2>2, <2>3, <2>6, <3>1 DEF LeftProgress, AfterLoop
    <2> QED
      BY <1>5, <2>5, <2>6
  <1> QED
    BY <1>3, <1>4, <1>6, <1>7 DEF ResetInv

\* A step outside the loop leaves the memory alone once the loop has ended, and
\* the loop is entered at its last page.
LEMMA OtherStepsKeep ==
  ASSUME ResetInv, [Next]_vars, ~Erase
  PROVE  ResetInv'
  <1>1. TypeOK /\ Progress /\ FlagProgress /\ LeftProgress
    BY DEF ResetInv
  <1>2. /\ Pages - 1 \in 0..(Pages - 1) /\ 0 \in 0..(Pages - 1) /\ 0 \in Section
        /\ \A b \in Section : ~(b < 0)
    BY Sizes DEF Section
  <1>3. cuts < MaxCuts => cuts + 1 \in 0..MaxCuts
    BY <1>1, SizesAssumption DEF TypeOK
  <1> USE DEF Go, ram, FlagProgress, FlagFirst, LeftProgress, Unreached, Home, AfterLoop
  <1>4. CASE Boot
    BY <1>1, <1>4 DEF Boot, ResetInv, TypeOK, Progress
  <1>5. CASE OpenMenu
    BY <1>1, <1>5 DEF OpenMenu, ResetInv, TypeOK, Progress
  <1>6. CASE Decline
    BY <1>1, <1>6 DEF Decline, ResetInv, TypeOK, Progress
  <1>7. CASE Accept
    <2>1. TypeOK'
      BY <1>1, <1>2, <1>7 DEF Accept, TypeOK
    <2>2. Progress'
      BY <1>2, <1>7 DEF Accept, Progress
    <2>3. FlagProgress'
      BY <1>7, Sizes DEF Accept
    <2>4. LeftProgress'
      <3>1. ASSUME NEW b \in Blocks, b \notin Unreached
            PROVE  Home(b) < (Pages - 1) * PAGE_BLOCKS
                   \/ ((Pages - 1) * PAGE_BLOCKS + 0 <= Home(b) /\ Home(b) < ((Pages - 1) + 1) * PAGE_BLOCKS)
        <4> DEFINE h == Home(b)
        <4>1. h \in Nat /\ h < Pages * PAGE_BLOCKS /\ Pages \in Nat /\ PAGE_BLOCKS \in Nat
          BY <1>1, <3>1, HomeOf, SizesAssumption, Sizes DEF Blocks, TypeOK
        <4> HIDE DEF h
        <4>2. (Pages - 1) * PAGE_BLOCKS \in Int /\ (Pages - 1) + 1 = Pages
          BY <4>1
        <4>3. h < (Pages - 1) * PAGE_BLOCKS
              \/ ((Pages - 1) * PAGE_BLOCKS + 0 <= h /\ h < ((Pages - 1) + 1) * PAGE_BLOCKS)
          BY <4>1, <4>2
        <4> QED
          BY <4>3 DEF h
      <3>2. Unreached' = Unreached /\ Unreached \subseteq Blocks /\ \A b : Home(b)' = Home(b)
        <4>1. overflow' = overflow
          BY <1>7 DEF Accept
        <4>2. Unreached' = Unreached
          BY <4>1
        <4>3. \A b : Home(b)' = Home(b)
          BY <4>1
        <4>4. Unreached \subseteq Blocks
          BY <1>1 DEF TypeOK
        <4> QED
          BY <4>2, <4>3, <4>4
      <3> HIDE DEF Home, Unreached
      <3> QED
        BY <1>7, <3>1, <3>2 DEF Accept
    <2> QED
      BY <2>1, <2>2, <2>3, <2>4 DEF ResetInv
  <1>8. CASE Clear
    BY <1>1, <1>8 DEF Clear, ResetInv, TypeOK, Progress
  <1>9. CASE ChangeDeclined
    BY <1>1, <1>9 DEF ChangeDeclined, ResetInv, TypeOK, Progress
  <1>10. CASE ChangeAccepted
    BY <1>1, <1>10 DEF ChangeAccepted, ResetInv, TypeOK, Progress
  <1>11. CASE ChangeEnds
    BY <1>1, <1>11 DEF ChangeEnds, ResetInv, TypeOK, Progress
  <1>12. CASE ChangeHangs
    BY <1>1, <1>12 DEF ChangeHangs, ResetInv, TypeOK, Progress
  <1>13. CASE Flag
    BY <1>1, <1>13 DEF Flag, ResetInv, TypeOK, Progress
  <1>14. CASE PowerLoss
    BY <1>1, <1>2, <1>3, <1>14 DEF PowerLoss, ResetInv, TypeOK, Progress
  <1>15. CASE UNCHANGED vars
    BY <1>1, <1>15 DEF vars, Address, ResetInv, TypeOK, Progress
  <1> QED
    BY <1>4, <1>5, <1>6, <1>7, <1>8, <1>9, <1>10, <1>11, <1>12, <1>13, <1>14, <1>15
       DEF Next, Device, User

\* The inductive invariant: behind the position of the loops of
\* opt_callback_full_reset, the first page, the block of the flag and every block
\* to which a product wraps are erased, and what none wraps to is left.
THEOREM ResetInvariant == Spec => []ResetInv
  <1>1. ResetInv /\ [Next]_vars => ResetInv'
    BY EraseKeeps, OtherStepsKeep
  <1> QED
    BY <1>1, InitResetInv, PTL DEF Spec

\* Type correctness of the reset: whatever the compiler makes of the overflow,
\* the loop of opt_callback_full_reset writes inside the memory.
THEOREM ResetTypeCorrect == Spec => []TypeOK
  <1>1. ResetInv => TypeOK
    BY DEF ResetInv
  <1> QED
    BY <1>1, ResetInvariant, PTL

\* When opt_callback_full_reset comes to the line that marks the wallet as
\* initialised, its first page holds nothing of the former owner.
THEOREM InitialisedPageBlank == Spec => []InitialisedBlank
  <1>1. ResetInv => InitialisedBlank
    BY DEF ResetInv, Progress, InitialisedBlank, AfterLoop
  <1> QED
    BY <1>1, ResetInvariant, PTL

\* A wallet that says it is initialised has its first page as it was or wholly
\* erased, wherever power was lost: opt_callback_full_reset erases the flag
\* before the memory map and the backup section that a boot would trust.
THEOREM FlagGoesFirst == Spec => []FlagFirst
  <1>1. ResetInv => FlagFirst
    BY DEF ResetInv, FlagProgress
  <1> QED
    BY <1>1, ResetInvariant, PTL

\* At the end of opt_callback_full_reset nothing is left of the former owner
\* but the blocks at which no product of its loop points, and they all are: none
\* if the product is kept, the upper half of the largest memory if it is wrapped
\* without its sign, from 32 to 96 KiB if it is wrapped with it.
THEOREM ErasureIsExact == Spec => []ErasesWhatItReaches
  <1>1. ResetInv => ErasesWhatItReaches
    BY DEF ResetInv, LeftProgress, ErasesWhatItReaches, AfterLoop
  <1> QED
    BY <1>1, ResetInvariant, PTL
=============================================================================
