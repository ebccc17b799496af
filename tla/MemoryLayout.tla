---------------------------- MODULE MemoryLayout ----------------------------
(***************************************************************************)
(* Where the FRAM keeps what (MemoryLayout.h), for the three memories the  *)
(* header knows, and where PWD_ADDR puts the chunks: the id is a uint16_t, *)
(* so that on the AVR the whole expression is computed modulo 2^16.  The   *)
(* result is extended to an f_addr_t, in which the bytes of a field follow *)
(* its first one without wrapping.                                         *)
(***************************************************************************)
EXTENDS Integers, TLAPS

Sizes == {8192, 32768, 131072}    \* FRAM_BYTE_SIZE

SIZE_OF_PWD_BLOCK == 170
OFFSET_ENTROPY_POOL == 7
SIZE_ENTROPY_POOL == 256
OFFSET_MEMORY_MAP == OFFSET_ENTROPY_POOL + SIZE_ENTROPY_POOL

SIZE_MEMORY_MAP(size) == IF size = 8192 THEN 6 ELSE IF size = 32768 THEN 25 ELSE 99

OFFSET_BACKUP_DATA(size) == OFFSET_MEMORY_MAP + SIZE_MEMORY_MAP(size) + 3
OFFSET_FIRST_PWD(size) == OFFSET_BACKUP_DATA(size) + SIZE_OF_PWD_BLOCK

MAXIMUM_NUMBER_OF_PWD(size) ==
  ((size - OFFSET_FIRST_PWD(size)) \div SIZE_OF_PWD_BLOCK) + 1

\* The chunks that can be used: the list never uses the last one.
Usable(size) == 0 .. MAXIMUM_NUMBER_OF_PWD(size) - 2
Offsets == 0 .. SIZE_OF_PWD_BLOCK - 1

PWD_ADDR(size, id, field) ==
  (OFFSET_FIRST_PWD(size) + SIZE_OF_PWD_BLOCK * id + field) % 65536

\* PWD_OFFSET_* and PWD_SIZE_*: the four links, the counter, the name, and IV and
\* data of the password and of the user name.
PWD_FIELDS ==
  {<<0, 2>>, <<2, 2>>, <<4, 2>>, <<6, 2>>, <<8, 2>>, <<10, 32>>,
   <<42, 16>>, <<58, 32>>, <<90, 16>>, <<106, 64>>}

\* The k-th byte of a field: where Password.c finds it, in one access to the whole
\* field, and where backup_save and backup_restore do, which go byte by byte.
FieldByte(size, id, field, k) == PWD_ADDR(size, id, field) + k
BackupByte(size, id, field, k) == PWD_ADDR(size, id, field + k)
-----------------------------------------------------------------------------
\* The numbers of chunks, computed.
LEMMA Maximum ==
  /\ MAXIMUM_NUMBER_OF_PWD(8192) = 46
  /\ MAXIMUM_NUMBER_OF_PWD(32768) = 191
  /\ MAXIMUM_NUMBER_OF_PWD(131072) = 768
  BY DEF MAXIMUM_NUMBER_OF_PWD, OFFSET_FIRST_PWD, OFFSET_BACKUP_DATA, OFFSET_MEMORY_MAP,
         SIZE_MEMORY_MAP, SIZE_OF_PWD_BLOCK, OFFSET_ENTROPY_POOL, SIZE_ENTROPY_POOL

\* The memory map (MemoryLayout.h:47) has a bit for each chunk that
\* get_first_entry_from and pwd_list_add_pwd may number, and of these chunks the
\* last runs past the end of the memory while the others fit.
THEOREM LastChunkOverruns ==
  ASSUME NEW size \in Sizes
  PROVE  /\ MAXIMUM_NUMBER_OF_PWD(size) <= 8 * SIZE_MEMORY_MAP(size)
         /\ OFFSET_FIRST_PWD(size) + SIZE_OF_PWD_BLOCK * MAXIMUM_NUMBER_OF_PWD(size) > size
         /\ \A id \in Usable(size) :
              OFFSET_FIRST_PWD(size) + SIZE_OF_PWD_BLOCK * (id + 1) <= size
  BY Maximum DEF Sizes, Usable, OFFSET_FIRST_PWD, OFFSET_BACKUP_DATA, OFFSET_MEMORY_MAP,
         SIZE_MEMORY_MAP, SIZE_OF_PWD_BLOCK, OFFSET_ENTROPY_POOL, SIZE_ENTROPY_POOL

\* With the two smaller memories PWD_ADDR does not overflow: the bytes of two
\* chunks are apart from each other and from the sections in front of them.
THEOREM ChunksApart ==
  ASSUME NEW size \in Sizes, size # 131072,
         NEW a \in Usable(size), NEW b \in Usable(size), NEW x \in Offsets, NEW y \in Offsets
  PROVE  /\ PWD_ADDR(size, a, x) \in OFFSET_FIRST_PWD(size) .. size - 1
         /\ PWD_ADDR(size, a, x) = PWD_ADDR(size, b, y) => a = b /\ x = y
  <1> USE DEF Sizes, Offsets, OFFSET_FIRST_PWD, OFFSET_BACKUP_DATA, OFFSET_MEMORY_MAP,
         SIZE_MEMORY_MAP, SIZE_OF_PWD_BLOCK, OFFSET_ENTROPY_POOL, SIZE_ENTROPY_POOL
  <1>1. /\ OFFSET_FIRST_PWD(size) \in Nat /\ a \in Nat /\ b \in Nat /\ x \in 0..169 /\ y \in 0..169
        /\ OFFSET_FIRST_PWD(size) + 170 * a + x < size
        /\ OFFSET_FIRST_PWD(size) + 170 * b + y < size
        /\ size <= 32768
    BY Maximum DEF Usable
  <1>2. \A n \in Nat : n < 65536 => n % 65536 = n
    OBVIOUS
  <1>3. /\ PWD_ADDR(size, a, x) = OFFSET_FIRST_PWD(size) + 170 * a + x
        /\ PWD_ADDR(size, b, y) = OFFSET_FIRST_PWD(size) + 170 * b + y
    BY <1>1, <1>2 DEF PWD_ADDR
  <1> QED
    BY <1>1, <1>3

\* With the largest memory, that of the build, it does, from the user name of
\* chunk 382 on: that, its IV and the chunk 383 begin in the entropy pool, chunk 384
\* in the memory map, chunk 385 in the backup section, and each usable chunk from
\* 386 on in the middle of one that comes 386 before it.
THEOREM LargestMemoryFolds ==
  /\ \A id \in 0..381, x \in Offsets :
       PWD_ADDR(131072, id, x) = OFFSET_FIRST_PWD(131072) + SIZE_OF_PWD_BLOCK * id + x
  /\ \A x \in 0..60 : PWD_ADDR(131072, 382, x) = 65475 + x
  /\ PWD_ADDR(131072, 382, 90) \in OFFSET_ENTROPY_POOL .. OFFSET_MEMORY_MAP - 1
  /\ PWD_ADDR(131072, 382, 106) \in OFFSET_ENTROPY_POOL .. OFFSET_MEMORY_MAP - 1
  /\ PWD_ADDR(131072, 383, 0) \in OFFSET_ENTROPY_POOL .. OFFSET_MEMORY_MAP - 1
  /\ PWD_ADDR(131072, 384, 0) \in OFFSET_MEMORY_MAP .. OFFSET_MEMORY_MAP + SIZE_MEMORY_MAP(131072) - 1
  /\ PWD_ADDR(131072, 385, 0) \in OFFSET_BACKUP_DATA(131072) .. OFFSET_FIRST_PWD(131072) - 1
  /\ \A id \in Usable(131072) :
       id >= 386 => PWD_ADDR(131072, id, 0) = PWD_ADDR(131072, id - 386, 84)
  <1> USE DEF PWD_ADDR, Offsets, OFFSET_FIRST_PWD, OFFSET_BACKUP_DATA, OFFSET_MEMORY_MAP,
         SIZE_MEMORY_MAP, SIZE_OF_PWD_BLOCK, OFFSET_ENTROPY_POOL, SIZE_ENTROPY_POOL
  <1>1. ASSUME NEW id \in 0..381, NEW x \in Offsets
        PROVE  PWD_ADDR(131072, id, x) = OFFSET_FIRST_PWD(131072) + SIZE_OF_PWD_BLOCK * id + x
    OBVIOUS
  <1>2. ASSUME NEW x \in 0..60
        PROVE  PWD_ADDR(131072, 382, x) = 65475 + x
    OBVIOUS
  <1>3. PWD_ADDR(131072, 382, 90) = 29 /\ PWD_ADDR(131072, 382, 106) = 45
        /\ PWD_ADDR(131072, 383, 0) = 109 /\ PWD_ADDR(131072, 384, 0) = 279
        /\ PWD_ADDR(131072, 385, 0) = 449
    OBVIOUS
  <1>4. OFFSET_MEMORY_MAP = 263 /\ OFFSET_BACKUP_DATA(131072) = 365
        /\ OFFSET_FIRST_PWD(131072) = 535
    OBVIOUS
  <1>5. ASSUME NEW id \in Usable(131072), id >= 386
        PROVE  PWD_ADDR(131072, id, 0) = PWD_ADDR(131072, id - 386, 84)
    <2>1. id \in Nat /\ id <= 766
      BY Maximum DEF Usable
    <2>2. /\ OFFSET_FIRST_PWD(131072) + 170 * id + 0 = 535 + 170 * id
          /\ OFFSET_FIRST_PWD(131072) + 170 * (id - 386) + 84 = 535 + 170 * id - 65536
      BY <2>1
    <2>3. (535 + 170 * id) % 65536 = (535 + 170 * id - 65536) % 65536
      BY <2>1, <1>5
    <2> QED
      BY <2>2, <2>3
  <1> QED
    BY <1>1, <1>2, <1>3, <1>4, <1>5

\* backup_save copies what Password.c reads (Backup.c:30, Password.c:70), and
\* backup_restore puts it back there, for every byte of every field of every
\* usable chunk of every memory but the password of chunk 382 of the largest one:
\* that runs over the 65536th byte, and from its fourth byte on the backup holds the
\* options flag, the heads of the lists and the entropy pool instead.
THEOREM BackupCopiesFields ==
  ASSUME NEW size \in Sizes, NEW id \in Usable(size),
         NEW f \in PWD_FIELDS, NEW k \in 0 .. f[2] - 1
  PROVE  IF size = 131072 /\ id = 382 /\ f = <<58, 32>> /\ k >= 3
         THEN /\ FieldByte(size, id, f[1], k) = 65533 + k
              /\ BackupByte(size, id, f[1], k) = k - 3
         ELSE BackupByte(size, id, f[1], k) = FieldByte(size, id, f[1], k)
  <1> USE DEF OFFSET_FIRST_PWD, OFFSET_BACKUP_DATA, OFFSET_MEMORY_MAP,
         SIZE_MEMORY_MAP, SIZE_OF_PWD_BLOCK, OFFSET_ENTROPY_POOL, SIZE_ENTROPY_POOL
  <1> DEFINE a == OFFSET_FIRST_PWD(size) + 170 * id
  <1>1. /\ id \in Nat /\ a \in Nat /\ a = OFFSET_FIRST_PWD(size) + 170 * id /\ a + 169 < 131072
        /\ (size # 131072 => a + 169 < 65536)
        /\ (size = 131072 => a = 535 + 170 * id)
    BY Maximum DEF Sizes, Usable
  <1>2. PWD_ADDR(size, id, f[1]) = (a + f[1]) % 65536
        /\ PWD_ADDR(size, id, f[1] + k) = (a + (f[1] + k)) % 65536
    BY <1>1 DEF PWD_FIELDS, PWD_ADDR
  <1> HIDE DEF a
  <1>3. \A n \in Nat : (n < 65536 => n % 65536 = n)
                     /\ (n >= 65536 /\ n < 131072 => n % 65536 = n - 65536)
    OBVIOUS
  <1>4. /\ f[1] \in 0..106 /\ k \in Nat /\ f[1] + k <= 169
        /\ f[1] + k >= 61 /\ f[1] < 61 => f = <<58, 32>> /\ f[1] = 58 /\ k >= 3
        /\ f = <<58, 32>> => f[1] = 58
    BY DEF PWD_FIELDS
  <1>5. CASE a + 169 < 65536
    <2>1. ~(size = 131072 /\ id = 382)
      BY <1>1, <1>5
    <2>2. a + f[1] \in Nat /\ a + (f[1] + k) \in Nat /\ a + f[1] < 65536 /\ a + (f[1] + k) < 65536
      BY <1>1, <1>4, <1>5
    <2>3. PWD_ADDR(size, id, f[1]) = a + f[1] /\ PWD_ADDR(size, id, f[1] + k) = a + f[1] + k
      BY <1>1, <1>2, <1>3, <1>4, <2>2
    <2> QED
      BY <2>1, <2>3 DEF FieldByte, BackupByte
  <1>6. CASE size = 131072 /\ id = 382
    BY <1>1, <1>2, <1>3, <1>4, <1>6 DEF FieldByte, BackupByte
  <1>7. CASE size = 131072 /\ id > 382
    <2>1. a + f[1] \in Nat /\ a + (f[1] + k) \in Nat /\ a + f[1] >= 65536 /\ a + f[1] < 131072
          /\ a + (f[1] + k) >= 65536 /\ a + (f[1] + k) < 131072
      BY <1>1, <1>4, <1>7
    <2>2. PWD_ADDR(size, id, f[1]) = a + f[1] - 65536
          /\ PWD_ADDR(size, id, f[1] + k) = a + f[1] + k - 65536
      <3> DEFINE m == a + f[1]
      <3> DEFINE n == a + (f[1] + k)
      <3>1. m \in Nat /\ n \in Nat /\ m >= 65536 /\ m < 131072 /\ n >= 65536 /\ n < 131072
        BY <2>1
      <3>2. PWD_ADDR(size, id, f[1]) = m % 65536 /\ PWD_ADDR(size, id, f[1] + k) = n % 65536
        BY <1>2
      <3>3. n = a + f[1] + k /\ a \in Nat /\ f[1] \in Nat /\ k \in Nat
        BY <1>1, <1>4
      <3> HIDE DEF m, n
      <3>4. PWD_ADDR(size, id, f[1]) = m - 65536 /\ PWD_ADDR(size, id, f[1] + k) = n - 65536
        BY ONLY <1>3, <3>1, <3>2
      <3> QED
        BY <3>3, <3>4 DEF m
    <2> QED
      BY <1>1, <1>4, <1>7, <2>2 DEF FieldByte, BackupByte
  <1> QED
    BY <1>1, <1>5, <1>6, <1>7

\* Of the largest memory, every byte of the chunks 190 to 381 is in a block that
\* the full reset leaves if its product wraps with the sign (Unreached in FullReset,
\* with 1024 blocks of 128 bytes and an int of 512).
THEOREM ChunksPastSignedInt ==
  ASSUME NEW id \in 190..381, NEW x \in Offsets
  PROVE  LET block == PWD_ADDR(131072, id, x) \div 128
         IN  2 * block >= 512 /\ 2 * (1024 - block) > 512
  <1> DEFINE a == PWD_ADDR(131072, id, x)
  <1>1. a = OFFSET_FIRST_PWD(131072) + SIZE_OF_PWD_BLOCK * id + x
    BY LargestMemoryFolds
  <1>2. a \in Nat /\ 32768 <= a /\ a < 65536
    BY <1>1 DEF Offsets, OFFSET_FIRST_PWD, OFFSET_BACKUP_DATA, OFFSET_MEMORY_MAP,
         SIZE_MEMORY_MAP, SIZE_OF_PWD_BLOCK, OFFSET_ENTROPY_POOL, SIZE_ENTROPY_POOL
  <1> HIDE DEF a
  <1>3. a \div 128 \in Int /\ 256 <= a \div 128 /\ a \div 128 < 512
    BY <1>2
  <1> QED
    BY <1>3 DEF a
=============================================================================
