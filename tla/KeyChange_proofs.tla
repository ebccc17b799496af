-------------------------- MODULE KeyChange_proofs --------------------------
(***************************************************************************)
(* Proofs about KeyChange, for every memory size, set of keys, set of      *)
(* cards and set of user operations.                                       *)
(***************************************************************************)
EXTENDS KeyChange, TLAPS

(***************************************************************************)
(* Arithmetic of the walk.                                                 *)
(***************************************************************************)
\* The byte and the bit of a chunk id give the id back.
LEMMA DivMod ==
  ASSUME NEW x \in Nat
  PROVE  /\ x \div BITS \in Nat
         /\ x % BITS \in 0 .. BITS - 1
         /\ x = BITS * (x \div BITS) + (x % BITS)
BY SizesAssumption

\* Multiplication by a natural number is monotone.
LEMMA TimesMonotone ==
  ASSUME NEW a \in Nat, NEW b \in Nat, NEW n \in Nat, a >= b
  PROVE  n * a >= n * b
<1>1. PICK d \in Nat : a = b + d
  <2>1. a - b \in Nat /\ a = b + (a - b)
    OBVIOUS
  <2> QED
    BY <2>1
<1>2. n * a = n * b + n * d
  BY <1>1
<1>3. n * d \in Nat /\ n * b \in Nat
  OBVIOUS
<1> QED
  BY <1>2, <1>3

\* The byte of every chunk slot lies in the memory map.
LEMMA ByteInMap ==
  ASSUME NEW x \in Ids
  PROVE  x \div BITS < SIZE_MEMORY_MAP
<1>1. /\ x \in Nat
      /\ BITS \in Nat /\ SIZE_MEMORY_MAP \in Nat
      /\ x < SIZE_MEMORY_MAP * BITS
  BY SizesAssumption DEF Ids
<1>2. PICK q \in Nat, r \in Nat : q = x \div BITS /\ x = BITS * q + r
  BY <1>1, DivMod
<1>3. SUFFICES ASSUME q >= SIZE_MEMORY_MAP PROVE FALSE
  BY <1>1, <1>2
<1>4. BITS * q >= BITS * SIZE_MEMORY_MAP
  BY <1>1, <1>3, TimesMonotone
<1> QED
  BY <1>1, <1>2, <1>4

(***************************************************************************)
(* Type correctness.  TypeOK bounds j by BITS and ChunkOk increments it,   *)
(* so the invariant also says that the walk rewrites a chunk only while j  *)
(* is the number of a bit; and TypeOK wants keys on the cards, so it says  *)
(* where newKey and KEY are known to be keys.                              *)
(***************************************************************************)
Rewriting == {"save_tear", "save_data", "save_id", "save_status",
              "write_iv", "write_data", "chunk_ok"}

WalkBit ==
  /\ pc = "chunk_ok" => job # "edit"
  /\ pc \in Rewriting /\ job # "edit" => j < BITS

Changing == job \in {"change_key", "recover"}

KeyReady ==
  /\ pc \in {"write_temp", "scan", "chunk_ok"} => Changing /\ newKey \in Keys
  /\ pc = "recover_card" => job = "recover"
  /\ pc \in Rewriting \cup {"restore_tear", "restore_data"} /\ Changing => newKey \in Keys
  /\ pc \in Rewriting => job \in {"edit", "change_key", "recover"}
  /\ pc \in {"restore_tear", "restore_data"} => job \in {"restore", "recover"}
  /\ pc \in {"set_update_card", "write_key"} => KEY \in Keys

TypeInv == TypeOK /\ WalkBit /\ KeyReady

\* The types of the constants and of an erased chunk.
LEMMA ConstantTypes ==
  /\ Ids \subseteq Nat /\ 0 \in Ids /\ Used \subseteq Ids
  /\ BITS \in Nat /\ BITS > 0
  /\ Torn \in Cipher /\ TornChunk \in Chunk
BY SizesAssumption DEF Ids, Torn, TornChunk, Chunk, Cipher, Enc

\* An initialised wallet that is plugged in has its types.
LEMMA TypeInit == Init => TypeInv
<1> SUFFICES ASSUME Init PROVE TypeInv
  OBVIOUS
<1>1. PICK d \in Cards, v \in Values :
        /\ valid = cards[d].key
        /\ chunk = [c \in Ids |-> [f \in Fields |->
                      IF c \in Used THEN Enc(valid, v) ELSE Torn]]
  BY DEF Init
<1>2. valid \in Keys
  BY <1>1 DEF Init
<1>3. chunk \in [Ids -> Chunk]
  BY <1>1, <1>2, ConstantTypes DEF Chunk, Cipher, Enc
<1>4. TypeOK
  BY <1>2, <1>3, ConstantTypes
  DEF Init, TypeOK, Statuses, OK, VALIDATION, Jobs, Steps, Fields
<1> QED
  BY <1>4 DEF Init, TypeInv, WalkBit, KeyReady, Rewriting

\* Every action preserves the types and the clauses they need.
LEMMA TypeStep == TypeInv /\ [Next]_vars => TypeInv'
<1> SUFFICES ASSUME TypeInv, [Next]_vars PROVE TypeInv'
  OBVIOUS
<1> USE ConstantTypes DEF TypeInv, TypeOK, WalkBit, KeyReady, Rewriting, Changing, Jobs, Steps, Statuses,
      OK, UPDATE, CHANGE_KEY, CHUNK_OK, UPDATE_CARD, VALIDATION, Fields
<1>1. CASE BootClean
  BY <1>1 DEF BootClean, fram, ram, history
<1>2. CASE BootRestore
  BY <1>2 DEF BootRestore, fram, ram, history
<1>3. CASE RecoverAbort
  BY <1>3 DEF RecoverAbort, ReturnTo, fram, ram, history
<1>4. CASE RecoverWrongCard
  BY <1>4 DEF RecoverWrongCard, ReturnTo, fram, ram, history
<1>5. CASE RecoverWalk
  <2>1. i' \in Nat /\ j' \in 0 .. BITS
    BY <1>5, DivMod DEF RecoverWalk
  <2>2. KEY' \in Keys /\ newKey' \in Keys /\ pwd_id' \in Ids
    BY <1>5 DEF RecoverWalk
  <2> QED
    BY <1>5, <2>1, <2>2 DEF RecoverWalk, fram, history
<1>6. CASE RecoverCard
  BY <1>6 DEF RecoverCard, fram, ram, history
<1>7. CASE RecoverValidation
  BY <1>7 DEF RecoverValidation, fram, ram, history
<1>8. CASE RestoreTear
  BY <1>8 DEF RestoreTear, fram, ram, history
<1>9. CASE RestoreData
  BY <1>9 DEF RestoreData, fram, ram, history
<1>10. CASE OpenRecoveryMenu
  BY <1>10 DEF OpenRecoveryMenu, fram, ram, history
<1>11. CASE ScanUnused
  BY <1>11 DEF ScanUnused, fram, ram, history
<1>12. CASE ScanUsed
  BY <1>12 DEF ScanUsed, fram, ram, history
<1>13. CASE ScanNextByte
  BY <1>13 DEF ScanNextByte, fram, ram, history
<1>14. CASE ScanEnd
  BY <1>14 DEF ScanEnd, NotUnder, fram, ram, history
<1>15. CASE SaveTear
  BY <1>15 DEF SaveTear, fram, ram, history
<1>16. CASE SaveData
  BY <1>16 DEF SaveData, fram, ram, history
<1>17. CASE SaveId
  BY <1>17 DEF SaveId, fram, ram, history
<1>18. CASE SaveStatus
  BY <1>18 DEF SaveStatus, SetStatus, fram, ram, history
<1>19. CASE WriteIv
  <2>1. chunk' \in [Ids -> Chunk]
    BY <1>19 DEF WriteIv, Chunk
  <2>2. buffer' \in Values \cup {Lost}
    BY <1>19 DEF WriteIv, Decrypt, Chunk, Cipher
  <2> QED
    BY <1>19, <2>1, <2>2 DEF WriteIv, history
<1>20. CASE WriteData
  <2>1. Enc(IF job = "edit" THEN KEY ELSE newKey, buffer) \in Cipher
    BY DEF Enc, Cipher
  <2>2. chunk' \in [Ids -> Chunk]
    BY <1>20, <2>1 DEF WriteData, Chunk
  <2> QED
    BY <1>20, <2>2 DEF WriteData, history
<1>21. CASE ChunkOk
  BY <1>21 DEF ChunkOk, SetStatus, fram, ram, history
<1>22. CASE SetUpdateCard
  BY <1>22 DEF SetUpdateCard, SetStatus, fram, ram, history
<1>23. CASE SetValidation
  BY <1>23 DEF SetValidation, SetStatus, fram, ram, history
<1>24. CASE TearValidation
  BY <1>24 DEF TearValidation, fram, ram, history
<1>25. CASE WriteValidation
  BY <1>25 DEF WriteValidation, fram, ram, history
<1>26. CASE FreeStatus
  BY <1>26 DEF FreeStatus, SetStatus, fram, ram, history
<1>27. CASE FreeData
  BY <1>27 DEF FreeData, fram, ram, history
<1>28. CASE FreeId
  BY <1>28 DEF FreeId, ReturnTo, fram, ram, history
<1>29. CASE WriteTempKey
  BY <1>29 DEF WriteTempKey, fram, ram, history
<1>30. CASE WriteTempKeyFails
  BY <1>30 DEF WriteTempKeyFails, ReturnTo, fram, ram, history
<1>31. CASE WriteKey
  BY <1>31 DEF WriteKey, fram, ram, history
<1>32. CASE WriteKeyFails
  BY <1>32 DEF WriteKeyFails, ReturnTo, fram, ram, history
<1>33. CASE Crash
  <2>1. gap' \subseteq Ids
    BY <1>33 DEF Crash
  <2> QED
    BY <1>33, <2>1 DEF Crash, ReturnTo, fram
<1>34. ASSUME NEW d \in Cards, BootRecover(d) PROVE TypeInv'
  BY <1>34 DEF BootRecover, fram, ram, history
<1>35. ASSUME NEW d \in Cards, UnlockWithCard(d) PROVE TypeInv'
  BY <1>35 DEF UnlockWithCard, fram, ram, history
<1>36. ASSUME NEW k \in Keys \cup {KEY}, EnterKey(k) PROVE TypeInv'
  BY <1>36 DEF EnterKey, fram, ram, history
<1>37. ASSUME NEW c \in Used, NEW f \in Fields, NEW v \in Values, EditCredential(c, f, v) PROVE TypeInv'
  BY <1>37 DEF EditCredential, fram, ram, history
<1>38. ASSUME NEW k \in Keys, NEW d \in Cards, ChangeKey(k, d) PROVE TypeInv'
  BY <1>38 DEF ChangeKey, fram, ram, history
<1>39. ASSUME NEW d \in Cards, ForceCard(d) PROVE TypeInv'
  BY <1>39 DEF ForceCard, fram, ram, history
<1>40. ASSUME NEW k \in Keys, ForceEnter(k) PROVE TypeInv'
  BY <1>40 DEF ForceEnter, fram, ram, history
<1>41. CASE UNCHANGED vars
  BY <1>41 DEF vars
<1> QED
  BY <1>1, <1>2, <1>3, <1>4, <1>5, <1>6, <1>7, <1>8, <1>9, <1>10, <1>11, <1>12, <1>13, <1>14, <1>15, <1>16, <1>17, <1>18, <1>19, <1>20, <1>21, <1>22, <1>23, <1>24, <1>25, <1>26, <1>27, <1>28, <1>29, <1>30, <1>31, <1>32, <1>33, <1>34, <1>35, <1>36, <1>37, <1>38, <1>39, <1>40, <1>41
  DEF Next, Device, Boot, Recover, Restore, Locked, Menu, Walk, Save, Write, Finish, CardIO

\* TypeOK and the clauses it needs hold in every reachable state.
THEOREM TypeInvariant == Spec => []TypeInv
<1>1. Init => TypeInv
  BY TypeInit
<1>2. TypeInv /\ [Next]_vars => TypeInv'
  BY TypeStep
<1> QED
  BY <1>1, <1>2, PTL DEF Spec

\* Type correctness of the key custody model.
THEOREM TypeCorrect == Spec => []TypeOK
<1>1. TypeInv => TypeOK
  BY DEF TypeInv
<1> QED
  BY <1>1, TypeInvariant, PTL

(***************************************************************************)
(* TornOnlyUnderBackup, for a user who reboots after an aborted recovery.  *)
(*                                                                         *)
(* The invariant follows the code's order of writes.  A chunk is touched   *)
(* only after the backup holds it whole under its id and a status that     *)
(* says so; the backup is touched only when no chunk is torn and either    *)
(* its status disowns it or it would be overwritten with what it holds:    *)
(* that is why a resumed walk must stop first at the chunk the backup      *)
(* names.                                                                  *)
(***************************************************************************)
Saving == {"save_tear", "save_data", "save_id", "save_status"}
Settled == Saving \cup
  {"write_temp", "scan", "write_iv", "chunk_ok", "set_update_card", "write_key",
   "set_validation", "tear_validation", "write_validation",
   "free_status", "free_data", "free_id"}

AllWhole == \A c \in Used, f \in Fields : chunk[c][f] # Torn

BackupWhole ==
  backup.status \in {UPDATE, CHANGE_KEY} =>
    /\ backup.id \in Used
    /\ \A f \in Fields : backup.data[f] # Torn

SettledWhole == pc \in Settled => AllWhole

OneFieldTorn ==
  pc = "write_data" =>
    \A c \in Used, f \in Fields :
      c # pwd_id \/ f # field => chunk[c][f] # Torn

Restoring ==
  pc \in {"restore_tear", "restore_data"} =>
    /\ pwd_id = backup.id
    /\ backup.status = IF job = "restore" THEN UPDATE ELSE CHANGE_KEY

Walking ==
  /\ pc = "write_temp" => backup.status = OK
  /\ pc = "scan" =>
       \/ backup.status \in {OK, CHUNK_OK}
       \/ /\ backup.status = CHANGE_KEY /\ backup.data = chunk[backup.id]
          /\ At = backup.id /\ i < SIZE_MEMORY_MAP /\ j < BITS

SaveOrder ==
  /\ pc \in Saving =>
       /\ pwd_id \in Used
       /\ \/ backup.status = OK
          \/ job # "edit" /\ backup.status = CHUNK_OK
          \/ /\ job # "edit" /\ backup.status = CHANGE_KEY
             /\ backup.id = pwd_id /\ backup.data = chunk[pwd_id]
  /\ pc \in {"save_id", "save_status"} => backup.data = chunk[pwd_id]
  /\ pc = "save_status" => backup.id = pwd_id

WriteOrder ==
  /\ pc \in {"write_iv", "write_data", "chunk_ok"} =>
       /\ backup.id = pwd_id
       /\ backup.status = IF job = "edit" THEN UPDATE ELSE CHANGE_KEY
  /\ job = "edit" /\ pc \in Rewriting => buffer \in Values
  /\ pc \in {"free_data", "free_id"} => backup.status = OK

\* The inductive invariant: a half-written chunk has its copy, and each step of
\* backup_save, the rewriting, backup_free and the restoring finds chunk and
\* backup as the step before left them, whatever was cut short in between.
BackupInv ==
  /\ TornOnlyUnderBackup /\ BackupWhole /\ SettledWhole /\ OneFieldTorn
  /\ Restoring /\ Walking /\ SaveOrder /\ WriteOrder

\* Every action preserves the backup invariant.
LEMMA BackupStep ==
  ASSUME UseAfterAbort = FALSE, TypeInv, BackupInv, [Next]_vars
  PROVE  BackupInv'
<1> USE ConstantTypes DEF BackupInv, TornOnlyUnderBackup, BackupWhole, SettledWhole,
      OneFieldTorn, Restoring, Walking, SaveOrder, WriteOrder, AllWhole, Settled,
      Saving, Rewriting, TypeInv, TypeOK, KeyReady, WalkBit, Changing,
      OK, UPDATE, CHANGE_KEY, CHUNK_OK, UPDATE_CARD, VALIDATION
<1>1. CASE BootClean
  BY <1>1 DEF BootClean, fram, ram, history
<1>2. CASE BootRestore
  BY <1>2 DEF BootRestore, fram, ram, history
<1>3. CASE RecoverAbort
  BY <1>3 DEF RecoverAbort, ReturnTo, fram, ram, history
<1>4. CASE RecoverWrongCard
  BY <1>4 DEF RecoverWrongCard, ReturnTo, fram, ram, history
<1>5. CASE RecoverWalk
  BY <1>5 DEF RecoverWalk, fram, ram, history
<1>6. CASE RecoverCard
  BY <1>6 DEF RecoverCard, fram, ram, history
<1>7. CASE RecoverValidation
  BY <1>7 DEF RecoverValidation, fram, ram, history
<1>8. CASE RestoreTear
  BY <1>8 DEF RestoreTear, fram, ram, history
<1>9. CASE RestoreData
  <2>1. /\ chunk'[backup.id] = backup.data
        /\ \A c \in Used : c # backup.id => chunk'[c] = chunk[c]
        /\ backup' = backup /\ pwd_id' = pwd_id /\ job' = job /\ newKey' = newKey
    BY <1>9 DEF RestoreData
  <2>2. AllWhole'
    BY <1>9, <2>1 DEF RestoreData
  <2>3. job # "restore" => pc' = "scan" /\ i' = pwd_id \div BITS /\ j' = pwd_id % BITS
    BY <1>9 DEF RestoreData
  <2>4. job # "restore" => At' = backup.id /\ i' < SIZE_MEMORY_MAP /\ j' < BITS
    <3> SUFFICES ASSUME job # "restore"
                 PROVE  At' = backup.id /\ i' < SIZE_MEMORY_MAP /\ j' < BITS
      OBVIOUS
    <3>1. /\ pwd_id \in Nat /\ pwd_id \in Ids /\ pwd_id = backup.id
          /\ pwd_id \div BITS \in Nat
          /\ pwd_id % BITS \in 0 .. BITS - 1
          /\ pwd_id = BITS * (pwd_id \div BITS) + (pwd_id % BITS)
      BY <1>9, DivMod DEF RestoreData
    <3>2. pwd_id \div BITS < SIZE_MEMORY_MAP
      BY <3>1, ByteInMap
    <3>3. At' = (pwd_id \div BITS) * BITS + (pwd_id % BITS)
      BY <2>3 DEF At
    <3>4. (pwd_id \div BITS) * BITS = BITS * (pwd_id \div BITS)
      BY <3>1
    <3>5. At' = backup.id
      BY <3>1, <3>3, <3>4
    <3> QED
      BY <2>3, <3>1, <3>2, <3>5
  <2>5. job = "restore" => pc' = "free_status"
    BY <1>9 DEF RestoreData
  <2> QED
    BY <1>9, <2>1, <2>2, <2>3, <2>4, <2>5 DEF RestoreData
<1>10. CASE OpenRecoveryMenu
  BY <1>10 DEF OpenRecoveryMenu, fram, ram, history
<1>11. CASE ScanUnused
  BY <1>11 DEF ScanUnused, fram, ram, history
<1>12. CASE ScanUsed
  BY <1>12 DEF ScanUsed, fram, ram, history
<1>13. CASE ScanNextByte
  BY <1>13 DEF ScanNextByte, fram, ram, history
<1>14. CASE ScanEnd
  BY <1>14 DEF ScanEnd, fram, ram, history
<1>15. CASE SaveTear
  BY <1>15 DEF SaveTear, fram, ram, history
<1>16. CASE SaveData
  BY <1>16 DEF SaveData, fram, ram, history
<1>17. CASE SaveId
  BY <1>17 DEF SaveId, fram, ram, history
<1>18. CASE SaveStatus
  BY <1>18 DEF SaveStatus, SetStatus, fram, ram, history
<1>19. CASE WriteIv
  BY <1>19 DEF WriteIv, fram, ram, history
<1>20. CASE WriteData
  <2> DEFINE new == Enc(IF job = "edit" THEN KEY ELSE newKey, buffer)
  <2>1. new # Torn
    BY <1>20, DataAssumption DEF WriteData, Enc, Torn
  <2>2. \A c \in Used, f \in Fields :
          chunk'[c][f] = IF c = pwd_id /\ f = field THEN new ELSE chunk[c][f]
    BY <1>20 DEF WriteData, Chunk
  <2>3. AllWhole'
    BY <1>20, <2>1, <2>2 DEF WriteData
  <2> HIDE DEF new
  <2> QED
    BY <1>20, <2>3 DEF WriteData, history
<1>21. CASE ChunkOk
  BY <1>21 DEF ChunkOk, SetStatus, fram, ram, history
<1>22. CASE SetUpdateCard
  BY <1>22 DEF SetUpdateCard, SetStatus, fram, ram, history
<1>23. CASE SetValidation
  BY <1>23 DEF SetValidation, SetStatus, fram, ram, history
<1>24. CASE TearValidation
  BY <1>24 DEF TearValidation, fram, ram, history
<1>25. CASE WriteValidation
  BY <1>25 DEF WriteValidation, fram, ram, history
<1>26. CASE FreeStatus
  BY <1>26 DEF FreeStatus, SetStatus, fram, ram, history
<1>27. CASE FreeData
  BY <1>27 DEF FreeData, fram, ram, history
<1>28. CASE FreeId
  BY <1>28 DEF FreeId, ReturnTo, fram, ram, history
<1>29. CASE WriteTempKey
  BY <1>29 DEF WriteTempKey, fram, ram, history
<1>30. CASE WriteTempKeyFails
  BY <1>30 DEF WriteTempKeyFails, ReturnTo, fram, ram, history
<1>31. CASE WriteKey
  BY <1>31 DEF WriteKey, fram, ram, history
<1>32. CASE WriteKeyFails
  BY <1>32 DEF WriteKeyFails, ReturnTo, fram, ram, history
<1>33. CASE Crash
  BY <1>33 DEF Crash, ReturnTo, fram, ram, history
<1>34. ASSUME NEW d \in Cards, BootRecover(d) PROVE BackupInv'
  BY <1>34 DEF BootRecover, fram, ram, history
<1>35. ASSUME NEW d \in Cards, UnlockWithCard(d) PROVE BackupInv'
  BY <1>35 DEF UnlockWithCard, fram, ram, history
<1>36. ASSUME NEW k \in Keys \cup {KEY}, EnterKey(k) PROVE BackupInv'
  BY <1>36 DEF EnterKey, fram, ram, history
<1>37. ASSUME NEW c \in Used, NEW f \in Fields, NEW v \in Values, EditCredential(c, f, v) PROVE BackupInv'
  BY <1>37 DEF EditCredential, UserMay, fram, ram, history
<1>38. ASSUME NEW k \in Keys, NEW d \in Cards, ChangeKey(k, d) PROVE BackupInv'
  BY <1>38 DEF ChangeKey, UserMay, fram, ram, history
<1>39. ASSUME NEW d \in Cards, ForceCard(d) PROVE BackupInv'
  BY <1>39 DEF ForceCard, UserMay, fram, ram, history
<1>40. ASSUME NEW k \in Keys, ForceEnter(k) PROVE BackupInv'
  BY <1>40 DEF ForceEnter, UserMay, fram, ram, history
<1>41. CASE UNCHANGED vars
  BY <1>41 DEF vars, At
<1> QED
  BY <1>1, <1>2, <1>3, <1>4, <1>5, <1>6, <1>7, <1>8, <1>9, <1>10, <1>11, <1>12, <1>13, <1>14, <1>15, <1>16, <1>17, <1>18, <1>19, <1>20, <1>21, <1>22, <1>23, <1>24, <1>25, <1>26, <1>27, <1>28, <1>29, <1>30, <1>31, <1>32, <1>33, <1>34, <1>35, <1>36, <1>37, <1>38, <1>39, <1>40, <1>41
  DEF Next, Device, Boot, Recover, Restore, Locked, Menu, Walk, Save, Write, Finish, CardIO

\* On an initialised wallet every credential is whole.
LEMMA BackupInit == Init => BackupInv
<1> SUFFICES ASSUME Init PROVE BackupInv
  OBVIOUS
<1>1. PICK d \in Cards, v \in Values :
        /\ valid = cards[d].key
        /\ chunk = [c \in Ids |-> [f \in Fields |->
                      IF c \in Used THEN Enc(valid, v) ELSE Torn]]
  BY DEF Init
<1>2. AllWhole
  BY <1>1, ConstantTypes, DataAssumption DEF Init, AllWhole, Enc, Torn
<1> QED
  BY <1>2 DEF Init, BackupInv, TornOnlyUnderBackup, BackupWhole, SettledWhole,
    OneFieldTorn, Restoring, Walking, SaveOrder, WriteOrder, AllWhole, Settled,
    Saving, Rewriting, OK, UPDATE, CHANGE_KEY

\* The order of the writes of backup_save, the rewriting of a chunk, backup_free
\* and backup_recover is kept to by every behaviour, interrupted or not.
THEOREM WritesOrdered ==
  ASSUME UseAfterAbort = FALSE
  PROVE  Spec => []BackupInv
<1>1. TypeInv /\ BackupInv /\ [Next]_vars => BackupInv'
  BY BackupStep
<1> QED
  BY <1>1, BackupInit, TypeInvariant, PTL DEF Spec

\* Whatever is cut short, by power loss or a card failure, at most one
\* credential is half written, and the backup section holds its intact copy.
THEOREM BackupProtects ==
  ASSUME UseAfterAbort = FALSE
  PROVE  Spec => []TornOnlyUnderBackup
<1>1. BackupInv => TornOnlyUnderBackup
  BY DEF BackupInv
<1> QED
  BY <1>1, WritesOrdered, PTL
-----------------------------------------------------------------------------
(***************************************************************************)
(* Which key every credential is under, for a user with one card.  A       *)
(* second card may be presented to the recovery of a change that was begun *)
(* with the first, and the walk then goes on with another new key.         *)
(***************************************************************************)

OneCard == \A d, e \in Cards : d = e

\* The new key of the change that runs or was interrupted.
TempKey == cards[card].temp

Under(c, k) == \A f \in Fields : chunk[c][f].key = k

(***************************************************************************)
(* The walk of encryption_update_key.  Below the bit it stands at, in the  *)
(* first byte of the memory map, every credential is under the new key;    *)
(* what the backup section says of an interrupted walk is just as true.    *)
(***************************************************************************)
DoneBefore(n) == \A c \in Used : c < BITS /\ c < n /\ c \notin gap => Under(c, TempKey)

WalkKey ==
  pc \in {"scan"} \cup Rewriting \cup {"restore_tear", "restore_data"} /\ Changing => newKey = TempKey

WalkPlace ==
  pc \in {"scan"} \cup Rewriting /\ Changing =>
    /\ DoneBefore(At)
    /\ pc \in Rewriting => At = pwd_id

WalkFields ==
  /\ pc \in Saving /\ Changing => field = "pwd"
  /\ pc \in {"write_iv", "write_data"} /\ Changing /\ field = "usr" => chunk[pwd_id]["pwd"].key = newKey
  /\ pc = "chunk_ok" => Under(pwd_id, newKey)

WalkRecord ==
  /\ backup.status = CHANGE_KEY => DoneBefore(backup.id)
  /\ backup.status = CHUNK_OK /\ pc # "save_status" => DoneBefore(backup.id + 1)

WalkInv == WalkKey /\ WalkPlace /\ WalkFields /\ WalkRecord /\ LeftBehindExplained

(***************************************************************************)
(* The key of the credentials that no change left behind, for a user who   *)
(* forces no key.                                                          *)
(***************************************************************************)
AllUnder(k) == \A c \in Used \ leftBehind : Under(c, k)

Undoing == job \in {"edit", "restore"}

StoredKey ==
  /\ backup.status = OK => AllUnder(valid)
  /\ backup.status = UPDATE =>
       \A c \in Used \ leftBehind :
         IF c = backup.id THEN \A f \in Fields : backup.data[f].key = valid ELSE Under(c, valid)
  /\ backup.status \in {UPDATE_CARD, VALIDATION} => AllUnder(TempKey)
  /\ backup.status = VALIDATION => cards[card].key = TempKey

EditKey ==
  /\ job # "force"
  /\ pc \in {"menu", "write_temp"} => KEY = valid
  /\ pc \in {"boot", "wait_card", "recovery_menu", "menu"} => job = "none"
  /\ pc \in {"free_data", "free_id"} /\ job \notin {"restore", "recover"} => KEY = valid
  /\ job = "edit" => KEY = valid
  /\ pc \in {"write_iv", "write_data"} /\ job = "edit" /\ pwd_id \notin leftBehind =>
       \A f \in Fields : (pc = "write_data" /\ f = field) \/ chunk[pwd_id][f].key = valid

FinishKey ==
  /\ pc = "set_update_card" => AllUnder(TempKey)
  /\ pc \in {"set_update_card", "write_key", "set_validation", "tear_validation", "write_validation"} =>
       ~Undoing /\ KEY = TempKey
  /\ pc \in {"write_key", "set_validation"} => backup.status = UPDATE_CARD
  /\ pc = "set_validation" => cards[card].key = TempKey
  /\ pc \in {"tear_validation", "write_validation"} => backup.status = VALIDATION
  /\ pc = "free_status" =>
       IF Undoing THEN backup.status = UPDATE /\ AllUnder(valid)
       ELSE backup.status = VALIDATION /\ KEY = TempKey /\ valid = KEY

KeyInv == StoredKey /\ EditKey /\ FinishKey
-----------------------------------------------------------------------------
\* The bit the walk stands at, with the first byte behind it or not.
LEMMA Place ==
  ASSUME TypeOK
  PROVE  /\ At \in Nat /\ BITS \in Nat /\ BITS > 0
         /\ i = 0 => At = j
         /\ i > 0 \/ j = BITS => At >= BITS
  <1>1. BITS \in Nat /\ BITS > 0 /\ i \in Nat /\ j \in 0 .. BITS
    BY ConstantTypes DEF TypeOK
  <1>2. i * BITS \in Nat /\ (i = 0 => i * BITS = 0)
    BY <1>1
  <1>3. i > 0 => i * BITS >= BITS
    <2> SUFFICES ASSUME i > 0 PROVE i * BITS >= BITS
      OBVIOUS
    <2>1. BITS * i >= BITS * 1
      BY <1>1, TimesMonotone
    <2> QED
      BY <1>1, <2>1
  <1> QED
    BY <1>1, <1>2, <1>3 DEF At

\* Where a recovery resumes after a chunk that was finished.
LEMMA Resumed ==
  ASSUME NEW x \in Nat
  PROVE  (x \div BITS) * BITS + (x % BITS) = x
  <1>1. /\ x \div BITS \in Nat /\ x % BITS \in Nat /\ BITS \in Nat
        /\ x = BITS * (x \div BITS) + (x % BITS)
    BY DivMod, ConstantTypes
  <1> QED
    BY <1>1

LEMMA WalkInit == Init => WalkInv
  BY DEF Init, WalkInv, WalkKey, WalkPlace, WalkFields, WalkRecord, LeftBehindExplained,
     Rewriting, Changing, OK, CHANGE_KEY, CHUNK_OK

LEMMA IdTypes ==
  ASSUME TypeOK
  PROVE  backup.id \in Nat /\ pwd_id \in Nat
  <1>1. backup.id \in Ids /\ pwd_id \in Ids
    BY DEF TypeOK
  <1> QED
    BY <1>1, ConstantTypes

\* With one card, what is on it is what is on the reader.
LEMMA SameCard ==
  ASSUME OneCard, NEW d \in Cards, NEW e \in Cards
  PROVE  d = e
  BY DEF OneCard

\* DoneBefore in the next state, of a number of either state.
DoneNext(m) ==
  \A c \in Used : c < BITS /\ c < m /\ c \notin gap' => \A f \in Fields : chunk'[c][f].key = TempKey'

\* What was done stays done, and a walk past the first byte has done all of it.
LEMMA DoneFrame ==
  ASSUME NEW n \in Nat, NEW m \in Nat, DoneBefore(n),
         n >= m \/ n >= BITS \/ (m = n + 1 /\ n \notin Used),
         TempKey' = TempKey, gap \subseteq gap',
         \A c \in Used : c < n => chunk'[c] = chunk[c]
  PROVE  DoneNext(m)
  <1> SUFFICES ASSUME NEW c \in Used, c < BITS, c < m, c \notin gap', NEW f \in Fields
               PROVE  chunk'[c][f].key = TempKey'
    BY DEF DoneNext
  <1>1. c < n
    <2>1. c \in Nat /\ BITS \in Nat
      BY ConstantTypes
    <2> QED
      BY <2>1
  <1>2. Under(c, TempKey)
    BY <1>1 DEF DoneBefore
  <1>3. chunk'[c] = chunk[c]
    BY <1>1
  <1> QED
    BY <1>2, <1>3 DEF Under

\* The actions of the walk itself.
LEMMA WalkStepWalk ==
  ASSUME TypeInv, WalkInv, Walk
  PROVE  WalkInv'
  <1>a. TypeOK
    BY DEF TypeInv
  <1>b. /\ UNCHANGED <<chunk, backup, cards, card, newKey, job, gap>>
        /\ pc = "scan" /\ Changing /\ newKey = TempKey
    BY DEF Walk, ScanUnused, ScanUsed, ScanNextByte, ScanEnd, TypeInv, KeyReady, WalkInv, WalkKey, fram, history
  <1>c. TempKey' = TempKey
    BY <1>b DEF TempKey
  <1>d. At \in Nat /\ DoneBefore(At) /\ pc' \in {"scan", "save_tear", "set_update_card"}
    BY <1>a, <1>b, Place DEF WalkInv, WalkPlace, Walk, ScanUnused, ScanUsed, ScanNextByte, ScanEnd
  <1>e. WalkKey' /\ WalkFields'
    <2>1. pc' \in Saving => field' = "pwd"
      BY <1>b DEF Walk, ScanUnused, ScanUsed, ScanNextByte, ScanEnd, Saving
    <2> QED
      BY <1>b, <1>c, <1>d, <2>1 DEF WalkKey, WalkFields
  <1>f. WalkRecord'
    <2>1. backup.id \in Nat /\ backup.id + 1 \in Nat
      BY <1>a, IdTypes
    <2>2. ASSUME NEW n \in Nat, DoneBefore(n)
          PROVE  DoneNext(n)
      BY <1>b, <1>c, <2>2 DEF DoneBefore, DoneNext, Under
    <2>3. (backup.status = CHANGE_KEY => DoneNext(backup.id)) /\ (backup.status = CHUNK_OK => DoneNext(backup.id + 1))
      BY <1>b, <2>1, <2>2 DEF WalkInv, WalkRecord
    <2> QED
      BY <1>b, <2>3 DEF WalkRecord, DoneNext, DoneBefore, Under
  <1>g. LeftBehindExplained'
    <2>1. CASE ScanEnd
      <3>1. At >= BITS /\ DoneBefore(At)
        BY <1>a, <1>d, <2>1, Place, SizesAssumption DEF ScanEnd
      <3>2. \A c \in NotUnder(newKey) : c >= BITS \/ c \in gap
        BY <1>b, <1>d, <3>1, ConstantTypes DEF NotUnder, DoneBefore, Under
      <3> QED
        BY <1>b, <2>1, <3>2 DEF ScanEnd, LeftBehindExplained, WalkInv
    <2>2. CASE ScanUnused \/ ScanUsed \/ ScanNextByte
      BY <1>b, <2>2 DEF ScanUnused, ScanUsed, ScanNextByte, history, LeftBehindExplained, WalkInv
    <2> QED
      BY <2>1, <2>2 DEF Walk
  <1>h. WalkPlace'
    <2>1. CASE ScanUnused
      <3>1. At' = At + 1 /\ At \notin Used /\ pc' = "scan"
        BY <1>a, <1>b, <2>1, ConstantTypes DEF ScanUnused, At, TypeOK
      <3>2. DoneNext(At')
        BY <1>b, <1>c, <1>d, <3>1, DoneFrame
      <3> QED
        BY <3>1, <3>2 DEF WalkPlace, DoneNext, DoneBefore, Under, Rewriting
    <2>2. CASE ScanUsed
      <3>1. At' = At /\ pwd_id' = At
        BY <2>2 DEF ScanUsed, At
      <3>2. DoneNext(At')
        BY <1>b, <1>c, <1>d, <3>1, DoneFrame
      <3> QED
        BY <3>1, <3>2 DEF WalkPlace, DoneNext, DoneBefore, Under
    <2>3. CASE ScanNextByte
      <3>1. At >= BITS /\ pc' = "scan" /\ i' = i + 1 /\ j' = j
        BY <1>a, <1>b, <2>3, Place DEF ScanNextByte
      <3>2. At' \in Nat
        BY <1>a, <3>1, ConstantTypes DEF At, TypeOK
      <3>3. DoneNext(At')
        BY <1>b, <1>c, <1>d, <3>1, <3>2, DoneFrame
      <3> QED
        BY <3>1, <3>3 DEF WalkPlace, DoneNext, DoneBefore, Under, Rewriting
    <2>4. CASE ScanEnd
      BY <2>4 DEF ScanEnd, WalkPlace, Rewriting
    <2> QED
      BY <2>1, <2>2, <2>3, <2>4 DEF Walk
  <1> QED
    BY <1>e, <1>f, <1>g, <1>h DEF WalkInv
\* backup_save: no chunk moves, and the record follows the walk.
LEMMA WalkStepSave ==
  ASSUME TypeInv, BackupInv, WalkInv, Save
  PROVE  WalkInv'
  <1>a. TypeOK
    BY DEF TypeInv
  <1>b. /\ UNCHANGED <<chunk, cards, card, newKey, job, gap, leftBehind, i, j, pwd_id, field>>
        /\ pc \in Saving /\ pc' \in {"save_data", "save_id", "save_status", "write_iv"}
    BY DEF Save, SaveTear, SaveData, SaveId, SaveStatus, Saving, ram, history
  <1>c. TempKey' = TempKey /\ At' = At
    BY <1>b DEF TempKey, At
  <1>d. ASSUME NEW n \in Nat, DoneBefore(n)
        PROVE  DoneNext(n)
    BY <1>b, <1>c, <1>d DEF DoneBefore, DoneNext, Under
  <1>e. WalkKey' /\ WalkFields' /\ LeftBehindExplained'
    <2>1. Changing => field' = "pwd"
      BY <1>b DEF WalkInv, WalkFields
    <2> QED
      BY <1>b, <1>c, <2>1 DEF WalkInv, WalkKey, WalkFields, LeftBehindExplained, Changing, Rewriting, Saving
  <1>f. WalkPlace'
    <2>1. pc \in Rewriting /\ pc' \in Rewriting /\ At \in Nat /\ (Changing' <=> Changing)
      BY <1>a, <1>b, Place DEF Saving, Rewriting, Changing
    <2>2. Changing => DoneNext(At') /\ At' = pwd_id'
      BY <1>b, <1>c, <1>d, <2>1 DEF WalkInv, WalkPlace
    <2> QED
      BY <2>1, <2>2 DEF WalkPlace, DoneNext, DoneBefore, Under
  <1>g. WalkRecord'
    <2>1. CASE SaveTear \/ SaveData
      <3>1. backup'.status = backup.status /\ backup'.id = backup.id /\ pc # "save_status"
        BY <1>a, <2>1 DEF SaveTear, SaveData, TypeOK
      <3>2. (backup.status = CHANGE_KEY => DoneNext(backup'.id)) /\ (backup.status = CHUNK_OK => DoneNext(backup'.id + 1))
        BY <1>a, <1>d, <3>1, IdTypes DEF WalkInv, WalkRecord
      <3> QED
        BY <3>1, <3>2 DEF WalkRecord, DoneNext, DoneBefore, Under
    <2>2. CASE SaveId
      <3>1. backup'.status = backup.status /\ backup'.id = pwd_id /\ pc' = "save_status"
        BY <1>a, <2>2 DEF SaveId, TypeOK
      <3>2. backup.status = CHANGE_KEY => backup.id = pwd_id
        BY <1>b DEF BackupInv, SaveOrder, OK, CHUNK_OK, CHANGE_KEY
      <3>3. backup.status = CHANGE_KEY => DoneNext(backup'.id)
        BY <1>a, <1>d, <3>1, <3>2, IdTypes DEF WalkInv, WalkRecord
      <3> QED
        BY <3>1, <3>3 DEF WalkRecord, DoneNext, DoneBefore, Under
    <2>3. CASE SaveStatus
      <3>1. backup'.status = (IF job = "edit" THEN UPDATE ELSE CHANGE_KEY) /\ backup'.id = backup.id
        BY <1>a, <2>3 DEF SaveStatus, SetStatus, TypeOK
      <3>2. backup.id = pwd_id /\ pc \in Rewriting
        BY <2>3 DEF SaveStatus, BackupInv, SaveOrder, Rewriting
      <3>3. job # "edit" => Changing
        BY <3>2 DEF TypeInv, KeyReady, Changing
      <3>4. job # "edit" => DoneNext(backup'.id)
        BY <1>a, <1>d, <3>1, <3>2, <3>3, IdTypes DEF WalkInv, WalkPlace
      <3> QED
        BY <3>1, <3>4 DEF WalkRecord, DoneNext, DoneBefore, Under, UPDATE, CHANGE_KEY, CHUNK_OK
    <2> QED
      BY <2>1, <2>2, <2>3 DEF Save
  <1> QED
    BY <1>e, <1>f, <1>g DEF WalkInv
\* The rewriting of one chunk, which the walk stands at.
LEMMA WalkStepWrite ==
  ASSUME TypeInv, BackupInv, WalkInv, Write
  PROVE  WalkInv'
  <1>a. TypeOK
    BY DEF TypeInv
  <1>b. /\ UNCHANGED <<cards, card, newKey, job, gap, leftBehind, i, pwd_id>>
        /\ pc \in {"write_iv", "write_data", "chunk_ok"} /\ pc' \in {"write_data", "write_iv", "free_status", "chunk_ok", "scan"}
        /\ backup.id = pwd_id /\ backup'.id = pwd_id
        /\ \A c \in Ids \ {pwd_id} : chunk'[c] = chunk[c]
    <2>1. backup.id = pwd_id
      BY DEF Write, WriteIv, WriteData, ChunkOk, BackupInv, WriteOrder
    <2>2. backup'.id = backup.id
      BY <1>a DEF Write, WriteIv, WriteData, ChunkOk, SetStatus, TypeOK
    <2>3. \A c \in Ids \ {pwd_id} : chunk'[c] = chunk[c]
      BY <1>a DEF Write, WriteIv, WriteData, ChunkOk, TypeOK
    <2>4. /\ UNCHANGED <<cards, card, newKey, job, gap, leftBehind, i, pwd_id>>
          /\ pc \in {"write_iv", "write_data", "chunk_ok"} /\ pc' \in {"write_data", "write_iv", "free_status", "chunk_ok", "scan"}
      <3>1. CASE WriteIv
        BY <3>1 DEF WriteIv, history
      <3>2. CASE WriteData
        BY <3>2 DEF WriteData, history
      <3>3. CASE ChunkOk
        BY <3>3 DEF ChunkOk, history
      <3> QED
        BY <3>1, <3>2, <3>3 DEF Write
    <2> QED
      BY <2>1, <2>2, <2>3, <2>4
  <1>c. TempKey' = TempKey /\ pc \in Rewriting
    BY <1>b DEF TempKey, Rewriting
  <1>d. ASSUME NEW n \in Nat, n <= pwd_id, DoneBefore(n)
        PROVE  DoneNext(n)
    <2>1. ASSUME NEW c \in Used, c < n
          PROVE  chunk'[c] = chunk[c]
      <3>1. c \in Ids /\ c \in Nat /\ pwd_id \in Nat
        BY <1>a, ConstantTypes, IdTypes
      <3> QED
        BY <1>b, <1>d, <2>1, <3>1
    <2> QED
      BY <1>b, <1>c, <1>d, <2>1 DEF DoneBefore, DoneNext, Under
  <1>e. CASE WriteIv \/ WriteData
    <2>1. UNCHANGED <<j, backup>> /\ pc' # "scan"
      BY <1>e DEF WriteIv, WriteData
    <2>2. At' = At
      BY <1>b, <2>1 DEF At
    <2>3. WalkPlace'
      <3>1. Changing => DoneNext(At') /\ At' = pwd_id'
        BY <1>a, <1>b, <1>c, <1>d, <2>2, IdTypes DEF WalkInv, WalkPlace
      <3> QED
        BY <1>b, <1>c, <2>1, <3>1 DEF WalkPlace, DoneNext, DoneBefore, Under, Changing
    <2>4. WalkRecord'
      <3>1. backup.status \in {UPDATE, CHANGE_KEY}
        BY <1>b DEF BackupInv, WriteOrder
      <3>2. backup.status = CHANGE_KEY => DoneNext(backup.id)
        BY <1>a, <1>b, <1>d, IdTypes DEF WalkInv, WalkRecord
      <3> QED
        BY <2>1, <3>1, <3>2 DEF WalkRecord, DoneNext, DoneBefore, Under, UPDATE, CHANGE_KEY, CHUNK_OK
    <2>5. WalkFields'
      <3>1. CASE WriteIv
        <4>1. pc' = "write_data" /\ field' = field /\ field \in Fields /\ pwd_id \in Ids
              /\ chunk' = [chunk EXCEPT ![pwd_id][field] = Torn]
          BY <1>a, <3>1 DEF WriteIv, TypeOK
        <4>2. field = "usr" => chunk'[pwd_id]["pwd"] = chunk[pwd_id]["pwd"]
          BY <1>a, <4>1 DEF TypeOK, Chunk, Fields
        <4> QED
          BY <1>b, <3>1, <4>1, <4>2 DEF WriteIv, WalkInv, WalkFields, Changing, Saving
      <3>2. CASE WriteData
        <4>1. /\ pwd_id \in Ids /\ field \in Fields
              /\ chunk' = [chunk EXCEPT ![pwd_id][field] = Enc(IF job = "edit" THEN KEY ELSE newKey, buffer)]
          BY <1>a, <3>2 DEF WriteData, TypeOK
        <4>2. \A f \in Fields : chunk'[pwd_id][f] = IF f = field THEN Enc(IF job = "edit" THEN KEY ELSE newKey, buffer)
                                                    ELSE chunk[pwd_id][f]
          BY <1>a, <4>1 DEF TypeOK, Chunk
        <4>3. job \in {"edit", "change_key", "recover"}
          BY <1>c DEF TypeInv, KeyReady
        <4>4. CASE job = "edit"
          BY <1>b, <3>2, <4>4 DEF WriteData, WalkFields, Changing, Saving
        <4>5. CASE job # "edit" /\ field = "pwd"
          BY <1>b, <3>2, <4>2, <4>5 DEF WriteData, WalkFields, Saving, Fields, Enc
        <4>6. CASE job # "edit" /\ field = "usr"
          <5>1. chunk[pwd_id]["pwd"].key = newKey /\ pc' = "chunk_ok"
            BY <3>2, <4>3, <4>6 DEF WriteData, WalkInv, WalkFields, Changing
          <5> QED
            BY <1>b, <4>2, <4>6, <5>1 DEF WalkFields, Saving, Under, Fields, Enc
        <4> QED
          BY <4>1, <4>4, <4>5, <4>6 DEF Fields
      <3> QED
        BY <1>e, <3>1, <3>2
    <2> QED
      BY <1>b, <1>c, <2>1, <2>3, <2>4, <2>5 DEF WalkInv, WalkKey, Changing, LeftBehindExplained
  <1>f. CASE ChunkOk
    <2>1. /\ UNCHANGED chunk /\ pc = "chunk_ok" /\ pc' = "scan" /\ backup'.status = CHUNK_OK
          /\ j' = j + 1
      BY <1>a, <1>f DEF ChunkOk, SetStatus, TypeOK
    <2>2. At' = At + 1 /\ At \in Nat
      BY <1>a, <1>b, <2>1, Place, ConstantTypes DEF At, TypeOK
    <2>3. Changing /\ newKey = TempKey /\ DoneBefore(At) /\ At = pwd_id /\ Under(pwd_id, newKey)
      BY <1>c, <2>1 DEF TypeInv, KeyReady, WalkInv, WalkKey, WalkPlace, WalkFields
    <2>4. DoneNext(pwd_id + 1)
      BY <1>a, <1>b, <1>c, <2>1, <2>2, <2>3, ConstantTypes DEF DoneBefore, DoneNext, Under
    <2>5. WalkPlace' /\ WalkRecord'
      BY <1>b, <2>1, <2>2, <2>3, <2>4
      DEF WalkPlace, WalkRecord, DoneNext, DoneBefore, Under, Rewriting, CHUNK_OK, CHANGE_KEY
    <2> QED
      BY <1>b, <1>c, <2>1, <2>3, <2>5 DEF WalkInv, WalkKey, WalkFields, LeftBehindExplained, Saving
  <1> QED
    BY <1>e, <1>f DEF Write
\* The actions that neither walk nor begin a walk.
WalkFree ==
  \/ Boot \/ RecoverAbort \/ RecoverWrongCard \/ RecoverCard \/ RecoverValidation
  \/ Locked \/ Menu \/ Finish \/ WriteKey \/ WriteKeyFails

LEMMA WalkStepFree ==
  ASSUME OneCard, TypeInv, BackupInv, WalkInv, WalkFree
  PROVE  WalkInv'
  <1>a. TypeOK
    BY DEF TypeInv
  <1>b. /\ UNCHANGED <<chunk, gap, leftBehind>>
        /\ pc # "save_status"
        /\ ~(pc' \in {"scan"} \cup Rewriting \cup {"restore_tear", "restore_data"} /\ Changing')
        /\ pc' # "save_status" /\ pc' # "chunk_ok"
    <2> USE DEF fram, ram, history, Rewriting, Changing, ReturnTo
    <2>1. CASE Boot
      BY <2>1 DEF Boot, BootClean, BootRestore, BootRecover
    <2>2. CASE RecoverAbort \/ RecoverWrongCard \/ RecoverCard \/ RecoverValidation
      BY <2>2 DEF RecoverAbort, RecoverWrongCard, RecoverCard, RecoverValidation
    <2>3. CASE Locked
      BY <2>3 DEF Locked, UnlockWithCard, OpenRecoveryMenu, EnterKey
    <2>4. CASE Menu
      BY <2>4 DEF Menu, UserMay, EditCredential, ChangeKey, ForceCard, ForceEnter
    <2>5. CASE Finish
      BY <2>5 DEF Finish, SetUpdateCard, SetValidation, TearValidation, WriteValidation, FreeStatus, FreeData, FreeId
    <2>6. CASE WriteKey \/ WriteKeyFails
      BY <2>6 DEF WriteKey, WriteKeyFails
    <2> QED
      BY <2>1, <2>2, <2>3, <2>4, <2>5, <2>6 DEF WalkFree
  <1>c. TempKey' = TempKey
    <2>1. card' \in Cards
      BY <1>a, TypeStep DEF TypeInv, TypeOK, WalkFree, Boot, BootClean, BootRestore, BootRecover,
        RecoverAbort, RecoverWrongCard, RecoverCard, RecoverValidation, Locked, UnlockWithCard, OpenRecoveryMenu, EnterKey,
        Menu, EditCredential, ChangeKey, ForceCard, ForceEnter, Finish, SetUpdateCard, SetValidation, TearValidation,
        WriteValidation, FreeStatus, FreeData, FreeId, WriteKey, WriteKeyFails, ram
    <2>2. card' = card
      BY <1>a, <2>1, SameCard DEF TypeOK
    <2>3. cards'[card].temp = cards[card].temp
      <3>1. CASE WriteKey \/ WriteKeyFails
        BY <1>a, <3>1 DEF WriteKey, WriteKeyFails, TypeOK
      <3>2. CASE ~(WriteKey \/ WriteKeyFails)
        BY <3>2 DEF WalkFree, Boot, BootClean, BootRestore, BootRecover,
          RecoverAbort, RecoverWrongCard, RecoverCard, RecoverValidation, Locked, UnlockWithCard, OpenRecoveryMenu, EnterKey,
          Menu, EditCredential, ChangeKey, ForceCard, ForceEnter, Finish, SetUpdateCard, SetValidation, TearValidation,
          WriteValidation, FreeStatus, FreeData, FreeId
      <3> QED
        BY <3>1, <3>2
    <2> QED
      BY <2>2, <2>3 DEF TempKey
  <1>d. \/ backup' = backup
        \/ backup'.status \in {OK, UPDATE_CARD, VALIDATION}
    <2>1. CASE Finish
      <3>1. CASE FreeData \/ FreeId
        BY <1>a, <3>1 DEF FreeData, FreeId, BackupInv, WriteOrder, TypeOK
      <3>2. CASE ~(FreeData \/ FreeId)
        BY <1>a, <2>1, <3>2 DEF Finish, SetUpdateCard, SetValidation, TearValidation, WriteValidation, FreeStatus, SetStatus, fram, TypeOK
      <3> QED
        BY <3>1, <3>2
    <2>2. CASE ~Finish
      BY <2>2 DEF WalkFree, Boot, BootClean, BootRestore, BootRecover,
        RecoverAbort, RecoverWrongCard, RecoverCard, RecoverValidation, Locked, UnlockWithCard, OpenRecoveryMenu, EnterKey,
        Menu, EditCredential, ChangeKey, ForceCard, ForceEnter, WriteKey, WriteKeyFails, fram
    <2> QED
      BY <2>1, <2>2
  <1>e. \A n : DoneBefore(n) => DoneNext(n)
    BY <1>b, <1>c DEF DoneBefore, DoneNext, Under
  <1>f. WalkRecord'
    <2>1. CASE backup' = backup
      <3>1. (backup.status = CHANGE_KEY => DoneNext(backup.id)) /\ (backup.status = CHUNK_OK => DoneNext(backup.id + 1))
        BY <1>b, <1>e DEF WalkInv, WalkRecord
      <3> QED
        BY <2>1, <3>1 DEF WalkRecord, DoneNext, DoneBefore, Under
    <2>2. CASE backup'.status \in {OK, UPDATE_CARD, VALIDATION}
      BY <2>2 DEF WalkRecord, OK, UPDATE_CARD, VALIDATION, CHANGE_KEY, CHUNK_OK
    <2> QED
      BY <1>d, <2>1, <2>2
  <1>g. WalkKey' /\ WalkPlace' /\ WalkFields'
    BY <1>b DEF WalkKey, WalkPlace, WalkFields, Rewriting, Saving
  <1> QED
    BY <1>b, <1>f, <1>g DEF WalkInv, LeftBehindExplained
\* A power loss: what the walk had reached is in the record, but for the chunk
\* whose id backup_save had just written over CHUNK_OK.
LEMMA WalkStepCrash ==
  ASSUME TypeInv, BackupInv, WalkInv, Crash
  PROVE  WalkInv'
  <1>a. TypeOK
    BY DEF TypeInv
  <1>b. /\ UNCHANGED <<chunk, backup, cards, card, leftBehind>> /\ pc' = "boot" /\ gap \subseteq gap'
        /\ InGap => backup.id \in gap'
    BY DEF Crash, ReturnTo, fram
  <1>c. TempKey' = TempKey
    BY <1>b DEF TempKey
  <1>d. \A n : DoneBefore(n) => DoneNext(n)
    BY <1>b, <1>c DEF DoneBefore, DoneNext, Under
  <1>e. backup.status = CHANGE_KEY => DoneNext(backup.id)
    BY <1>d DEF WalkInv, WalkRecord
  <1>f. backup.status = CHUNK_OK => DoneNext(backup.id + 1)
    <2>1. CASE pc # "save_status"
      BY <1>d, <2>1 DEF WalkInv, WalkRecord
    <2>2. CASE pc = "save_status"
      <3> SUFFICES ASSUME backup.status = CHUNK_OK PROVE DoneNext(backup.id + 1)
        OBVIOUS
      <3>1. Changing /\ backup.id = pwd_id
        BY <2>2 DEF BackupInv, SaveOrder, Saving, TypeInv, KeyReady, Rewriting, Changing, OK, CHUNK_OK, CHANGE_KEY
      <3>2. DoneBefore(backup.id)
        BY <2>2, <3>1 DEF WalkInv, WalkPlace, Rewriting
      <3>3. backup.id \in gap'
        BY <1>b, <2>2 DEF InGap
      <3>4. \A c \in Used : c < backup.id + 1 => c < backup.id \/ c = backup.id
        BY <1>a, IdTypes, ConstantTypes
      <3> QED
        BY <1>d, <3>2, <3>3, <3>4 DEF DoneNext
    <2> QED
      BY <2>1, <2>2
  <1>g. WalkRecord'
    BY <1>b, <1>e, <1>f DEF WalkRecord, DoneNext, DoneBefore, Under
  <1>h. WalkKey' /\ WalkPlace' /\ WalkFields'
    BY <1>b DEF WalkKey, WalkPlace, WalkFields, Rewriting, Saving
  <1> QED
    BY <1>b, <1>g, <1>h DEF WalkInv, LeftBehindExplained

\* The recovery of a key change: from the record back to the walk.
LEMMA WalkStepRecover ==
  ASSUME TypeInv, BackupInv, WalkInv, RecoverWalk \/ Restore
  PROVE  WalkInv'
  <1>a. TypeOK
    BY DEF TypeInv
  <1>b. /\ UNCHANGED <<backup, cards, card, job, gap, leftBehind, field>>
        /\ pc \in {"recover_card", "restore_tear", "restore_data"}
        /\ pc' \in {"restore_tear", "restore_data", "scan", "free_status"}
    BY DEF RecoverWalk, Restore, RestoreTear, RestoreData, fram, ram, history
  <1>c. TempKey' = TempKey
    BY <1>b DEF TempKey
  <1>d. \A c \in Used : c # backup.id => chunk'[c] = chunk[c]
    <2>1. CASE RecoverWalk
      BY <2>1 DEF RecoverWalk, fram
    <2>2. CASE Restore
      <3>1. pwd_id = backup.id
        BY <2>2 DEF Restore, RestoreTear, RestoreData, BackupInv, Restoring
      <3> QED
        BY <1>a, <2>2, <3>1, ConstantTypes DEF Restore, RestoreTear, RestoreData, TypeOK
    <2> QED
      BY <2>1, <2>2
  <1>e. backup.status = CHANGE_KEY => DoneNext(backup.id)
    <2>1. \A c \in Used : c < backup.id => c # backup.id
      BY <1>a, IdTypes, ConstantTypes
    <2> QED
      BY <1>b, <1>c, <1>d, <2>1 DEF WalkInv, WalkRecord, DoneBefore, DoneNext, Under
  <1>f. backup.status = CHUNK_OK => UNCHANGED chunk /\ RecoverWalk /\ DoneNext(backup.id + 1)
    <2> SUFFICES ASSUME backup.status = CHUNK_OK PROVE UNCHANGED chunk /\ RecoverWalk /\ DoneNext(backup.id + 1)
      OBVIOUS
    <2>1. RecoverWalk
      BY DEF Restore, RestoreTear, RestoreData, BackupInv, Restoring, UPDATE, CHANGE_KEY, CHUNK_OK
    <2>2. UNCHANGED chunk
      BY <2>1 DEF RecoverWalk, fram
    <2>3. DoneBefore(backup.id + 1)
      BY <1>b DEF WalkInv, WalkRecord
    <2> QED
      BY <1>b, <1>c, <2>1, <2>2, <2>3 DEF DoneBefore, DoneNext, Under
  <1>g. WalkRecord'
    BY <1>b, <1>e, <1>f DEF WalkRecord, DoneNext, DoneBefore, Under
  <1>h. WalkKey'
    BY <1>b, <1>c DEF RecoverWalk, Restore, RestoreTear, RestoreData, ram, TempKey, WalkInv, WalkKey, Changing
  <1>i. WalkFields'
    BY <1>b DEF WalkFields, Saving
  <1>j. WalkPlace'
    <2> SUFFICES ASSUME pc' = "scan" PROVE DoneNext(At')
      BY <1>b DEF WalkPlace, DoneNext, DoneBefore, Under, Rewriting
    <2>1. CASE RecoverWalk
      <3>1. backup.status = CHUNK_OK /\ i' = (backup.id + 1) \div BITS /\ j' = (backup.id + 1) % BITS
        BY <2>1 DEF RecoverWalk
      <3>2. At' = backup.id + 1
        BY <1>a, <3>1, IdTypes, Resumed DEF At
      <3> QED
        BY <1>f, <3>1, <3>2
    <2>2. CASE Restore
      <3>1. job # "restore" /\ i' = pwd_id \div BITS /\ j' = pwd_id % BITS /\ pc = "restore_data"
        BY <2>2 DEF Restore, RestoreTear, RestoreData
      <3>2. backup.status = CHANGE_KEY /\ pwd_id = backup.id
        BY <3>1 DEF BackupInv, Restoring
      <3>3. At' = backup.id
        BY <1>a, <3>1, <3>2, IdTypes, Resumed DEF At
      <3> QED
        BY <1>e, <3>2, <3>3
    <2> QED
      BY <2>1, <2>2
  <1> QED
    BY <1>b, <1>g, <1>h, <1>i, <1>j DEF WalkInv, LeftBehindExplained

\* The new key reaches the temporary block of the card before the walk begins.
LEMMA WalkStepTemp ==
  ASSUME TypeInv, BackupInv, WalkInv, WriteTempKey \/ WriteTempKeyFails
  PROVE  WalkInv'
  <1>a. TypeOK
    BY DEF TypeInv
  <1>b. /\ UNCHANGED <<backup, gap, leftBehind>> /\ pc' \in {"scan", "menu"}
        /\ backup.status = OK
    BY DEF WriteTempKey, WriteTempKeyFails, ReturnTo, fram, history, BackupInv, Walking
  <1>c. CASE WriteTempKey
    <2>1. newKey' = TempKey'
      BY <1>a, <1>c DEF WriteTempKey, TempKey, TypeOK
    <2>2. At' = 0
      BY <1>c, ConstantTypes DEF WriteTempKey, At
    <2>3. DoneNext(At')
      BY <2>2, ConstantTypes DEF DoneNext
    <2> QED
      BY <1>b, <1>c, <2>1, <2>3 DEF WriteTempKey, WalkInv, WalkKey, WalkPlace, WalkFields, WalkRecord, LeftBehindExplained,
        DoneNext, DoneBefore, Under, Rewriting, Saving, OK, CHANGE_KEY, CHUNK_OK
  <1>d. CASE WriteTempKeyFails
    BY <1>b, <1>d DEF WriteTempKeyFails, ReturnTo, WalkInv, WalkKey, WalkPlace, WalkFields, WalkRecord, LeftBehindExplained,
      Rewriting, Saving, Changing, OK, CHANGE_KEY, CHUNK_OK
  <1> QED
    BY <1>c, <1>d

LEMMA WalkStep ==
  ASSUME OneCard, TypeInv, BackupInv, WalkInv, [Next]_vars
  PROVE  WalkInv'
  <1>1. CASE UNCHANGED vars
    BY <1>1 DEF vars, WalkInv, WalkKey, WalkPlace, WalkFields, WalkRecord, LeftBehindExplained, DoneBefore, Under, TempKey, At,
      Changing, Rewriting, Saving
  <1>2. CASE Next
    <2>1. Walk \/ Save \/ Write \/ WalkFree \/ Crash \/ RecoverWalk \/ Restore \/ WriteTempKey \/ WriteTempKeyFails
      BY <1>2 DEF Next, Device, Recover, CardIO, WalkFree
    <2> QED
      BY <2>1, WalkStepWalk, WalkStepSave, WalkStepWrite, WalkStepFree, WalkStepCrash, WalkStepRecover, WalkStepTemp
  <1> QED
    BY <1>1, <1>2

\* A key change leaves behind only what the walk's bit index, which is never
\* reset, skips past the first byte of the memory map, and the chunks caught
\* between the id and the status of backup_save (Encryption.c:79, Backup.c:33);
\* so for every size of the memory map, any number of interrupted changes and
\* forced keys, with one card.
THEOREM LeftBehindOnlySo ==
  ASSUME UseAfterAbort = FALSE, OneCard
  PROVE  Spec => []LeftBehindExplained
  <1>1. TypeInv /\ BackupInv /\ WalkInv /\ [Next]_vars => WalkInv'
    BY WalkStep
  <1>2. WalkInv => LeftBehindExplained
    BY DEF WalkInv
  <1> QED
    BY <1>1, <1>2, WalkInit, TypeInvariant, WritesOrdered, PTL DEF Spec
-----------------------------------------------------------------------------
\* The only card stays the only card.
LEMMA CardKept ==
  ASSUME OneCard, TypeInv, [Next]_vars
  PROVE  card' = card
  <1>1. card \in Cards /\ card' \in Cards
    BY TypeStep DEF TypeInv, TypeOK
  <1> QED
    BY <1>1, SameCard

ForcesNoKey == Ops \subseteq {"edit", "change_key"}

LEMMA KeyStep ==
  ASSUME UseAfterAbort = FALSE, OneCard, ForcesNoKey, TypeInv, BackupInv, WalkInv, KeyInv, [Next]_vars
  PROVE  KeyInv'
  <1>a. card' = card
    BY CardKept
  <1> USE <1>a, ConstantTypes DEF KeyInv, StoredKey, EditKey, FinishKey, AllUnder, Under, Undoing, TempKey, ForcesNoKey,
        BackupInv, SettledWhole, Restoring, Walking, SaveOrder, WriteOrder, Saving,
        TypeInv, TypeOK, KeyReady, Rewriting, Changing, WalkInv, WalkKey,
        OK, UPDATE, CHANGE_KEY, CHUNK_OK, UPDATE_CARD, VALIDATION, fram, ram, history
  <1>1. CASE BootClean
    BY <1>1 DEF BootClean
  <1>2. CASE BootRestore
    BY <1>2 DEF BootRestore
  <1>3. CASE RecoverAbort
    BY <1>3 DEF RecoverAbort, ReturnTo
  <1>4. CASE RecoverWrongCard
    BY <1>4 DEF RecoverWrongCard, ReturnTo
  <1>5. CASE RecoverWalk
    BY <1>5 DEF RecoverWalk
  <1>6. CASE RecoverCard
    BY <1>6 DEF RecoverCard
  <1>7. CASE RecoverValidation
    BY <1>7 DEF RecoverValidation
  <1>8. CASE RestoreTear
    BY <1>8 DEF RestoreTear
  <1>9. CASE RestoreData
    BY <1>9 DEF RestoreData
  <1>10. CASE OpenRecoveryMenu
    BY <1>10 DEF OpenRecoveryMenu
  <1>11. CASE ScanUnused
    BY <1>11 DEF ScanUnused
  <1>12. CASE ScanUsed
    BY <1>12 DEF ScanUsed
  <1>13. CASE ScanNextByte
    BY <1>13 DEF ScanNextByte
  <1>14. CASE ScanEnd
    BY <1>14 DEF ScanEnd, NotUnder
  <1>15. CASE SaveTear
    BY <1>15 DEF SaveTear
  <1>16. CASE SaveData
    BY <1>16 DEF SaveData
  <1>17. CASE SaveId
    BY <1>17 DEF SaveId
  <1>18. CASE SaveStatus
    BY <1>18 DEF SaveStatus, SetStatus
  <1>19. CASE WriteIv
    BY <1>19 DEF WriteIv
  <1>20. CASE WriteData
    <2> DEFINE new == Enc(IF job = "edit" THEN KEY ELSE newKey, buffer)
    <2>1. \A c \in Used, f \in Fields : chunk'[c][f] = IF c = pwd_id /\ f = field THEN new ELSE chunk[c][f]
      BY <1>20 DEF WriteData, Chunk
    <2>2. new.key = IF job = "edit" THEN KEY ELSE newKey
      BY DEF Enc
    <2> HIDE DEF new
    <2>3. /\ UNCHANGED <<backup, valid, cards, KEY, newKey, job, pwd_id, leftBehind>> /\ pc = "write_data"
          /\ IF job = "edit" THEN pc' = "free_status" ELSE pc' \in {"write_iv", "chunk_ok"}
      BY <1>20 DEF WriteData
    <2>4. backup.id = pwd_id /\ backup.status = IF job = "edit" THEN UPDATE ELSE CHANGE_KEY
      BY <2>3
    <2>5. StoredKey'
      BY <2>1, <2>3, <2>4
    <2>6. EditKey'
      BY <2>3
    <2>7. job = "edit" => AllUnder(valid)'
      BY <2>1, <2>2, <2>3, <2>4
    <2>8. FinishKey'
      BY <2>3, <2>4, <2>7
    <2> QED
      BY <2>5, <2>6, <2>8
  <1>21. CASE ChunkOk
    BY <1>21 DEF ChunkOk, SetStatus
  <1>22. CASE SetUpdateCard
    BY <1>22 DEF SetUpdateCard, SetStatus
  <1>23. CASE SetValidation
    BY <1>23 DEF SetValidation, SetStatus
  <1>24. CASE TearValidation
    BY <1>24 DEF TearValidation
  <1>25. CASE WriteValidation
    BY <1>25 DEF WriteValidation
  <1>26. CASE FreeStatus
    BY <1>26 DEF FreeStatus, SetStatus
  <1>27. CASE FreeData
    BY <1>27 DEF FreeData
  <1>28. CASE FreeId
    BY <1>28 DEF FreeId, ReturnTo
  <1>29. CASE WriteTempKey
    BY <1>29 DEF WriteTempKey
  <1>30. CASE WriteTempKeyFails
    BY <1>30 DEF WriteTempKeyFails, ReturnTo
  <1>31. CASE WriteKey
    BY <1>31 DEF WriteKey
  <1>32. CASE WriteKeyFails
    BY <1>32 DEF WriteKeyFails, ReturnTo
  <1>33. CASE Crash
    BY <1>33 DEF Crash, ReturnTo
  <1>34. ASSUME NEW d \in Cards, BootRecover(d)
        PROVE  KeyInv'
    BY <1>34 DEF BootRecover
  <1>35. ASSUME NEW d \in Cards, UnlockWithCard(d)
        PROVE  KeyInv'
    BY <1>35 DEF UnlockWithCard, KeyMatches
  <1>36. ASSUME NEW k \in Keys \cup {KEY}, EnterKey(k)
        PROVE  KeyInv'
    BY <1>36 DEF EnterKey, KeyMatches
  <1>37. ASSUME NEW c \in Used, NEW f \in Fields, NEW v \in Values, EditCredential(c, f, v)
        PROVE  KeyInv'
    BY <1>37 DEF EditCredential, UserMay
  <1>38. ASSUME NEW k \in Keys, NEW d \in Cards, ChangeKey(k, d)
        PROVE  KeyInv'
    BY <1>38 DEF ChangeKey, UserMay
  <1>39. ASSUME NEW d \in Cards, ForceCard(d)
        PROVE  KeyInv'
    BY <1>39 DEF ForceCard, UserMay
  <1>40. ASSUME NEW k \in Keys, ForceEnter(k)
        PROVE  KeyInv'
    BY <1>40 DEF ForceEnter, UserMay
  <1>41. CASE UNCHANGED vars
    BY <1>41 DEF vars
  <1> QED
    BY <1>1, <1>2, <1>3, <1>4, <1>5, <1>6, <1>7, <1>8, <1>9, <1>10, <1>11, <1>12, <1>13, <1>14, <1>15, <1>16, <1>17, <1>18, <1>19, <1>20, <1>21, <1>22, <1>23, <1>24, <1>25, <1>26, <1>27, <1>28, <1>29, <1>30, <1>31, <1>32, <1>33, <1>34, <1>35, <1>36, <1>37, <1>38, <1>39, <1>40, <1>41
    DEF Next, Device, Boot, Recover, Restore, Locked, Menu, Walk, Save, Write, Finish, CardIO
\* On an initialised wallet every credential is under the accepted key.
LEMMA KeyInit == Init => KeyInv
  <1> SUFFICES ASSUME Init PROVE KeyInv
    OBVIOUS
  <1>1. PICK d \in Cards, v \in Values :
        /\ valid = cards[d].key
        /\ chunk = [c \in Ids |-> [f \in Fields |->
                      IF c \in Used THEN Enc(valid, v) ELSE Torn]]
    BY DEF Init
  <1>2. AllUnder(valid)
    BY <1>1, ConstantTypes DEF AllUnder, Under, Enc
  <1>3. StoredKey /\ EditKey /\ FinishKey
    BY <1>2 DEF Init, StoredKey, EditKey, FinishKey, OK, UPDATE, UPDATE_CARD, VALIDATION
  <1> QED
    BY <1>3 DEF KeyInv

LEMMA KeyInvariant ==
  ASSUME UseAfterAbort = FALSE, OneCard, ForcesNoKey
  PROVE  Spec => [](TypeInv /\ BackupInv /\ WalkInv /\ KeyInv)
  <1>1. TypeInv /\ BackupInv /\ WalkInv /\ [Next]_vars => WalkInv'
    BY WalkStep
  <1>2. TypeInv /\ BackupInv /\ WalkInv /\ KeyInv /\ [Next]_vars => KeyInv'
    BY KeyStep
  <1> QED
    BY <1>1, <1>2, WalkInit, KeyInit, TypeInvariant, WritesOrdered, PTL DEF Spec

\* Whenever the wallet is unlocked and no recovery is pending
\* (State_Wait_Card.c), its key opens every credential that no finished change
\* left behind, however often changes, edits and recoveries were cut short.
THEOREM UnlockedOpens ==
  ASSUME UseAfterAbort = FALSE, OneCard, ForcesNoKey
  PROVE  Spec => []UnlockedReadsAll
  <1>1. KeyInv => UnlockedReadsAll
    BY DEF KeyInv, StoredKey, EditKey, UnlockedReadsAll, AllUnder, Under
  <1> QED
    BY <1>1, KeyInvariant, PTL

\* The status byte goes back to OK in backup_free alone (Backup.c:44).
LEMMA DroppedByFree ==
  ASSUME [Next]_vars, TypeInv, BackupInv, backup.status # OK, backup'.status = OK
  PROVE  FreeStatus
  <1>a. TypeOK
    BY DEF TypeInv
  <1> USE <1>a DEF fram, ram, history, TypeOK, SetStatus, OK, UPDATE, CHANGE_KEY, CHUNK_OK, UPDATE_CARD, VALIDATION
  <1>1. CASE UNCHANGED vars
    BY <1>1 DEF vars
  <1>2. CASE Boot \/ Recover \/ Restore
    BY <1>2 DEF Boot, BootClean, BootRestore, BootRecover, Recover, RecoverWalk, RecoverCard, RecoverValidation,
      RecoverWrongCard, Restore, RestoreTear, RestoreData
  <1>3. CASE Walk
    BY <1>3 DEF Walk, ScanUnused, ScanUsed, ScanNextByte, ScanEnd
  <1>4. CASE Save
    BY <1>4 DEF Save, SaveTear, SaveData, SaveId, SaveStatus
  <1>5. CASE Write
    BY <1>5 DEF Write, WriteIv, WriteData, ChunkOk
  <1>6. CASE Finish
    BY <1>6 DEF Finish, SetUpdateCard, SetValidation, TearValidation, WriteValidation, FreeData, FreeId
  <1>7. CASE CardIO
    BY <1>7 DEF CardIO, WriteTempKey, WriteTempKeyFails, WriteKey, WriteKeyFails
  <1>8. CASE Locked \/ Menu \/ RecoverAbort \/ Crash
    BY <1>8 DEF Locked, UnlockWithCard, OpenRecoveryMenu, EnterKey, Menu, EditCredential, ChangeKey, ForceCard, ForceEnter,
      RecoverAbort, Crash
  <1> QED
    BY <1>1, <1>2, <1>3, <1>4, <1>5, <1>6, <1>7, <1>8 DEF Next, Device

\* The record of an unfinished operation goes (backup_free) only when there is
\* nothing left to recover: the edited chunk reads, or the validation accepts
\* the card's key and every credential not left behind is under it.
THEOREM RecordKept ==
  ASSUME UseAfterAbort = FALSE, OneCard, ForcesNoKey
  PROVE  Spec => RecordDroppedWhenDone
  <1>1. ASSUME TypeInv, BackupInv, KeyInv, [Next]_vars
        PROVE  [backup.status # OK /\ backup'.status = OK =>
                  IF backup.status = UPDATE
                  THEN \A f \in Fields : chunk[backup.id][f] # Torn
                  ELSE /\ backup.status = VALIDATION
                       /\ \E d \in Cards : valid = cards[d].key
                       /\ NotUnder(valid) \subseteq leftBehind]_vars
    <2> SUFFICES ASSUME backup.status # OK, backup'.status = OK
                 PROVE  IF backup.status = UPDATE
                        THEN \A f \in Fields : chunk[backup.id][f] # Torn
                        ELSE /\ backup.status = VALIDATION
                             /\ \E d \in Cards : valid = cards[d].key
                             /\ NotUnder(valid) \subseteq leftBehind
      OBVIOUS
    <2>1. pc = "free_status"
      BY <1>1, DroppedByFree DEF FreeStatus
    <2>2. CASE backup.status = UPDATE
      <3>1. AllWhole /\ backup.id \in Used
        BY <1>1, <2>1, <2>2 DEF BackupInv, SettledWhole, Settled, BackupWhole
      <3> QED
        BY <2>2, <3>1 DEF AllWhole
    <2>3. CASE backup.status # UPDATE
      <3>1. backup.status = VALIDATION /\ KEY = TempKey /\ valid = KEY
        BY <1>1, <2>1, <2>3 DEF KeyInv, FinishKey
      <3>2. cards[card].key = valid /\ AllUnder(valid)
        BY <1>1, <3>1 DEF KeyInv, StoredKey
      <3>3. card \in Cards
        BY <1>1 DEF TypeInv, TypeOK
      <3>4. NotUnder(valid) \subseteq leftBehind
        BY <3>2 DEF NotUnder, AllUnder, Under
      <3> QED
        BY <2>3, <3>1, <3>2, <3>3, <3>4
    <2> QED
      BY <2>2, <2>3
  <1> QED
    BY <1>1, KeyInvariant, PTL DEF Spec, RecordDroppedWhenDone
=============================================================================
