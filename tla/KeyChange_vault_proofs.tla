------------------------ MODULE KeyChange_vault_proofs ------------------------
(***************************************************************************)
(* Proof that KeyChange implements CredentialVault, for a user with one    *)
(* card who forces no key: edits are atomic, key changes change nothing    *)
(* that can be read, and only whole credentials are lost, at the end of a  *)
(* change.                                                                 *)
(*                                                                         *)
(* What a credential shows is its Copy, as long as the copy's key is on    *)
(* the card (StepKeys, from KeyChange_proofs and the clauses below);       *)
(* so a step keeps what it shows when it keeps the plaintext of the Copy.  *)
(***************************************************************************)
EXTENDS KeyChange_proofs

\* The validation accepts the card until the key block of the card is written.
CardAccepted == backup.status \in {OK, UPDATE, CHANGE_KEY, CHUNK_OK} => valid = cards[card].key

Stored == Used \ leftBehind

\* The walk has not been past here: still the old key.
Ahead(n) == \A c \in Stored : c >= n => Under(c, valid)

AheadOfWalk ==
  /\ backup.status \in {CHANGE_KEY, CHUNK_OK} => Ahead(backup.id + 1)
  /\ pc \in {"scan"} \cup Saving /\ Changing => Ahead(At)
  /\ pc \in {"scan"} \cup Rewriting \cup {"restore_tear", "restore_data"} /\ Changing => KEY = valid
  /\ pc = "set_update_card" => backup.status \in {OK, CHUNK_OK}

CopyKeys ==
  /\ backup.status = CHANGE_KEY /\ backup.id \in Stored => \A f \in Fields : backup.data[f].key = valid
  /\ backup.status \in {CHANGE_KEY, CHUNK_OK} =>
       \A c \in Stored, f \in Fields : Copy(c)[f].key \in {valid, TempKey}

\* A chunk that is rewritten still shows, field by field, what its copy shows.
Moved(f) == chunk[pwd_id][f] = Enc(newKey, backup.data[f].val)
Unmoved(f) == chunk[pwd_id][f] = backup.data[f]

MoveValues ==
  /\ pc = "write_iv" /\ Changing /\ pwd_id \in Stored =>
       \A f \in Fields : IF field = "usr" /\ f = "pwd" THEN Moved(f) ELSE Unmoved(f)
  /\ pc = "write_data" /\ Changing /\ pwd_id \in Stored =>
       /\ buffer = backup.data[field].val
       /\ \A f \in Fields \ {field} : IF field = "usr" THEN Moved(f) ELSE Unmoved(f)
  /\ pc = "chunk_ok" /\ pwd_id \in Stored => \A f \in Fields : Moved(f)

EditValues ==
  /\ pc = "write_iv" /\ job = "edit" => \A f \in Fields : Unmoved(f)
  /\ pc = "write_data" /\ job = "edit" => \A f \in Fields \ {field} : Unmoved(f)
  /\ pc = "free_status" /\ job = "edit" =>
       /\ backup.id = pwd_id /\ buffer \in Values
       /\ \A f \in Fields : IF f = field THEN chunk[pwd_id][f].val = buffer ELSE Unmoved(f)
  /\ pc = "free_status" /\ job = "restore" => backup.id = pwd_id /\ \A f \in Fields : Unmoved(f)

ValueInv == CardAccepted /\ AheadOfWalk /\ CopyKeys /\ MoveValues /\ EditValues

VaultInv == TypeInv /\ BackupInv /\ WalkInv /\ KeyInv /\ ValueInv
-----------------------------------------------------------------------------
\* Ahead in the next state, of a number of either state.
AheadNext(m) == \A c \in Stored' : c >= m => \A f \in Fields : chunk'[c][f].key = valid'

CopyNext(c) == IF backup'.status \in {UPDATE, CHANGE_KEY} /\ backup'.id = c THEN backup'.data ELSE chunk'[c]

LEMMA StoredTypes == Stored \subseteq Used /\ Stored \subseteq Ids /\ Stored \subseteq Nat
  BY ConstantTypes DEF Stored

\* The walk moves on.
LEMMA ValueStepWalk ==
  ASSUME VaultInv, ScanUnused \/ ScanUsed \/ ScanNextByte
  PROVE  ValueInv'
  <1>a. TypeOK /\ TypeInv /\ ValueInv
    BY DEF VaultInv, TypeInv
  <1>b. /\ UNCHANGED <<chunk, backup, valid, cards, card, KEY, newKey, job, leftBehind, j>> \/ j' = j + 1
        /\ UNCHANGED <<chunk, backup, valid, cards, card, KEY, newKey, job, leftBehind>>
        /\ pc = "scan" /\ pc' \in {"scan", "save_tear"} /\ Changing
    BY <1>a DEF ScanUnused, ScanUsed, ScanNextByte, fram, history, TypeInv, KeyReady
  <1>c. At \in Nat /\ At' \in Nat /\ At' >= At
    <2>1. At \in Nat /\ BITS \in Nat
      BY <1>a, Place
    <2>2. CASE ScanUnused
      <3>1. At' = At + 1
        BY <1>a, <2>2, ConstantTypes DEF ScanUnused, At, TypeOK
      <3> QED
        BY <2>1, <3>1
    <2>3. CASE ScanUsed
      <3>1. At' = At
        BY <2>3 DEF ScanUsed, At
      <3> QED
        BY <2>1, <3>1
    <2>4. CASE ScanNextByte
      <3>1. At' = At + BITS
        BY <1>a, <2>4, ConstantTypes DEF ScanNextByte, At, TypeOK
      <3> QED
        BY <2>1, <3>1
    <2> QED
      BY <2>2, <2>3, <2>4
  <1>d. AheadNext(At')
    <2>1. Ahead(At)
      BY <1>a, <1>b DEF ValueInv, AheadOfWalk
    <2> QED
      BY <1>b, <1>c, <2>1, StoredTypes DEF Ahead, AheadNext, Under, Stored
  <1>e. AheadOfWalk'
    <2>1. backup.status \in {CHANGE_KEY, CHUNK_OK} => Ahead(backup.id + 1)'
      BY <1>a, <1>b DEF ValueInv, AheadOfWalk, Ahead, Under, Stored
    <2> QED
      BY <1>a, <1>b, <1>d, <2>1 DEF ValueInv, AheadOfWalk, Ahead, AheadNext, Under, Saving
  <1>f. CardAccepted' /\ CopyKeys' /\ MoveValues' /\ EditValues'
    BY <1>a, <1>b DEF ValueInv, CardAccepted, CopyKeys, MoveValues, EditValues, Stored, Copy, TempKey
  <1> QED
    BY <1>e, <1>f DEF ValueInv

\* backup_save keeps every copy: it writes only where no copy is read.
LEMMA SaveCopies ==
  ASSUME TypeInv, BackupInv, Save
  PROVE  /\ \A c \in Ids : CopyNext(c) = Copy(c)
         /\ UNCHANGED <<chunk, valid, cards, card, KEY, newKey, job, i, j, pwd_id, field, buffer, leftBehind>>
         /\ pc \in Saving /\ pwd_id \in Used
         /\ job = "edit" \/ Changing
  <1>a. TypeOK
    BY DEF TypeInv
  <1>b. /\ UNCHANGED <<chunk, valid, cards, card, KEY, newKey, job, i, j, pwd_id, field, buffer, leftBehind>>
        /\ pc \in Saving
    BY DEF Save, SaveTear, SaveData, SaveId, SaveStatus, Saving, ram, history
  <1>c. /\ pwd_id \in Used
        /\ \/ backup.status \in {OK, CHUNK_OK}
           \/ backup.status = CHANGE_KEY /\ backup.id = pwd_id /\ backup.data = chunk[pwd_id]
    BY <1>b DEF BackupInv, SaveOrder
  <1>d. job = "edit" \/ Changing
    BY <1>b DEF TypeInv, KeyReady, Rewriting, Saving, Changing
  <1>1. CASE SaveTear \/ SaveData
    <2>1. backup'.status = backup.status /\ backup'.id = backup.id
          /\ (backup.status = CHANGE_KEY => backup'.data = backup.data)
      BY <1>a, <1>1, <1>c DEF SaveTear, SaveData, TypeOK, OK, CHUNK_OK, CHANGE_KEY
    <2> QED
      BY <1>b, <1>c, <1>d, <2>1 DEF Copy, CopyNext, OK, UPDATE, CHUNK_OK, CHANGE_KEY
  <1>2. CASE SaveId
    <2>1. backup'.status = backup.status /\ backup'.id = pwd_id /\ backup'.data = backup.data
      BY <1>a, <1>2 DEF SaveId, TypeOK
    <2> QED
      BY <1>b, <1>c, <1>d, <2>1 DEF Copy, CopyNext, OK, UPDATE, CHUNK_OK, CHANGE_KEY
  <1>3. CASE SaveStatus
    <2>1. backup'.status \in {UPDATE, CHANGE_KEY} /\ backup'.id = backup.id /\ backup'.data = backup.data
      BY <1>a, <1>3 DEF SaveStatus, SetStatus, TypeOK
    <2>2. backup.id = pwd_id /\ backup.data = chunk[pwd_id]
      BY <1>3 DEF SaveStatus, BackupInv, SaveOrder
    <2> QED
      BY <1>b, <1>c, <1>d, <2>1, <2>2 DEF Copy, CopyNext, OK, UPDATE, CHUNK_OK, CHANGE_KEY
  <1> QED
    BY <1>1, <1>2, <1>3 DEF Save

LEMMA ValueStepSave ==
  ASSUME VaultInv, Save
  PROVE  ValueInv'
  <1>a. TypeOK /\ TypeInv /\ BackupInv /\ ValueInv /\ WalkInv /\ KeyInv
    BY DEF VaultInv, TypeInv
  <1>b. /\ \A c \in Ids : CopyNext(c) = Copy(c)
        /\ UNCHANGED <<chunk, valid, cards, card, KEY, newKey, job, i, j, pwd_id, field, buffer, leftBehind>>
        /\ pc \in Saving /\ pwd_id \in Used
        /\ job = "edit" \/ Changing
    BY <1>a, SaveCopies
  <1>c. pc' \in {"save_data", "save_id", "save_status", "write_iv"} /\ (pc' = "write_iv" <=> SaveStatus)
    BY DEF Save, SaveTear, SaveData, SaveId, SaveStatus
  <1>d. Changing => Ahead(At) /\ At = pwd_id /\ At \in Nat
    BY <1>a, <1>b, Place DEF ValueInv, AheadOfWalk, WalkInv, WalkPlace, Rewriting, Saving
  <1>e. job = "edit" => backup.status = OK
    BY <1>a, <1>b DEF BackupInv, SaveOrder, OK, CHUNK_OK, CHANGE_KEY
  <1>f. CASE SaveTear \/ SaveData \/ SaveId
    <2>1. /\ backup'.status = backup.status
          /\ backup'.id = backup.id \/ backup'.id = pwd_id
          /\ backup.status = CHANGE_KEY => backup'.id = backup.id /\ backup'.data = backup.data
      BY <1>a, <1>b, <1>f DEF SaveTear, SaveData, SaveId, TypeOK, BackupInv, SaveOrder, OK, CHUNK_OK, CHANGE_KEY
    <2>2. CardAccepted'
      BY <1>a, <1>b, <2>1 DEF ValueInv, CardAccepted
    <2>3. CopyKeys'
      <3>1. \A c \in Stored : CopyNext(c) = Copy(c)
        BY <1>b, StoredTypes
      <3> QED
        BY <1>a, <1>b, <2>1, <3>1 DEF ValueInv, CopyKeys, CopyNext, Copy, Stored, TempKey
    <2>4. AheadOfWalk'
      <3>1. backup.status \in {CHANGE_KEY, CHUNK_OK} => AheadNext(backup'.id + 1)
        <4> SUFFICES ASSUME backup.status \in {CHANGE_KEY, CHUNK_OK} PROVE AheadNext(backup'.id + 1)
          OBVIOUS
        <4>1. Changing
          BY <1>b, <1>e DEF OK, CHANGE_KEY, CHUNK_OK
        <4>2. CASE backup'.id = backup.id
          BY <1>a, <1>b, <4>2 DEF ValueInv, AheadOfWalk, Ahead, AheadNext, Under, Stored
        <4>3. CASE backup'.id = pwd_id
          BY <1>b, <1>d, <4>1, <4>3, StoredTypes DEF Ahead, AheadNext, Under, Stored
        <4> QED
          BY <2>1, <4>2, <4>3
      <3>2. At' = At
        BY <1>b DEF At
      <3> QED
        BY <1>a, <1>b, <1>c, <1>d, <2>1, <3>1, <3>2
        DEF ValueInv, AheadOfWalk, Ahead, AheadNext, Under, Stored, Changing, Rewriting, Saving
    <2>5. MoveValues' /\ EditValues'
      BY <1>c, <1>f DEF MoveValues, EditValues, SaveTear, SaveData, SaveId
    <2> QED
      BY <2>2, <2>3, <2>4, <2>5 DEF ValueInv
  <1>g. CASE SaveStatus
    <2>1. /\ backup'.status = (IF job = "edit" THEN UPDATE ELSE CHANGE_KEY)
          /\ backup'.id = pwd_id /\ backup'.data = chunk[pwd_id] /\ pc' = "write_iv"
      BY <1>a, <1>g DEF SaveStatus, SetStatus, TypeOK, BackupInv, SaveOrder
    <2>2. CardAccepted'
      <3>1. backup.status \in {OK, CHANGE_KEY, CHUNK_OK}
        BY <1>a, <1>b DEF BackupInv, SaveOrder
      <3> QED
        BY <1>a, <1>b, <3>1 DEF ValueInv, CardAccepted
    <2>3. CopyKeys'
      <3>1. job # "edit" /\ pwd_id \in Stored => \A f \in Fields : chunk[pwd_id][f].key = valid
        BY <1>b, <1>d, StoredTypes DEF Ahead, Under
      <3>2. \A c \in Stored : CopyNext(c) = Copy(c)
        BY <1>b, StoredTypes
      <3>3. job # "edit" => \A c \in Stored, f \in Fields : Copy(c)[f].key \in {valid, TempKey}
        <4>1. CASE backup.status \in {CHANGE_KEY, CHUNK_OK}
          BY <1>a, <4>1 DEF ValueInv, CopyKeys
        <4>2. CASE backup.status = OK
          BY <1>a, <4>2 DEF KeyInv, StoredKey, AllUnder, Under, Stored, Copy, OK, UPDATE, CHANGE_KEY
        <4> QED
          BY <1>a, <1>b, <4>1, <4>2 DEF BackupInv, SaveOrder
      <3> QED
        BY <1>b, <2>1, <3>1, <3>2, <3>3 DEF CopyKeys, CopyNext, Copy, Stored, TempKey, UPDATE, CHANGE_KEY, CHUNK_OK
    <2>4. AheadOfWalk'
      <3>1. job # "edit" => AheadNext(pwd_id + 1)
        BY <1>b, <1>d, StoredTypes DEF Ahead, AheadNext, Under, Stored
      <3> QED
        BY <1>a, <1>b, <2>1, <3>1
        DEF ValueInv, AheadOfWalk, Ahead, AheadNext, Under, Stored, Changing, Rewriting, Saving, UPDATE, CHANGE_KEY, CHUNK_OK
    <2>5. MoveValues' /\ EditValues'
      <3>1. Changing => field = "pwd"
        BY <1>a, <1>b DEF WalkInv, WalkFields
      <3> QED
        BY <1>b, <2>1, <3>1 DEF MoveValues, EditValues, Moved, Unmoved, Changing
    <2> QED
      BY <2>2, <2>3, <2>4, <2>5 DEF ValueInv
  <1> QED
    BY <1>f, <1>g DEF Save

\* The rewriting of one chunk.
LEMMA ValueStepWrite ==
  ASSUME VaultInv, Write
  PROVE  ValueInv'
  <1>a. TypeOK /\ TypeInv /\ BackupInv /\ ValueInv /\ WalkInv
    BY DEF VaultInv, TypeInv
  <1>b. /\ UNCHANGED <<valid, cards, card, KEY, newKey, job, i, pwd_id, leftBehind>>
        /\ pc \in {"write_iv", "write_data", "chunk_ok"}
        /\ pwd_id \in Ids /\ field \in Fields
        /\ \A c \in Ids \ {pwd_id} : chunk'[c] = chunk[c]
    BY <1>a DEF Write, WriteIv, WriteData, ChunkOk, TypeOK, history
  <1>c. /\ backup.id = pwd_id /\ backup.id \in Nat
        /\ backup.status = (IF job = "edit" THEN UPDATE ELSE CHANGE_KEY)
        /\ job \in {"edit", "change_key", "recover"}
    BY <1>a, <1>b, IdTypes DEF BackupInv, WriteOrder, TypeInv, KeyReady, Rewriting
  <1>d. Changing => KEY = valid /\ newKey = TempKey /\ At = pwd_id
    BY <1>a, <1>b DEF ValueInv, AheadOfWalk, WalkInv, WalkKey, WalkPlace, Rewriting
  <1>e. job # "edit" => AheadNext(pwd_id + 1)
    <2> SUFFICES ASSUME job # "edit" PROVE AheadNext(pwd_id + 1)
      OBVIOUS
    <2>1. Ahead(pwd_id + 1)
      BY <1>a, <1>c DEF ValueInv, AheadOfWalk
    <2>2. ASSUME NEW c \in Stored, c >= pwd_id + 1
          PROVE  chunk'[c] = chunk[c]
      BY <1>b, <1>c, <2>2, StoredTypes
    <2> QED
      BY <1>b, <2>1, <2>2 DEF Ahead, AheadNext, Under, Stored
  <1>f. CardAccepted'
    <2>1. backup'.status \in {backup.status, CHUNK_OK} /\ (job = "edit" => backup'.status = backup.status)
      BY <1>a DEF Write, WriteIv, WriteData, ChunkOk, SetStatus, TypeOK, TypeInv, KeyReady, Changing
    <2> QED
      BY <1>a, <1>b, <1>c, <2>1 DEF ValueInv, CardAccepted
  <1>g. CASE WriteIv \/ WriteData
    <2>1. /\ UNCHANGED <<backup, j>> /\ pc' \in {"write_data", "write_iv", "free_status", "chunk_ok"}
          /\ pc' = "free_status" => job = "edit"
      BY <1>g DEF WriteIv, WriteData
    <2>2. At' = At
      BY <1>b, <2>1 DEF At
    <2>3. AheadOfWalk'
      BY <1>b, <1>c, <1>d, <1>e, <2>1, <2>2
      DEF AheadOfWalk, Ahead, AheadNext, Under, Stored, Changing, Saving, Rewriting, OK, UPDATE, CHANGE_KEY, CHUNK_OK
    <2>4. CopyKeys'
      <3>1. \A c \in Stored : CopyNext(c) = Copy(c)
        BY <1>b, <1>c, <2>1, StoredTypes DEF CopyNext, Copy
      <3> QED
        BY <1>a, <1>b, <2>1, <3>1 DEF ValueInv, CopyKeys, CopyNext, Copy, Stored, TempKey
    <2>5. CASE WriteIv
      <3>1. /\ \A f \in Fields \ {field} : chunk'[pwd_id][f] = chunk[pwd_id][f]
            /\ pc = "write_iv" /\ pc' = "write_data" /\ field' = field
            /\ buffer' = IF job = "edit" THEN buffer ELSE Decrypt(chunk[pwd_id][field], KEY)
        BY <1>a, <1>b, <2>5 DEF WriteIv, TypeOK, Chunk
      <3>2. Changing /\ pwd_id \in Stored => buffer' = backup.data[field].val
        <4> SUFFICES ASSUME Changing, pwd_id \in Stored PROVE buffer' = backup.data[field].val
          OBVIOUS
        <4>1. chunk[pwd_id][field] = backup.data[field]
          BY <1>a, <1>b, <3>1 DEF ValueInv, MoveValues, Unmoved
        <4>2. backup.data[field].key = valid
          BY <1>a, <1>b, <1>c DEF ValueInv, CopyKeys, Changing
        <4> QED
          BY <1>d, <3>1, <4>1, <4>2 DEF Decrypt, Changing
      <3>3. MoveValues'
        <4>1. Changing /\ pwd_id \in Stored =>
                \A f \in Fields \ {field} : IF field = "usr" THEN Moved(f) ELSE Unmoved(f)
          BY <1>a, <1>b, <3>1 DEF ValueInv, MoveValues, Fields
        <4> QED
          BY <1>b, <2>1, <3>1, <3>2, <4>1 DEF MoveValues, Moved, Unmoved, Changing, Stored
      <3>4. EditValues'
        BY <1>a, <1>b, <2>1, <3>1 DEF ValueInv, EditValues, Unmoved
      <3> QED
        BY <1>f, <2>3, <2>4, <3>3, <3>4 DEF ValueInv
    <2>6. CASE WriteData
      <3>1. /\ \A f \in Fields \ {field} : chunk'[pwd_id][f] = chunk[pwd_id][f]
            /\ chunk'[pwd_id][field] = Enc(IF job = "edit" THEN KEY ELSE newKey, buffer)
            /\ pc = "write_data" /\ buffer' = buffer
            /\ IF job = "edit" THEN pc' = "free_status" /\ field' = field
               ELSE IF field = "pwd" THEN pc' = "write_iv" /\ field' = "usr"
               ELSE pc' = "chunk_ok" /\ field' = field
        BY <1>a, <1>b, <2>6 DEF WriteData, TypeOK, Chunk
      <3>2. CASE job = "edit"
        <4>1. buffer \in Values
          BY <1>a, <1>b, <3>2 DEF BackupInv, WriteOrder, Rewriting
        <4>2. chunk'[pwd_id][field].val = buffer
          BY <3>1 DEF Enc
        <4>3. \A f \in Fields \ {field} : Unmoved(f)
          BY <1>a, <3>1, <3>2 DEF ValueInv, EditValues
        <4>4. EditValues'
          BY <1>b, <1>c, <2>1, <3>1, <3>2, <4>1, <4>2, <4>3 DEF EditValues, Unmoved
        <4>5. MoveValues'
          BY <1>b, <3>1, <3>2 DEF MoveValues, Changing
        <4> QED
          BY <1>f, <2>3, <2>4, <4>4, <4>5 DEF ValueInv
      <3>3. CASE job # "edit"
        <4>1. Changing /\ EditValues'
          BY <1>b, <1>c, <2>1, <3>3 DEF EditValues, Changing
        <4>2. ASSUME pwd_id \in Stored
              PROVE  /\ chunk'[pwd_id][field] = Enc(newKey, backup.data[field].val)
                     /\ field = "usr" => chunk'[pwd_id]["pwd"] = Enc(newKey, backup.data["pwd"].val)
                     /\ field = "pwd" => chunk'[pwd_id]["usr"] = backup.data["usr"]
          <5>1. /\ buffer = backup.data[field].val
                /\ \A f \in Fields \ {field} : IF field = "usr" THEN Moved(f) ELSE Unmoved(f)
            BY <1>a, <3>1, <4>1, <4>2 DEF ValueInv, MoveValues
          <5> QED
            BY <3>1, <3>3, <5>1 DEF Moved, Unmoved, Fields
        <4>3. MoveValues'
          BY <1>b, <2>1, <3>1, <3>3, <4>2 DEF MoveValues, Moved, Unmoved, Fields, Stored
        <4> QED
          BY <1>f, <2>3, <2>4, <4>1, <4>3 DEF ValueInv
      <3> QED
        BY <3>2, <3>3
    <2> QED
      BY <1>g, <2>5, <2>6
  <1>h. CASE ChunkOk
    <2>1. /\ UNCHANGED chunk /\ pc = "chunk_ok" /\ pc' = "scan" /\ j' = j + 1
          /\ backup'.status = CHUNK_OK /\ backup'.id = backup.id
      BY <1>a, <1>h DEF ChunkOk, SetStatus, TypeOK
    <2>2. Changing /\ job # "edit"
      BY <1>a, <2>1 DEF TypeInv, KeyReady, Changing
    <2>3. At' = pwd_id + 1
      <3>1. At' = At + 1
        BY <1>a, <1>b, <2>1, ConstantTypes DEF At, TypeOK
      <3> QED
        BY <1>d, <2>2, <3>1
    <2>4. AheadOfWalk'
      BY <1>b, <1>c, <1>d, <1>e, <2>1, <2>2, <2>3
      DEF AheadOfWalk, Ahead, AheadNext, Under, Stored, Changing, Saving, CHANGE_KEY, CHUNK_OK
    <2>5. CopyKeys'
      <3>1. ASSUME NEW c \in Stored, NEW f \in Fields
            PROVE  chunk[c][f].key \in {valid, TempKey}
        <4>1. CASE c = pwd_id
          <5>1. chunk[pwd_id][f] = Enc(newKey, backup.data[f].val)
            BY <1>a, <2>1, <4>1 DEF ValueInv, MoveValues, Moved
          <5> QED
            BY <1>d, <2>2, <4>1, <5>1 DEF Enc
        <4>2. CASE c # pwd_id
          BY <1>a, <1>c, <2>2, <4>2 DEF ValueInv, CopyKeys, Copy
        <4> QED
          BY <4>1, <4>2
      <3> QED
        BY <1>b, <2>1, <3>1 DEF CopyKeys, Copy, Stored, TempKey, UPDATE, CHANGE_KEY, CHUNK_OK
    <2>6. MoveValues' /\ EditValues'
      BY <2>1 DEF MoveValues, EditValues
    <2> QED
      BY <1>f, <2>4, <2>5, <2>6 DEF ValueInv
  <1> QED
    BY <1>g, <1>h DEF Write

\* The recovery goes back to the walk, from the chunk it restored or the one
\* after.
LEMMA ValueStepRecover ==
  ASSUME VaultInv, RecoverWalk \/ RestoreData
  PROVE  ValueInv'
  <1>a. TypeOK /\ TypeInv /\ BackupInv /\ ValueInv
    BY DEF VaultInv, TypeInv
  <1>b. /\ UNCHANGED <<backup, valid, cards, card, job, leftBehind>>
        /\ backup.id \in Nat /\ backup.id \in Ids
    BY <1>a, IdTypes DEF RecoverWalk, RestoreData, fram, history, TypeOK
  <1>c. CASE RecoverWalk
    <2>1. /\ UNCHANGED chunk /\ job = "recover" /\ KEY' = valid
          /\ backup.status \in {CHANGE_KEY, CHUNK_OK}
          /\ pc' \in {"restore_tear", "scan"}
      BY <1>a, <1>c DEF RecoverWalk, KeyMatches, TypeInv, KeyReady, fram
    <2>2. pc' = "scan" => At' = backup.id + 1
      <3>1. pc' = "scan" => i' = (backup.id + 1) \div BITS /\ j' = (backup.id + 1) % BITS
        BY <1>c DEF RecoverWalk
      <3> QED
        BY <1>b, <3>1, Resumed DEF At
    <2>3. AheadNext(backup.id + 1)
      BY <1>a, <1>b, <2>1 DEF ValueInv, AheadOfWalk, Ahead, AheadNext, Under, Stored
    <2>4. AheadOfWalk'
      BY <1>b, <2>1, <2>2, <2>3 DEF AheadOfWalk, Ahead, AheadNext, Under, Stored, Saving
    <2>5. CardAccepted' /\ CopyKeys' /\ MoveValues' /\ EditValues'
      BY <1>a, <1>b, <2>1
      DEF ValueInv, CardAccepted, CopyKeys, MoveValues, EditValues, Stored, Copy, TempKey
    <2> QED
      BY <2>4, <2>5 DEF ValueInv
  <1>d. CASE RestoreData
    <2>1. /\ chunk'[pwd_id] = backup.data /\ \A c \in Ids \ {pwd_id} : chunk'[c] = chunk[c]
          /\ UNCHANGED <<KEY, pwd_id>> /\ pc = "restore_data"
          /\ pwd_id = backup.id
          /\ backup.status = IF job = "restore" THEN UPDATE ELSE CHANGE_KEY
          /\ IF job = "restore" THEN pc' = "free_status" ELSE pc' = "scan" /\ At' = backup.id
      <3>1. pwd_id = backup.id /\ backup.status = IF job = "restore" THEN UPDATE ELSE CHANGE_KEY
        BY <1>a, <1>d DEF RestoreData, BackupInv, Restoring
      <3>2. IF job = "restore" THEN pc' = "free_status"
            ELSE pc' = "scan" /\ i' = pwd_id \div BITS /\ j' = pwd_id % BITS
        BY <1>d DEF RestoreData
      <3>3. job # "restore" => At' = backup.id
        BY <1>b, <3>1, <3>2, Resumed DEF At
      <3> QED
        BY <1>a, <1>d, <3>1, <3>2, <3>3 DEF RestoreData, TypeOK
    <2>2. \A c \in Stored : CopyNext(c) = Copy(c)
      BY <1>b, <2>1, StoredTypes DEF CopyNext, Copy
    <2>3. CardAccepted' /\ CopyKeys'
      BY <1>a, <1>b, <2>2 DEF ValueInv, CardAccepted, CopyKeys, CopyNext, Copy, Stored, TempKey
    <2>4. backup.status = CHANGE_KEY => AheadNext(backup.id)
      <3> SUFFICES ASSUME backup.status = CHANGE_KEY, NEW c \in Stored, c >= backup.id, NEW f \in Fields
                   PROVE  chunk'[c][f].key = valid
        BY <1>b DEF AheadNext, Stored
      <3>1. CASE c = backup.id
        BY <1>a, <2>1, <3>1 DEF ValueInv, CopyKeys
      <3>2. CASE c # backup.id
        <4>1. c >= backup.id + 1 /\ c \in Ids
          BY <1>b, <3>2, StoredTypes
        <4>2. chunk[c][f].key = valid
          BY <1>a, <4>1 DEF ValueInv, AheadOfWalk, Ahead, Under
        <4> QED
          BY <2>1, <3>2, <4>1, <4>2
      <3> QED
        BY <3>1, <3>2
    <2>5. backup.status = CHANGE_KEY => AheadNext(backup.id + 1)
      BY <1>b, <2>4, StoredTypes DEF AheadNext, Stored
    <2>6. Changing => KEY = valid
      BY <1>a, <2>1 DEF ValueInv, AheadOfWalk
    <2>7. AheadOfWalk'
      BY <1>b, <2>1, <2>4, <2>5, <2>6
      DEF AheadOfWalk, Ahead, AheadNext, Under, Stored, Changing, Saving, Rewriting, UPDATE, CHANGE_KEY, CHUNK_OK
    <2>8. MoveValues' /\ EditValues'
      BY <1>b, <2>1 DEF MoveValues, EditValues, Unmoved
    <2> QED
      BY <2>3, <2>7, <2>8 DEF ValueInv
  <1> QED
    BY <1>c, <1>d

LEMMA ValueStep ==
  ASSUME UseAfterAbort = FALSE, OneCard, ForcesNoKey, VaultInv, [Next]_vars
  PROVE  ValueInv'
  <1>a. card' = card
    BY CardKept DEF VaultInv
  <1> USE <1>a, ConstantTypes, Place DEF ValueInv, CardAccepted, AheadOfWalk, CopyKeys, MoveValues, EditValues, Stored, Ahead, Copy,
        Moved, Unmoved,
        VaultInv, KeyInv, StoredKey, EditKey, FinishKey, AllUnder, Under, Undoing, TempKey, ForcesNoKey,
        BackupInv, SettledWhole, Restoring, Walking, SaveOrder, WriteOrder, Saving,
        TypeInv, TypeOK, KeyReady, Rewriting, Changing, WalkInv, WalkKey,
        OK, UPDATE, CHANGE_KEY, CHUNK_OK, UPDATE_CARD, VALIDATION, fram, ram, history
  <1>1. CASE BootClean
    BY <1>1 DEF BootClean
  <1>2. CASE BootRestore
    BY <1>2 DEF BootRestore
  <1>3. CASE RecoverAbort
    BY <1>3 DEF RecoverAbort, ReturnTo
  <1>4. CASE RecoverWrongCard
    BY <1>4 DEF RecoverWrongCard, ReturnTo
  <1>5. CASE RecoverWalk
    BY <1>5, ValueStepRecover
  <1>6. CASE RecoverCard
    BY <1>6 DEF RecoverCard
  <1>7. CASE RecoverValidation
    BY <1>7 DEF RecoverValidation
  <1>8. CASE RestoreTear
    BY <1>8 DEF RestoreTear
  <1>9. CASE RestoreData
    BY <1>9, ValueStepRecover
  <1>10. CASE OpenRecoveryMenu
    BY <1>10 DEF OpenRecoveryMenu
  <1>11. CASE ScanUnused
    BY <1>11, ValueStepWalk
  <1>12. CASE ScanUsed
    BY <1>12, ValueStepWalk
  <1>13. CASE ScanNextByte
    BY <1>13, ValueStepWalk
  <1>14. CASE ScanEnd
    BY <1>14 DEF ScanEnd
  <1>15. CASE SaveTear
    BY <1>15, ValueStepSave DEF Save
  <1>16. CASE SaveData
    BY <1>16, ValueStepSave DEF Save
  <1>17. CASE SaveId
    BY <1>17, ValueStepSave DEF Save
  <1>18. CASE SaveStatus
    BY <1>18, ValueStepSave DEF Save
  <1>19. CASE WriteIv
    BY <1>19, ValueStepWrite DEF Write
  <1>20. CASE WriteData
    BY <1>20, ValueStepWrite DEF Write
  <1>21. CASE ChunkOk
    BY <1>21, ValueStepWrite DEF Write
  <1>22. CASE SetUpdateCard
    BY <1>22 DEF SetUpdateCard, SetStatus
  <1>23. CASE SetValidation
    BY <1>23 DEF SetValidation, SetStatus
  <1>24. CASE TearValidation
    BY <1>24 DEF TearValidation
  <1>25. CASE WriteValidation
    BY <1>25 DEF WriteValidation
  <1>26. CASE FreeStatus
    BY <1>26 DEF FreeStatus, SetStatus
  <1>27. CASE FreeData
    BY <1>27 DEF FreeData
  <1>28. CASE FreeId
    BY <1>28 DEF FreeId, ReturnTo
  <1>29. CASE WriteTempKey
    BY <1>29 DEF WriteTempKey
  <1>30. CASE WriteTempKeyFails
    BY <1>30 DEF WriteTempKeyFails, ReturnTo
  <1>31. CASE WriteKey
    BY <1>31 DEF WriteKey
  <1>32. CASE WriteKeyFails
    BY <1>32 DEF WriteKeyFails, ReturnTo
  <1>33. CASE Crash
    BY <1>33 DEF Crash, ReturnTo
  <1>34. ASSUME NEW d \in Cards, BootRecover(d)
        PROVE  ValueInv'
    BY <1>34 DEF BootRecover
  <1>35. ASSUME NEW d \in Cards, UnlockWithCard(d)
        PROVE  ValueInv'
    BY <1>35 DEF UnlockWithCard
  <1>36. ASSUME NEW k \in Keys \cup {KEY}, EnterKey(k)
        PROVE  ValueInv'
    BY <1>36 DEF EnterKey
  <1>37. ASSUME NEW c \in Used, NEW f \in Fields, NEW v \in Values, EditCredential(c, f, v)
        PROVE  ValueInv'
    BY <1>37 DEF EditCredential, UserMay
  <1>38. ASSUME NEW k \in Keys, NEW d \in Cards, ChangeKey(k, d)
        PROVE  ValueInv'
    BY <1>38 DEF ChangeKey, UserMay
  <1>39. ASSUME NEW d \in Cards, ForceCard(d)
        PROVE  ValueInv'
    BY <1>39 DEF ForceCard, UserMay
  <1>40. ASSUME NEW k \in Keys, ForceEnter(k)
        PROVE  ValueInv'
    BY <1>40 DEF ForceEnter, UserMay
  <1>41. CASE UNCHANGED vars
    BY <1>41 DEF vars, At
  <1> QED
    BY <1>1, <1>2, <1>3, <1>4, <1>5, <1>6, <1>7, <1>8, <1>9, <1>10, <1>11, <1>12, <1>13, <1>14, <1>15, <1>16, <1>17, <1>18, <1>19, <1>20, <1>21, <1>22, <1>23, <1>24, <1>25, <1>26, <1>27, <1>28, <1>29, <1>30, <1>31, <1>32, <1>33, <1>34, <1>35, <1>36, <1>37, <1>38, <1>39, <1>40, <1>41
    DEF Next, Device, Boot, Recover, Restore, Locked, Menu, Walk, Save, Write, Finish, CardIO
\* On an initialised wallet the only card is accepted, and nothing runs.
LEMMA ValueInit == OneCard /\ Init => ValueInv
  <1> SUFFICES ASSUME OneCard, Init PROVE ValueInv
    OBVIOUS
  <1>1. PICK d \in Cards : valid = cards[d].key
    BY DEF Init
  <1>2. backup.status = OK /\ pc = "boot" /\ job = "none" /\ card = d
    BY SameCard DEF Init
  <1>3. CardAccepted /\ CopyKeys
    BY <1>1, <1>2 DEF CardAccepted, CopyKeys, OK, CHANGE_KEY, CHUNK_OK
  <1>4. AheadOfWalk
    BY <1>2 DEF AheadOfWalk, Saving, Rewriting, OK, CHANGE_KEY, CHUNK_OK
  <1>5. MoveValues /\ EditValues
    BY <1>2 DEF MoveValues, EditValues
  <1> QED
    BY <1>3, <1>4, <1>5 DEF ValueInv

LEMMA VaultInvariant ==
  ASSUME UseAfterAbort = FALSE, OneCard, ForcesNoKey
  PROVE  Spec => []VaultInv
  <1>1. VaultInv /\ [Next]_vars => ValueInv'
    BY ValueStep
  <1>2. Init => ValueInv
    BY ValueInit
  <1>3. VaultInv <=> TypeInv /\ BackupInv /\ WalkInv /\ KeyInv /\ ValueInv
    BY DEF VaultInv
  <1>4. (TypeInv /\ BackupInv /\ WalkInv /\ KeyInv)' /\ ValueInv' => VaultInv'
    BY DEF VaultInv
  <1> QED
    BY <1>1, <1>2, <1>3, <1>4, KeyInvariant, PTL DEF Spec
-----------------------------------------------------------------------------
\* Every credential not left behind can be read with the card, from its chunk or
\* from the copy that stands for it.
Shown == \A c \in Stored, f \in Fields : OnCard(Copy(c)[f].key)

LEMMA CopiesOnCard == VaultInv => Shown
  <1> SUFFICES ASSUME VaultInv, NEW c \in Stored, NEW f \in Fields PROVE OnCard(Copy(c)[f].key)
    BY DEF Shown
  <1>a. TypeOK /\ ValueInv /\ KeyInv
    BY DEF VaultInv, TypeInv
  <1>1. card \in Cards /\ OnCard(cards[card].key) /\ OnCard(TempKey)
    BY <1>a DEF TypeOK, OnCard, TempKey
  <1>2. CASE backup.status \in {OK, UPDATE}
    <2>1. Copy(c)[f].key = valid
      BY <1>a, <1>2 DEF KeyInv, StoredKey, AllUnder, Under, Copy, Stored, OK, UPDATE, CHANGE_KEY
    <2> QED
      BY <1>a, <1>1, <1>2, <2>1 DEF ValueInv, CardAccepted
  <1>3. CASE backup.status \in {CHANGE_KEY, CHUNK_OK}
    <2>1. Copy(c)[f].key \in {valid, TempKey} /\ valid = cards[card].key
      BY <1>a, <1>3 DEF ValueInv, CopyKeys, CardAccepted
    <2> QED
      BY <1>1, <2>1
  <1>4. CASE backup.status \in {UPDATE_CARD, VALIDATION}
    <2>1. Copy(c)[f].key = TempKey
      BY <1>a, <1>4
      DEF KeyInv, StoredKey, AllUnder, Under, Copy, Stored, UPDATE, CHANGE_KEY, UPDATE_CARD, VALIDATION
    <2> QED
      BY <1>1, <2>1
  <1>5. backup.status \in {OK, UPDATE, CHANGE_KEY, CHUNK_OK, UPDATE_CARD, VALIDATION}
    BY <1>a DEF TypeOK, Statuses, OK, UPDATE, CHANGE_KEY, CHUNK_OK, UPDATE_CARD, VALIDATION
  <1> QED
    BY <1>2, <1>3, <1>4, <1>5
-----------------------------------------------------------------------------
(***************************************************************************)
(* The steps of the wallet are steps of the vault, or leave it alone.      *)
(***************************************************************************)
\* A step shows the same when it keeps the plaintext of every copy.
SameCopies == \A c \in Stored, f \in Fields : (Copy(c)[f].val)' = Copy(c)[f].val

LEMMA SameVault ==
  ASSUME Shown, Shown', UNCHANGED leftBehind, SameCopies
  PROVE  UNCHANGED Vault!vars
  <1>1. ASSUME NEW c \in Used, NEW f \in Fields
        PROVE  Readable(c, f)' = Readable(c, f)
    <2>1. CASE c \in leftBehind
      BY <2>1 DEF Readable
    <2>2. CASE c \in Stored
      BY <2>2 DEF Readable, Shown, SameCopies, Stored
    <2> QED
      BY <2>1, <2>2 DEF Stored
  <1> QED
    BY <1>1 DEF Vault!vars

\* A step that writes neither the chunks nor the backup section.
LEMMA FramKept ==
  ASSUME UNCHANGED fram
  PROVE  SameCopies
  BY DEF fram, SameCopies, Copy

\* The actions that do not touch the FRAM.
Idle ==
  \/ Boot \/ Recover \/ RecoverAbort \/ Locked \/ Menu \/ CardIO \/ Crash
  \/ ScanUnused \/ ScanUsed \/ ScanNextByte
  \/ TearValidation \/ WriteValidation

LEMMA VaultIdle ==
  ASSUME Idle
  PROVE  UNCHANGED fram /\ UNCHANGED leftBehind
  <1> USE DEF fram, history
  <1>1. CASE Boot \/ Recover \/ RecoverAbort
    BY <1>1 DEF Boot, BootClean, BootRestore, BootRecover, Recover, RecoverWalk, RecoverCard, RecoverValidation,
      RecoverWrongCard, RecoverAbort
  <1>2. CASE Locked \/ Menu
    BY <1>2 DEF Locked, UnlockWithCard, OpenRecoveryMenu, EnterKey, Menu, EditCredential, ChangeKey, ForceCard, ForceEnter
  <1>3. CASE CardIO \/ Crash
    BY <1>3 DEF CardIO, WriteTempKey, WriteTempKeyFails, WriteKey, WriteKeyFails, Crash
  <1>4. CASE ScanUnused \/ ScanUsed \/ ScanNextByte \/ TearValidation \/ WriteValidation
    BY <1>4 DEF ScanUnused, ScanUsed, ScanNextByte, TearValidation, WriteValidation
  <1> QED
    BY <1>1, <1>2, <1>3, <1>4 DEF Idle

\* A chunk is written only while its copy stands for it, and the copy stops
\* standing for it when the chunk shows the same.
LEMMA VaultWrite ==
  ASSUME VaultInv, Restore \/ Write
  PROVE  SameCopies /\ UNCHANGED leftBehind
  <1>a. TypeOK /\ TypeInv /\ BackupInv /\ ValueInv
    BY DEF VaultInv, TypeInv
  <1>b. UNCHANGED leftBehind
    BY DEF Restore, RestoreTear, RestoreData, Write, WriteIv, WriteData, ChunkOk, history
  <1>1. CASE Restore \/ WriteIv \/ WriteData
    <2>1. /\ backup' = backup /\ pwd_id = backup.id /\ backup.status \in {UPDATE, CHANGE_KEY}
          /\ \A c \in Ids \ {pwd_id} : chunk'[c] = chunk[c]
      <3>1. CASE Restore
        BY <1>a, <3>1 DEF Restore, RestoreTear, RestoreData, BackupInv, Restoring, TypeOK
      <3>2. CASE WriteIv \/ WriteData
        BY <1>a, <3>2 DEF WriteIv, WriteData, BackupInv, WriteOrder, TypeOK
      <3> QED
        BY <1>1, <3>1, <3>2
    <2>2. \A c \in Stored : CopyNext(c) = Copy(c)
      BY <2>1, StoredTypes DEF CopyNext, Copy
    <2> QED
      BY <1>b, <2>2 DEF SameCopies, CopyNext, Copy
  <1>2. CASE ChunkOk
    <2>1. /\ UNCHANGED chunk /\ pc = "chunk_ok" /\ backup'.status = CHUNK_OK /\ job # "edit"
          /\ backup.id = pwd_id /\ backup.status = CHANGE_KEY
      BY <1>a, <1>2 DEF ChunkOk, SetStatus, TypeOK, TypeInv, KeyReady, Changing, BackupInv, WriteOrder
    <2>2. ASSUME NEW c \in Stored, NEW f \in Fields
          PROVE  chunk[c][f].val = Copy(c)[f].val
      <3>1. CASE c = pwd_id
        <4>1. chunk[pwd_id][f] = Enc(newKey, backup.data[f].val)
          BY <1>a, <2>1, <3>1 DEF ValueInv, MoveValues, Moved
        <4> QED
          BY <2>1, <3>1, <4>1 DEF Copy, Enc
      <3>2. CASE c # pwd_id
        BY <2>1, <3>2 DEF Copy
      <3> QED
        BY <3>1, <3>2
    <2> QED
      BY <1>b, <2>1, <2>2 DEF SameCopies, Copy, UPDATE, CHANGE_KEY, CHUNK_OK
  <1> QED
    BY <1>1, <1>2 DEF Write

LEMMA VaultSave ==
  ASSUME VaultInv, Save
  PROVE  SameCopies /\ UNCHANGED leftBehind
  <1>1. /\ \A c \in Ids : CopyNext(c) = Copy(c)
        /\ UNCHANGED leftBehind
    BY SaveCopies DEF VaultInv
  <1> QED
    BY <1>1, StoredTypes DEF SameCopies, CopyNext, Copy

\* The end of an operation, but for the status byte of an edit.
LEMMA VaultFinish ==
  ASSUME VaultInv, SetUpdateCard \/ SetValidation \/ FreeData \/ FreeId \/ (FreeStatus /\ job # "edit")
  PROVE  SameCopies /\ UNCHANGED leftBehind
  <1>a. TypeOK /\ TypeInv /\ BackupInv /\ ValueInv /\ KeyInv
    BY DEF VaultInv, TypeInv
  <1>b. UNCHANGED <<chunk, leftBehind>>
    BY DEF SetUpdateCard, SetValidation, FreeData, FreeId, FreeStatus, ReturnTo, history
  <1>1. CASE SetUpdateCard \/ SetValidation \/ FreeData \/ FreeId
    <2>1. backup.status \notin {UPDATE, CHANGE_KEY} /\ backup'.status \notin {UPDATE, CHANGE_KEY}
      BY <1>a, <1>1 DEF SetUpdateCard, SetValidation, FreeData, FreeId, SetStatus, TypeOK, ValueInv, AheadOfWalk, KeyInv, FinishKey,
        BackupInv, WriteOrder, OK, UPDATE, CHANGE_KEY, CHUNK_OK, UPDATE_CARD, VALIDATION
    <2> QED
      BY <1>b, <2>1 DEF SameCopies, Copy
  <1>2. CASE FreeStatus /\ job # "edit"
    <2>1. pc = "free_status" /\ backup'.status = OK
      BY <1>a, <1>2 DEF FreeStatus, SetStatus, TypeOK
    <2>2. CASE job = "restore"
      <3>1. backup.id = pwd_id /\ \A f \in Fields : chunk[pwd_id][f] = backup.data[f]
        BY <1>a, <2>1, <2>2 DEF ValueInv, EditValues, Unmoved
      <3> QED
        BY <1>b, <2>1, <3>1 DEF SameCopies, Copy, OK, UPDATE, CHANGE_KEY
    <2>3. CASE job # "restore"
      <3>1. backup.status = VALIDATION
        BY <1>a, <1>2, <2>1, <2>3 DEF KeyInv, FinishKey, Undoing
      <3> QED
        BY <1>b, <2>1, <3>1 DEF SameCopies, Copy, OK, UPDATE, CHANGE_KEY, VALIDATION
    <2> QED
      BY <2>2, <2>3
  <1> QED
    BY <1>1, <1>2

\* The status byte of an edit: the field is replaced, in one step.
LEMMA VaultEdit ==
  ASSUME VaultInv, Shown, Shown', FreeStatus, job = "edit"
  PROVE  [Vault!Next]_Vault!vars
  <1>a. TypeOK /\ TypeInv /\ BackupInv /\ ValueInv /\ KeyInv
    BY DEF VaultInv, TypeInv
  <1>1. /\ UNCHANGED <<chunk, leftBehind>> /\ pc = "free_status"
        /\ backup'.status = OK /\ backup.status = UPDATE
        /\ backup.id = pwd_id /\ buffer \in Values /\ field \in Fields
        /\ \A f \in Fields : IF f = field THEN chunk[pwd_id][f].val = buffer ELSE chunk[pwd_id][f] = backup.data[f]
    <2>1. /\ UNCHANGED <<chunk, leftBehind>> /\ pc = "free_status" /\ backup'.status = OK /\ field \in Fields
      BY <1>a DEF FreeStatus, SetStatus, TypeOK, history
    <2>2. backup.status = UPDATE
      BY <1>a, <2>1 DEF KeyInv, FinishKey, Undoing
    <2>3. /\ backup.id = pwd_id /\ buffer \in Values
          /\ \A f \in Fields : IF f = field THEN chunk[pwd_id][f].val = buffer ELSE chunk[pwd_id][f] = backup.data[f]
      BY <1>a, <2>1 DEF ValueInv, EditValues, Unmoved
    <2> QED
      BY <2>1, <2>2, <2>3
  <1>2. pwd_id \in Used
    BY <1>a, <1>1 DEF BackupInv, BackupWhole, UPDATE
  <1>3. ASSUME NEW c \in Stored, NEW f \in Fields
        PROVE  (Copy(c)[f].val)' = IF c = pwd_id /\ f = field THEN buffer ELSE Copy(c)[f].val
    BY <1>1 DEF Copy, OK, UPDATE, CHANGE_KEY
  <1>4. CASE pwd_id \in leftBehind
    <2>1. SameCopies
      BY <1>3, <1>4 DEF SameCopies, Stored
    <2> QED
      BY <1>1, <2>1, SameVault
  <1>5. CASE pwd_id \notin leftBehind
    <2>1. ASSUME NEW c \in Used, NEW f \in Fields
          PROVE  Readable(c, f)' = IF c = pwd_id /\ f = field THEN buffer ELSE Readable(c, f)
      <3>1. CASE c \in leftBehind
        BY <1>1, <1>5, <3>1 DEF Readable
      <3>2. CASE c \in Stored
        <4>1. Readable(c, f)' = (Copy(c)[f].val)' /\ Readable(c, f) = Copy(c)[f].val
          BY <1>1, <3>2 DEF Readable, Shown, Stored
        <4> QED
          BY <1>3, <3>2, <4>1
      <3> QED
        BY <3>1, <3>2 DEF Stored
    <2>2. Vault!Edit(pwd_id, field, buffer)
      <3> DEFINE shows(c) == [f \in Fields |-> Readable(c, f)]
      <3>1. ASSUME NEW c \in Used
            PROVE  shows(c)' = IF c = pwd_id THEN [shows(c) EXCEPT ![field] = buffer] ELSE shows(c)
        BY <1>1, <2>1
      <3>2. [c \in Used |-> shows(c)]' = [[c \in Used |-> shows(c)] EXCEPT ![pwd_id] = [shows(pwd_id) EXCEPT ![field] = buffer]]
        <4> HIDE DEF shows
        <4> QED
          BY <1>2, <3>1
      <3>3. [c \in Used |-> shows(c)][pwd_id] = shows(pwd_id)
        BY <1>2
      <3>4. [c \in Used |-> shows(c)]' = [[c \in Used |-> shows(c)] EXCEPT ![pwd_id][field] = buffer]
        BY <3>2, <3>3
      <3> QED
        BY <1>1, <1>5, <3>4 DEF Vault!Edit
    <2> QED
      BY <1>1, <1>2, <2>2 DEF Vault!Next
  <1> QED
    BY <1>4, <1>5

\* The end of the walk: what was not moved to the new key is given up.
LEMMA VaultForget ==
  ASSUME Shown, Shown', ScanEnd
  PROVE  [Vault!Next]_Vault!vars
  <1>1. UNCHANGED fram /\ leftBehind' = leftBehind \cup NotUnder(newKey) /\ NotUnder(newKey) \subseteq Used
    BY DEF ScanEnd, NotUnder
  <1>2. ASSUME NEW c \in Used, NEW f \in Fields
        PROVE  Readable(c, f)' = IF c \in NotUnder(newKey) THEN Lost ELSE Readable(c, f)
    <2>1. CASE c \in leftBehind'
      BY <1>1, <2>1 DEF Readable
    <2>2. CASE c \notin leftBehind'
      <3>1. c \in Stored /\ c \in Stored' /\ c \notin NotUnder(newKey)
        BY <1>1, <2>2 DEF Stored
      <3>2. Readable(c, f)' = (Copy(c)[f].val)' /\ Readable(c, f) = Copy(c)[f].val
        BY <2>2, <3>1 DEF Readable, Shown, Stored
      <3>3. (Copy(c)[f].val)' = Copy(c)[f].val
        BY <1>1, <3>1, FramKept DEF SameCopies
      <3> QED
        BY <3>1, <3>2, <3>3
    <2> QED
      BY <2>1, <2>2
  <1>3. Vault!Forget(NotUnder(newKey))
    BY <1>1, <1>2 DEF Vault!Forget
  <1> QED
    BY <1>1, <1>3 DEF Vault!Next

LEMMA VaultStep ==
  ASSUME VaultInv, Shown, Shown', [Next]_vars
  PROVE  [Vault!Next]_Vault!vars
  <1>1. CASE UNCHANGED vars
    <2>1. UNCHANGED fram /\ UNCHANGED leftBehind
      BY <1>1 DEF vars, fram
    <2> QED
      BY <2>1, FramKept, SameVault
  <1>2. CASE Idle
    BY <1>2, VaultIdle, FramKept, SameVault
  <1>3. CASE Restore \/ Write
    BY <1>3, VaultWrite, SameVault
  <1>4. CASE Save
    BY <1>4, VaultSave, SameVault
  <1>5. CASE SetUpdateCard \/ SetValidation \/ FreeData \/ FreeId \/ (FreeStatus /\ job # "edit")
    BY <1>5, VaultFinish, SameVault
  <1>6. CASE FreeStatus /\ job = "edit"
    BY <1>6, VaultEdit
  <1>7. CASE ScanEnd
    BY <1>7, VaultForget
  <1> QED
    BY <1>1, <1>2, <1>3, <1>4, <1>5, <1>6, <1>7 DEF Next, Device, Walk, Finish, Idle

\* An initialised wallet is a vault.
LEMMA VaultInit == Init => Vault!Init
  <1> SUFFICES ASSUME Init PROVE Vault!Init
    OBVIOUS
  <1>1. PICK d \in Cards, v \in Values :
        /\ valid = cards[d].key
        /\ chunk = [c \in Ids |-> [f \in Fields |->
                      IF c \in Used THEN Enc(valid, v) ELSE Torn]]
    BY DEF Init
  <1>2. ASSUME NEW c \in Used, NEW f \in Fields
        PROVE  Readable(c, f) = v
    <2>1. Copy(c)[f].key = cards[d].key /\ Copy(c)[f].val = v
      BY <1>1, ConstantTypes DEF Init, Copy, Enc, OK, UPDATE, CHANGE_KEY
    <2>2. OnCard(Copy(c)[f].key)
      BY <2>1 DEF OnCard
    <2> QED
      BY <2>1, <2>2 DEF Init, Readable
  <1>3. leftBehind = {}
    BY DEF Init
  <1> QED
    BY <1>2, <1>3 DEF Vault!Init

\* What a user with one card sees of the wallet is the abstract vault, for
\* every number of credentials, keys, values and power losses: edits are atomic
\* (backup_save, backup_restore), key changes invisible (encryption_update_key,
\* backup_recover), and what is lost is whole credentials, when a walk ends.
THEOREM WalletIsVault ==
  ASSUME UseAfterAbort = FALSE, OneCard, ForcesNoKey
  PROVE  Spec => ImplementsVault
  <1>1. VaultInv /\ Shown /\ Shown' /\ [Next]_vars => [Vault!Next]_Vault!vars
    BY VaultStep
  <1> QED
    BY <1>1, VaultInit, CopiesOnCard, VaultInvariant, PTL DEF Spec, ImplementsVault, Vault!Spec
=============================================================================
