----------------------------- MODULE KeyChange -----------------------------
(***************************************************************************)
(* Custody of the master key across power loss.                            *)
(*                                                                         *)
(* The wallet keeps every credential in a chunk of its FRAM.  Two fields   *)
(* of a chunk are encrypted with the master key: the password and the user *)
(* name.  The key itself lives on an RFID card; the EEPROM only holds a    *)
(* validation (a random sequence and its encryption) telling a right key   *)
(* from a wrong one.  Changing the key re-encrypts the chunks one by one   *)
(* (encryption_update_key), a one-chunk backup section of the FRAM guards  *)
(* the chunk being rewritten (backup_save, backup_free), and a status byte *)
(* tells the next boot where to resume (backup_recover).                   *)
(*                                                                         *)
(* Each action below is one persistent write of that code (or the RAM-only *)
(* decision between two writes), so that Crash, which may come between any *)
(* two of them, leaves the memories exactly as a power loss there would.   *)
(* A write of several bytes is two actions: the target is first Torn.      *)
(*                                                                         *)
(* FRAM, EEPROM and card survive Crash; KEY, newKey and every local of the *)
(* C functions are RAM and do not.                                         *)
(***************************************************************************)
EXTENDS Integers

CONSTANTS
  SIZE_MEMORY_MAP,        \* bytes of the memory map
  BITS,                   \* chunks per byte of the memory map (8 in the code)
  MAXIMUM_NUMBER_OF_PWD,  \* chunk slots
  Used,                   \* chunks whose bit is set in the memory map
  Keys,                   \* 16-byte keys
  NoKey,                  \* a zeroed or half-written key: opens nothing
  Cards,                  \* the RFID cards the user owns
  Values,                 \* plaintexts
  Lost,                   \* what decrypting with a wrong key yields
  Ops,                    \* operations the user performs, a subset of OpNames
  UseAfterAbort           \* TRUE: the user goes on working on an unlocked wallet
                          \* whose recovery was aborted, instead of rebooting it

Ids == 0 .. MAXIMUM_NUMBER_OF_PWD - 1
OpNames == {"edit", "change_key", "force_card", "force_enter"}

ASSUME SizesAssumption ==
  /\ SIZE_MEMORY_MAP \in Nat \ {0}
  /\ BITS \in Nat \ {0}
  /\ MAXIMUM_NUMBER_OF_PWD \in Nat \ {0}
  /\ MAXIMUM_NUMBER_OF_PWD <= SIZE_MEMORY_MAP * BITS
  /\ Used \subseteq Ids

ASSUME DataAssumption ==
  /\ NoKey \notin Keys
  /\ Lost \notin Values
  /\ Ops \subseteq OpNames
  /\ UseAfterAbort \in BOOLEAN

(***************************************************************************)
(* The status byte of the backup section (Backup.h).                       *)
(***************************************************************************)
OK == 0
UPDATE == 1
CHANGE_KEY == 2
CHUNK_OK == 3
UPDATE_CARD == 4
VALIDATION == 5
Statuses == OK .. VALIDATION

(***************************************************************************)
(* An encrypted field is known by the key that opens it and the plaintext  *)
(* it then shows; a half-written one opens with no key.                    *)
(***************************************************************************)
Fields == {"pwd", "usr"}
Enc(k, v) == [key |-> k, val |-> v]
Torn == Enc(NoKey, Lost)
TornChunk == [f \in Fields |-> Torn]
Cipher == [key : Keys \cup {NoKey}, val : Values \cup {Lost}]
Chunk == [Fields -> Cipher]

\* read_and_decrypt: a field of another key decrypts to noise.
Decrypt(c, k) == IF c.key = k THEN c.val ELSE Lost

VARIABLES
  chunk,      \* FRAM: the encrypted fields of every chunk
  backup,     \* FRAM: backup section, status byte, chunk id and chunk copy
  valid,      \* EEPROM: the key the validation accepts (NoKey: none)
  cards,      \* the two key blocks of every card
  KEY,        \* RAM: the master key
  newKey,     \* RAM: the key being installed
  card,       \* the card on the reader
  job,        \* which operation runs
  pc,         \* where it stands
  i, j,       \* RAM: byte and bit of encryption_update_key's walk
  pwd_id,     \* RAM: the chunk being rewritten
  field,      \* RAM: the field being rewritten
  buffer,     \* RAM: its plaintext
  leftBehind, \* history: chunks a finished walk did not move to the new key
  gap         \* history: chunks whose id reached the backup section while the
              \* status byte still said CHUNK_OK, when power was lost

fram == <<chunk, backup>>
ram == <<KEY, newKey, card, job, i, j, pwd_id, field, buffer>>
history == <<leftBehind, gap>>
vars == <<chunk, backup, valid, cards, KEY, newKey, card, job, pc, i, j,
          pwd_id, field, buffer, leftBehind, gap>>

Jobs == {"none", "edit", "change_key", "force", "restore", "recover"}
Steps == {"boot", "recover_card", "restore_tear", "restore_data",
          "wait_card", "recovery_menu", "menu", "write_temp", "scan",
          "save_tear", "save_data", "save_id", "save_status", "write_iv",
          "write_data", "chunk_ok", "set_update_card", "write_key",
          "set_validation", "tear_validation", "write_validation",
          "free_status", "free_data", "free_id", "hung"}

\* The types of the memories, the RAM and the history.
TypeOK ==
  /\ chunk \in [Ids -> Chunk]
  /\ backup \in [status : Statuses, id : Ids, data : Chunk]
  /\ valid \in Keys \cup {NoKey}
  /\ cards \in [Cards -> [key : Keys, temp : Keys]]
  /\ KEY \in Keys \cup {NoKey}
  /\ newKey \in Keys \cup {NoKey}
  /\ card \in Cards
  /\ job \in Jobs
  /\ pc \in Steps
  /\ i \in Nat /\ j \in 0 .. BITS
  /\ pwd_id \in Ids
  /\ field \in Fields
  /\ buffer \in Values \cup {Lost}
  /\ leftBehind \subseteq Used /\ gap \subseteq Ids

(***************************************************************************)
(* A wallet that was initialised and is being plugged in: every credential *)
(* and the validation are under the key of one card.  Its temporary block  *)
(* may hold any key (that of a change given up); another card holds an     *)
(* earlier key of this wallet, or none of its keys.                        *)
(***************************************************************************)
Init ==
  /\ cards \in [Cards -> [key : Keys, temp : Keys]]
  /\ \A d, e \in Cards : d # e => cards[d].key # cards[e].key
  /\ \E d \in Cards, v \in Values :
       /\ valid = cards[d].key
       /\ chunk = [c \in Ids |-> [f \in Fields |->
                     IF c \in Used THEN Enc(valid, v) ELSE Torn]]
  /\ backup = [status |-> OK, id |-> 0, data |-> TornChunk]
  /\ KEY = NoKey /\ newKey = NoKey
  /\ card \in Cards
  /\ job = "none" /\ pc = "boot"
  /\ i = 0 /\ j = 0 /\ pwd_id = 0 /\ field = "pwd" /\ buffer = Lost
  /\ leftBehind = {} /\ gap = {}

\* encryption_check_key
KeyMatches(k) == k # NoKey /\ k = valid

SetStatus(s) == backup' = [backup EXCEPT !.status = s]

(***************************************************************************)
(* Power loss, or the user unplugging the wallet.                          *)
(***************************************************************************)
\* The running function returns, or is cut off: its locals are gone.
ReturnTo(step) ==
  /\ pc' = step /\ job' = "none"
  /\ newKey' = NoKey /\ i' = 0 /\ j' = 0
  /\ pwd_id' = 0 /\ field' = "pwd" /\ buffer' = Lost

InGap == pc = "save_status" /\ backup.status = CHUNK_OK

Crash ==
  /\ ReturnTo("boot") /\ KEY' = NoKey
  /\ gap' = IF InGap THEN gap \cup {backup.id} ELSE gap
  /\ UNCHANGED <<fram, valid, cards, card, leftBehind>>

(***************************************************************************)
(* backup_recover, called once by main.                                    *)
(***************************************************************************)
BootClean ==
  /\ pc = "boot" /\ backup.status = OK
  /\ pc' = "wait_card"
  /\ UNCHANGED <<fram, valid, cards, ram, history>>

BootRestore ==
  /\ pc = "boot" /\ backup.status = UPDATE
  /\ job' = "restore" /\ pc' = "restore_tear"
  /\ pwd_id' = backup.id
  /\ UNCHANGED <<fram, valid, cards, KEY, newKey, card, i, j, field, buffer, history>>

BootRecover(d) ==
  /\ pc = "boot" /\ backup.status \in CHANGE_KEY .. VALIDATION
  /\ job' = "recover" /\ pc' = "recover_card"
  /\ card' = d
  /\ UNCHANGED <<fram, valid, cards, KEY, newKey, i, j, pwd_id, field, buffer, history>>

\* EXIT before the keys are known: authentication or a read failed.
RecoverAbort ==
  /\ pc = "recover_card"
  /\ ReturnTo("wait_card")
  /\ UNCHANGED <<fram, valid, cards, KEY, card, history>>

\* EXIT because the card's "last key" does not pass the validation.
RecoverWrongCard ==
  /\ pc = "recover_card"
  /\ backup.status < VALIDATION /\ ~KeyMatches(cards[card].key)
  /\ KEY' = cards[card].key
  /\ ReturnTo("wait_card")
  /\ UNCHANGED <<fram, valid, cards, card, history>>

\* Mutant: an interrupted chunk is passed over like a finished one.
RecoverWalk_PassesOver ==
  /\ pc = "recover_card"
  /\ backup.status \in {CHANGE_KEY, CHUNK_OK} /\ KeyMatches(cards[card].key)
  /\ KEY' = cards[card].key /\ newKey' = cards[card].temp
  /\ pwd_id' = backup.id
  /\ pc' = "scan"
  /\ i' = (backup.id + 1) \div BITS /\ j' = (backup.id + 1) % BITS
  /\ UNCHANGED <<fram, valid, cards, card, job, field, buffer, history>>

\* Mutant: an interrupted chunk is walked again without being restored.
RecoverWalk_NoRestore ==
  /\ pc = "recover_card"
  /\ backup.status \in {CHANGE_KEY, CHUNK_OK} /\ KeyMatches(cards[card].key)
  /\ KEY' = cards[card].key /\ newKey' = cards[card].temp
  /\ pwd_id' = backup.id
  /\ pc' = "scan"
  /\ i' = backup.id \div BITS /\ j' = backup.id % BITS
  /\ UNCHANGED <<fram, valid, cards, card, job, field, buffer, history>>

\* Both keys read and the last key checked: resume where the status says.
RecoverWalk ==
  /\ pc = "recover_card"
  /\ backup.status \in {CHANGE_KEY, CHUNK_OK} /\ KeyMatches(cards[card].key)
  /\ KEY' = cards[card].key /\ newKey' = cards[card].temp
  /\ pwd_id' = backup.id
  /\ IF backup.status = CHANGE_KEY
     THEN pc' = "restore_tear" /\ UNCHANGED <<i, j>>
     ELSE /\ pc' = "scan"
          /\ i' = (backup.id + 1) \div BITS
          /\ j' = (backup.id + 1) % BITS
  /\ UNCHANGED <<fram, valid, cards, card, job, field, buffer, history>>

\* Mutant: the key block of the card is taken for written.
RecoverCard_SkipsCard ==
  /\ pc = "recover_card"
  /\ backup.status = UPDATE_CARD /\ KeyMatches(cards[card].key)
  /\ KEY' = cards[card].temp /\ newKey' = cards[card].temp
  /\ pc' = "set_validation"
  /\ UNCHANGED <<fram, valid, cards, card, job, i, j, pwd_id, field, buffer, history>>

RecoverCard ==
  /\ pc = "recover_card"
  /\ backup.status = UPDATE_CARD /\ KeyMatches(cards[card].key)
  /\ KEY' = cards[card].temp /\ newKey' = cards[card].temp
  /\ pc' = "write_key"
  /\ UNCHANGED <<fram, valid, cards, card, job, i, j, pwd_id, field, buffer, history>>

\* Mutant: the last key is checked in this status too.
RecoverValidation_ChecksKey ==
  /\ pc = "recover_card"
  /\ backup.status = VALIDATION /\ KeyMatches(cards[card].key)
  /\ KEY' = cards[card].temp /\ newKey' = cards[card].temp
  /\ pc' = "tear_validation"
  /\ UNCHANGED <<fram, valid, cards, card, job, i, j, pwd_id, field, buffer, history>>

RecoverValidation ==
  /\ pc = "recover_card"
  /\ backup.status = VALIDATION
  /\ KEY' = cards[card].temp /\ newKey' = cards[card].temp
  /\ pc' = "tear_validation"
  /\ UNCHANGED <<fram, valid, cards, card, job, i, j, pwd_id, field, buffer, history>>

(***************************************************************************)
(* backup_restore and backup_partial_restore: copy the backup over the     *)
(* chunk byte by byte.  Bytes that already agree are rewritten with the    *)
(* same value.                                                             *)
(***************************************************************************)
RestoreTear ==
  /\ pc = "restore_tear" /\ pc' = "restore_data"
  /\ chunk' = IF chunk[pwd_id] = backup.data THEN chunk
              ELSE [chunk EXCEPT ![pwd_id] = TornChunk]
  /\ UNCHANGED <<backup, valid, cards, ram, history>>

\* Mutant: the recovery of a key change uses backup_restore, which frees the
\* backup, where it needs backup_partial_restore.
RestoreData_Frees ==
  /\ pc = "restore_data"
  /\ chunk' = [chunk EXCEPT ![pwd_id] = backup.data]
  /\ SetStatus(OK)
  /\ IF job = "restore"
     THEN pc' = "free_status" /\ UNCHANGED <<i, j>>
     ELSE pc' = "scan" /\ i' = pwd_id \div BITS /\ j' = pwd_id % BITS
  /\ UNCHANGED <<valid, cards, KEY, newKey, card, job, pwd_id, field, buffer, history>>

RestoreData ==
  /\ pc = "restore_data"
  /\ chunk' = [chunk EXCEPT ![pwd_id] = backup.data]
  /\ IF job = "restore"
     THEN pc' = "free_status" /\ UNCHANGED <<i, j>>
     ELSE /\ pc' = "scan"
          /\ i' = pwd_id \div BITS
          /\ j' = pwd_id % BITS
  /\ UNCHANGED <<backup, valid, cards, KEY, newKey, card, job, pwd_id, field, buffer, history>>

(***************************************************************************)
(* The locked wallet: state_wait_card_transition and the recovery menu.    *)
(***************************************************************************)
\* A card is read.  Its key stays in KEY even when the validation refuses it.
UnlockWithCard(d) ==
  /\ pc = "wait_card"
  /\ card' = d /\ KEY' = cards[d].key
  /\ pc' = IF KeyMatches(cards[d].key) THEN "menu" ELSE "wait_card"
  /\ UNCHANGED <<fram, valid, cards, newKey, job, i, j, pwd_id, field, buffer, history>>

OpenRecoveryMenu ==
  /\ pc = "wait_card" /\ pc' = "recovery_menu"
  /\ UNCHANGED <<fram, valid, cards, ram, history>>

\* opt_callback_enter_key, or leaving the menu without typing (k = KEY); the
\* menu is shown again until the key is right.
EnterKey(k) ==
  /\ pc = "recovery_menu"
  /\ KEY' = k
  /\ pc' = IF KeyMatches(k) THEN "menu" ELSE "recovery_menu"
  /\ UNCHANGED <<fram, valid, cards, newKey, card, job, i, j, pwd_id, field, buffer, history>>

(***************************************************************************)
(* What the user starts from the menu of the unlocked wallet.              *)
(***************************************************************************)
UserMay(op) ==
  /\ pc = "menu" /\ op \in Ops
  /\ UseAfterAbort \/ backup.status = OK

\* opt_callback_change_pwd, _change_usr_name, _regenerate_pwd
EditCredential(c, f, v) ==
  /\ UserMay("edit")
  /\ job' = "edit" /\ pc' = "save_tear"
  /\ pwd_id' = c /\ field' = f /\ buffer' = v
  /\ UNCHANGED <<fram, valid, cards, KEY, newKey, card, i, j, history>>

\* Keys found anywhere; 16 fresh random bytes are none of them.
KnownKeys ==
  {KEY, valid} \cup {cards[d].key : d \in Cards} \cup {cards[d].temp : d \in Cards}
    \cup {chunk[c][f].key : c \in Ids, f \in Fields}
    \cup {backup.data[f].key : f \in Fields}

\* user_change_key up to the first write: new key drawn, card authenticated.
ChangeKey(k, d) ==
  /\ UserMay("change_key")
  /\ k \notin KnownKeys
  /\ newKey' = k /\ card' = d
  /\ job' = "change_key" /\ pc' = "write_temp"
  /\ UNCHANGED <<fram, valid, cards, KEY, i, j, pwd_id, field, buffer, history>>

\* opt_callback_force_card
ForceCard(d) ==
  /\ UserMay("force_card")
  /\ card' = d /\ KEY' = cards[d].key
  /\ job' = "force" /\ pc' = "set_validation"
  /\ UNCHANGED <<fram, valid, cards, newKey, i, j, pwd_id, field, buffer, history>>

\* opt_callback_force_enter
ForceEnter(k) ==
  /\ UserMay("force_enter")
  /\ KEY' = k
  /\ job' = "force" /\ pc' = "set_validation"
  /\ UNCHANGED <<fram, valid, cards, newKey, card, i, j, pwd_id, field, buffer, history>>

(***************************************************************************)
(* user_write_key_to_card.  A failure is seen by the wallet before or      *)
(* after the card has stored the block (the acknowledgement is lost).      *)
(***************************************************************************)
WriteTempKey ==
  /\ pc = "write_temp" /\ pc' = "scan"
  /\ cards' = [cards EXCEPT ![card].temp = newKey]
  /\ i' = 0 /\ j' = 0
  /\ UNCHANGED <<fram, valid, KEY, newKey, card, job, pwd_id, field, buffer, history>>

WriteTempKeyFails ==
  /\ pc = "write_temp"
  /\ \E stored \in BOOLEAN :
       cards' = IF stored THEN [cards EXCEPT ![card].temp = newKey] ELSE cards
  /\ ReturnTo("menu")
  /\ UNCHANGED <<fram, valid, KEY, card, history>>

WriteKey ==
  /\ pc = "write_key"
  /\ cards' = [cards EXCEPT ![card].key = KEY]
  /\ pc' = "set_validation"
  /\ UNCHANGED <<fram, valid, ram, history>>

\* user_change_key hangs on purpose (while(1)); backup_recover gives up.
WriteKeyFails ==
  /\ pc = "write_key"
  /\ \E stored \in BOOLEAN :
       cards' = IF stored THEN [cards EXCEPT ![card].key = KEY] ELSE cards
  /\ ReturnTo(IF job = "change_key" THEN "hung" ELSE "wait_card")
  /\ UNCHANGED <<fram, valid, KEY, card, history>>

(***************************************************************************)
(* encryption_update_key: the walk over the memory map.                    *)
(***************************************************************************)
At == i * BITS + j

\* Mutant: one bit too many per byte.
ScanUnused_OffByOne ==
  /\ pc = "scan" /\ i < SIZE_MEMORY_MAP /\ j <= BITS
  /\ At \notin Used
  /\ j' = j + 1
  /\ UNCHANGED <<fram, valid, cards, pc, KEY, newKey, card, job, i, pwd_id, field, buffer, history>>

ScanUnused ==
  /\ pc = "scan" /\ i < SIZE_MEMORY_MAP /\ j < BITS
  /\ At \notin Used
  /\ j' = j + 1
  /\ UNCHANGED <<fram, valid, cards, pc, KEY, newKey, card, job, i, pwd_id, field, buffer, history>>

ScanUsed ==
  /\ pc = "scan" /\ i < SIZE_MEMORY_MAP /\ j < BITS
  /\ At \in Used
  /\ pwd_id' = At /\ field' = "pwd"
  /\ pc' = "save_tear"
  /\ UNCHANGED <<fram, valid, cards, KEY, newKey, card, job, i, j, buffer, history>>

\* The next byte of the map.  Nothing sets j back to 0.
ScanNextByte ==
  /\ pc = "scan" /\ i < SIZE_MEMORY_MAP /\ j = BITS
  /\ i' = i + 1
  /\ UNCHANGED <<fram, valid, cards, pc, KEY, newKey, card, job, j, pwd_id, field, buffer, history>>

\* A chunk of which some field does not open with k.
NotUnder(k) == {c \in Used : \E f \in Fields : chunk[c][f].key # k}

ScanEnd ==
  /\ pc = "scan" /\ i = SIZE_MEMORY_MAP
  /\ KEY' = newKey
  /\ leftBehind' = leftBehind \cup NotUnder(newKey)
  /\ pc' = "set_update_card"
  /\ UNCHANGED <<fram, valid, cards, newKey, card, job, i, j, pwd_id, field, buffer, gap>>

\* Mutant: the status byte is written before the copy.
SaveTear_StatusFirst ==
  /\ pc = "save_tear" /\ pc' = "save_data"
  /\ backup' = [backup EXCEPT !.data = TornChunk,
                             !.status = IF job = "edit" THEN UPDATE ELSE CHANGE_KEY]
  /\ UNCHANGED <<chunk, valid, cards, ram, history>>

(***************************************************************************)
(* backup_save: the copy, the id, and last the status byte.                *)
(***************************************************************************)
SaveTear ==
  /\ pc = "save_tear" /\ pc' = "save_data"
  /\ backup' = IF backup.data = chunk[pwd_id] THEN backup
               ELSE [backup EXCEPT !.data = TornChunk]
  /\ UNCHANGED <<chunk, valid, cards, ram, history>>

SaveData ==
  /\ pc = "save_data" /\ pc' = "save_id"
  /\ backup' = [backup EXCEPT !.data = chunk[pwd_id]]
  /\ UNCHANGED <<chunk, valid, cards, ram, history>>

SaveId ==
  /\ pc = "save_id" /\ pc' = "save_status"
  /\ backup' = [backup EXCEPT !.id = pwd_id]
  /\ UNCHANGED <<chunk, valid, cards, ram, history>>

SaveStatus ==
  /\ pc = "save_status" /\ pc' = "write_iv"
  /\ SetStatus(IF job = "edit" THEN UPDATE ELSE CHANGE_KEY)
  /\ UNCHANGED <<chunk, valid, cards, ram, history>>

(***************************************************************************)
(* password_set_data and password_set_usr_name (encrypt_and_write): a new  *)
(* IV, which makes the field unreadable, then the ciphertext.  A key       *)
(* change first reads the plaintext with KEY.                              *)
(***************************************************************************)
WriteIv ==
  /\ pc = "write_iv" /\ pc' = "write_data"
  /\ buffer' = IF job = "edit" THEN buffer ELSE Decrypt(chunk[pwd_id][field], KEY)
  /\ chunk' = [chunk EXCEPT ![pwd_id][field] = Torn]
  /\ UNCHANGED <<backup, valid, cards, KEY, newKey, card, job, i, j, pwd_id, field, history>>

WriteData ==
  /\ pc = "write_data"
  /\ chunk' = [chunk EXCEPT ![pwd_id][field] =
                 Enc(IF job = "edit" THEN KEY ELSE newKey, buffer)]
  /\ IF job = "edit" THEN pc' = "free_status" /\ UNCHANGED field
     ELSE IF field = "pwd" THEN pc' = "write_iv" /\ field' = "usr"
     ELSE pc' = "chunk_ok" /\ UNCHANGED field
  /\ UNCHANGED <<backup, valid, cards, KEY, newKey, card, job, i, j, pwd_id, buffer, history>>

ChunkOk ==
  /\ pc = "chunk_ok" /\ pc' = "scan"
  /\ SetStatus(CHUNK_OK)
  /\ j' = j + 1
  /\ UNCHANGED <<chunk, valid, cards, KEY, newKey, card, job, i, pwd_id, field, buffer, history>>

(***************************************************************************)
(* The end of a key change: card, EEPROM validation, backup_free.          *)
(***************************************************************************)
SetUpdateCard ==
  /\ pc = "set_update_card" /\ pc' = "write_key"
  /\ SetStatus(UPDATE_CARD)
  /\ UNCHANGED <<chunk, valid, cards, ram, history>>

SetValidation ==
  /\ pc = "set_validation" /\ pc' = "tear_validation"
  /\ SetStatus(VALIDATION)
  /\ UNCHANGED <<chunk, valid, cards, ram, history>>

\* encryption_update_validation: a new random sequence, then its encryption.
TearValidation ==
  /\ pc = "tear_validation" /\ pc' = "write_validation"
  /\ valid' = NoKey
  /\ UNCHANGED <<fram, cards, ram, history>>

WriteValidation ==
  /\ pc = "write_validation" /\ pc' = "free_status"
  /\ valid' = KEY
  /\ UNCHANGED <<fram, cards, ram, history>>

\* Mutant: the copy is erased before the status byte is reset.
FreeStatus_DataFirst ==
  /\ pc = "free_status"
  /\ IF backup.data # TornChunk
     THEN backup' = [backup EXCEPT !.data = TornChunk] /\ UNCHANGED pc
     ELSE SetStatus(OK) /\ pc' = "free_data"
  /\ UNCHANGED <<chunk, valid, cards, ram, history>>

\* backup_free: the status byte before the data it vouches for.
FreeStatus ==
  /\ pc = "free_status" /\ pc' = "free_data"
  /\ SetStatus(OK)
  /\ UNCHANGED <<chunk, valid, cards, ram, history>>

FreeData ==
  /\ pc = "free_data" /\ pc' = "free_id"
  /\ backup' = [backup EXCEPT !.data = TornChunk]
  /\ UNCHANGED <<chunk, valid, cards, ram, history>>

FreeId ==
  /\ pc = "free_id"
  /\ backup' = [backup EXCEPT !.id = 0]
  /\ ReturnTo(IF job \in {"restore", "recover"} THEN "wait_card" ELSE "menu")
  /\ UNCHANGED <<chunk, valid, cards, KEY, card, history>>

(***************************************************************************)
(* The specification.                                                      *)
(***************************************************************************)
Boot == BootClean \/ BootRestore \/ \E d \in Cards : BootRecover(d)

Recover == RecoverWalk \/ RecoverCard \/ RecoverValidation \/ RecoverWrongCard

Restore == RestoreTear \/ RestoreData

Locked ==
  \/ \E d \in Cards : UnlockWithCard(d)
  \/ OpenRecoveryMenu
  \/ \E k \in Keys \cup {KEY} : EnterKey(k)

Menu ==
  \/ \E c \in Used, f \in Fields, v \in Values : EditCredential(c, f, v)
  \/ \E k \in Keys, d \in Cards : ChangeKey(k, d)
  \/ \E d \in Cards : ForceCard(d)
  \/ \E k \in Keys : ForceEnter(k)

Walk == ScanUnused \/ ScanUsed \/ ScanNextByte \/ ScanEnd

Save == SaveTear \/ SaveData \/ SaveId \/ SaveStatus

Write == WriteIv \/ WriteData \/ ChunkOk

Finish ==
  \/ SetUpdateCard \/ SetValidation
  \/ TearValidation \/ WriteValidation
  \/ FreeStatus \/ FreeData \/ FreeId

CardIO == WriteTempKey \/ WriteTempKeyFails \/ WriteKey \/ WriteKeyFails

\* What the wallet does by itself once it is powered and has its card.
Device == Boot \/ Recover \/ Restore \/ Walk \/ Save \/ Write \/ Finish \/ CardIO

Next == Device \/ Locked \/ Menu \/ RecoverAbort \/ Crash

Spec == Init /\ [][Next]_vars

(***************************************************************************)
(* Fairness.  main never stops running a started job.  A card that is      *)
(* presented again and again is eventually read and written.  A user whose *)
(* wallet came out of a recovery that was given up, or hangs, reboots it,  *)
(* as backup_recover and user_change_key expect.                           *)
(***************************************************************************)
Waiting == pc \in {"wait_card", "recovery_menu", "menu", "hung"}

Reboot == Waiting /\ backup.status # OK /\ Crash

PowerCut == ~Waiting /\ Crash

Fairness ==
  /\ WF_vars(Device)
  /\ SF_vars(Recover)
  /\ SF_vars(WriteKey)
  /\ WF_vars(Reboot)

FairSpec == Spec /\ Fairness

(***************************************************************************)
(* Properties.                                                             *)
(***************************************************************************)
\* Whatever is cut short, at most one credential is half written, and it is
\* the one whose intact copy the backup section holds and marks for restoring.
TornOnlyUnderBackup ==
  \A c \in Used :
    (\E f \in Fields : chunk[c][f] = Torn)
      => /\ backup.status \in {UPDATE, CHANGE_KEY}
         /\ backup.id = c
         /\ \A f \in Fields : backup.data[f] # Torn

\* An unlocked wallet with no recovery pending decrypts with the key in RAM
\* every credential that no finished key change left behind.
UnlockedReadsAll ==
  pc = "menu" /\ backup.status = OK =>
    \A c \in Used \ leftBehind, f \in Fields : chunk[c][f].key = KEY

\* The only credentials a key change leaves behind are those past the first
\* byte of the memory map (the walk's j is not reset) and those whose id
\* backup_save had written over a CHUNK_OK status when power was lost.
LeftBehindExplained == \A c \in leftBehind : c >= BITS \/ c \in gap

\* The record of an unfinished operation is dropped only when the operation
\* is finished: a key change when the validation accepts the card's key and
\* every credential not left behind is under it, an edit when its chunk reads.
RecordDroppedWhenDone ==
  [][backup.status # OK /\ backup'.status = OK =>
       IF backup.status = UPDATE
       THEN \A f \in Fields : chunk[backup.id][f] # Torn
       ELSE /\ backup.status = VALIDATION
            /\ \E d \in Cards : valid = cards[d].key
            /\ NotUnder(valid) \subseteq leftBehind]_vars

\* An abstract vault: what a reader with the user's cards can still get out of
\* the FRAM, the backup copy standing for the chunk it protects.
Copy(c) == IF backup.status \in {UPDATE, CHANGE_KEY} /\ backup.id = c
           THEN backup.data ELSE chunk[c]
OnCard(k) == \E d \in Cards : k \in {cards[d].key, cards[d].temp}
Readable(c, f) ==
  IF c \notin leftBehind /\ OnCard(Copy(c)[f].key) THEN Copy(c)[f].val ELSE Lost

Vault == INSTANCE CredentialVault WITH
  Creds <- Used, Parts <- Fields, Contents <- Values, Unknown <- Lost,
  store <- [c \in Used |-> [f \in Fields |-> Readable(c, f)]],
  forgotten <- leftBehind

\* Edits are atomic and key changes invisible, across any number of power
\* losses and card failures: the wallet implements the abstract vault.
ImplementsVault == Vault!Spec

\* The old key is gone from the card but the validation still waits for it.
Refused == backup.status = UPDATE_CARD /\ \A d \in Cards : ~KeyMatches(cards[d].key)

\* Once power stays on, an interrupted operation is finished or undone, unless
\* the recovery refuses the only card there is.
RecoveryEnds ==
  []<><<PowerCut>>_vars \/ (backup.status # OK ~> backup.status = OK \/ Refused)

(***************************************************************************)
(* What the documentation says, for the run that refutes it.               *)
(***************************************************************************)
\* description.txt: no part of the passwords stays encrypted with a key other
\* than the one used for the others.
OneKeyForAll ==
  pc = "menu" /\ backup.status = OK => NotUnder(KEY) = {}
=============================================================================
