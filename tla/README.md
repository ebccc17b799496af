# Password Wallet: TLA+ models, checks and proofs

Password Wallet is a USB device (an AVR microcontroller) that keeps credentials,
encrypted with AES, in an external FRAM and types them on a PC. The master key
lives on an RFID card; the wallet keeps only a *validation* in its EEPROM that
tells a right key from a wrong one. The firmware is in `src/Code/src`; paths
below are relative to it unless they start with `src/`.

The models cover the parts where the firmware's own logic is hard to test: what
is left in the memories when power is lost between any two writes, what an
interrupt may do between any two steps of the main program, and what a long
sequence of legal operations does to a linked list kept in FRAM.

## 1. Inventory

| component | sources | state | operations |
|---|---|---|---|
| Master key custody | `Security/Backup`, `Encryption`, `Authentification`, `FSM/States/State_Wait_Card.c` | chunks, backup section (status, id, copy), validation, card key blocks, `KEY` | unlock, change the key, force a key, back up, restore, recover at boot |
| Credential edits | `Options/Options_Callback_Password.c`, `Security/Password.c` | encrypted fields of a chunk | regenerate, change password, change user name |
| Credential catalogue | `Security/Password_List.c`, `Options_Callback_Sort.c`, `State_Main.c`, `State_Browse.c` | memory map, two doubly linked lists, `NUM_PWD`, use counters, names, `CURRENT_PASSWORD_ID` | add, delete, rename, send, sort, previous, next, browse |
| Random numbers | `Security/Random.c`, part of `System/Sleep.c` | sample word, `random_transfer`, pool in FRAM, its size | watchdog interrupt, save, request, reset |
| Full reset and FRAM layout | `Options_Callback_Advanced.c`, `Memory/MemoryLayout.h` | whole FRAM, the "initialised" bit | offer, erase, change the key, mark; address of a chunk |
| Serial protocol | `Communication/Process.c`, `Commands.c`, `USB/Serial.c` | parser state, position and parameter of the command, session flag, suspended calls | receive, time out, execute, reply |
| Desktop application | `src/Utility/desktop_app_v2/desktop2/Serial*.cpp` | command queue, partial reply | connect, send, receive, give up |
| Main loop, events, sleep | `main.c`, `Program.c`, `FSM/Events.c`, `System/Timer.c`, `Sleep.c` | event byte, activity timer | update, wait, sleep, millisecond interrupt |
| Buttons | `Hardware/Buttons.c` | debounced states, ages, signalled presses | debounce from `main`, debounce from the pin-change interrupt |
| Option menu, boot, screen, keyboard, drivers, AES | see `PROJECT.json` | | |

How they interact. `main` runs `backup_recover` once, then loops over
`program_update` (USB, `random_save_entropy`, buttons, sleep) and the transition
of the current state; option callbacks run inside a transition, to their end.
There is no other thread: concurrency comes from interrupts (the watchdog, the
millisecond timer, the pin change) and from the power supply. Components share
FRAM and the globals `KEY`, `NUM_PWD`, `CURRENT_PASSWORD_ID`, `GLOBALS_EVENTS`.
A key change and an edit save one chunk in the backup section, rewrite it and
free the section; additions, deletions, renames and sorts do not use it.

What is hard, and what makes each component correct:

* key custody: power loss at any write, again during the recovery, a card write
  whose acknowledgement is lost, the wrong card at recovery. No credential may be
  half written without its copy; no credential may be left under another key;
  an interrupted change must be finished or undone.
* catalogue: six links and a head rewritten by each swap, operations chained in
  every order, a counter that wraps. Lists stay exact and sorted, the selection
  is a stored credential, the chunk that overruns the FRAM is never used, every
  walk ends.
* random numbers: an interrupt and `main` share a word through one flag. Only a
  complete word reaches the pool, and a request is always served.
* events, sleep, buttons: `main` and two interrupts write one byte, and `main`'s
  read-modify-writes are several instructions. No sleep may be requested while it
  is forbidden, an idle wallet must sleep although a request is lost, a held button
  must be seen, and a woken wallet must go on.
* serial protocol: `com_process_data` is entered again from the replies and the
  confirmation screen it runs. Only what the host asked for may be written, only
  what was written may be acknowledged, the two sides must agree on the session,
  every request must be answered.
* full reset: a loop whose index arithmetic overflows, cut off by power losses.
  What is declared initialised must have no former owner in its lists or backup.

The full list of hazards, each at its line and with the properties that watch
it, is `hazards` in `PROJECT.json`.

## 2. Plan

1. `CredentialVault`, `KeyChange`, `MCKeyChange`: done, with `KeyChange_proofs` (types,
   the backup, then which key each credential is under) and `KeyChange_vault_proofs`
   (the refinement, on top of it).
2. `EntropyPool`, `EntropyPool_proofs`: done.
3. `PasswordList`, `PasswordList_proofs`: done.
4. `Wakefulness`, `Wakefulness_proofs` (main loop, events, sleep, buttons): done.
5. `Communication`, `Communication_proofs`, `MCCommunication` (serial protocol and its host): done.
6. `FullReset`, `FullReset_proofs`, `MemoryLayout`: done.
7. left: a composition of `Communication` with `KeyChange`, where `COM_SET_KEY` and
   `COM_SET_FRAM` arrive in the middle of an operation that waits for the user; what is left of
   the theorems about keys for a user of several cards who presents the same one until a change is
   finished (of any other user they are false, see 6); what the lists still are when power is lost inside an operation.

Composition: `KeyChange` takes the memory map as a constant (`Used`), because no
step of a key change, an edit or a recovery writes it, and `PasswordList`
owns it; the encrypted fields are absent from `PasswordList` because no decision
of the lists reads them. The two meet in `pwd_list_add_pwd`, which writes the
fields of a chunk that no list holds yet.

## 3. The modules

### CredentialVault: what is promised

The contents of every field, replaced in one step by an edit and by nothing else;
the vault may forget whole credentials, and then says which. No keys, no power.

### KeyChange: how it is kept

| state | code |
|---|---|
| `chunk[c][f]` | FRAM: the password and user-name fields, with the key that opens them |
| `backup` | `OFFSET_BACKUP_STATUS`, `_ID`, `_DATA` |
| `valid` | EEPROM: the key the validation accepts |
| `cards[d].key`, `.temp` | the key block and the temporary block of a card |
| `KEY`, `newKey`, `i`, `j`, `pwd_id`, `field`, `buffer` | RAM |
| `job`, `pc` | the running function and where it stands |
| `leftBehind`, `gap` | history only: chunks a finished change did not move; ids that reached the backup section over a `CHUNK_OK` status when power was lost |

One action is one persistent write, or the decision between two. A field of many
bytes is first `Torn` and then written, since a loss in between leaves bytes of
both; the status byte is atomic, and so is the two-byte id. `Crash` is
enabled everywhere and clears all RAM. Each C function is a group of actions
under its name: `backup_save` is `SaveTear`, `SaveData`, `SaveId`, `SaveStatus`;
`encryption_update_key` is `ScanUnused`, `ScanUsed`, `ScanNextByte`, `ScanEnd` around
`Save`, `WriteIv`, `WriteData`, `ChunkOk`; `backup_recover` is `BootClean`, `BootRestore`,
`BootRecover`, then `RecoverWalk`, `RecoverCard`, `RecoverValidation`,
`RecoverWrongCard`, `RecoverAbort`. The recovery goes on in the actions of the
function it calls (`job = "recover"`).

Abstractions. A ciphertext is the pair of its key and its plaintext; with any other
key it shows `Lost`. A new key is fresh: 16 random bytes equal to none in sight.
`Used` is constant. The full reset offered by the recovery menu is not an action.
`UseAfterAbort = FALSE` is an assumption on the user: after a recovery that gave
up he reboots, as the code asks, and does not go on working on a wallet that he can
unlock; with `TRUE`, `TornOnlyUnderBackup` fails, because the next edit reuses the
backup section.

### EntropyPool

A word, and each byte cut from it, is the number of samples mixed into it, which is
all the properties tell apart. Every function of `Random.c` that changes state is
one or several actions; `WatchdogIsr` may fire between any two of them, except
where the code turns interrupts off (`random_save_entropy`) or the watchdog is not
yet enabled (`random_init`). `raced` is a history variable: the interrupt came
between the writes of the latest `random_reset`.

### PasswordList

`used` is the memory map, `first`, `prev`, `next` the lists, `count` and `name` the
sort keys. An operation that has read what it needs puts its FRAM writes, in the
code's order, in `todo`, and the lists it will sort in `plan`; `Perform` does one
write, the actions `SortBegin`, `SortSwap`, `SortNext`, `SortEnd` are the iterations of
the insertion sorts. A walk that only reads is one evaluation; if it would not end
(on a damaged list), the wallet is `"hung"`. With `CutAnywhere`, `Crash` may fall
between any two writes.

Abstractions: a name is its upper-cased first letter as a number; clearing a chunk
and writing a name are single steps; `NUM_PWD` is its RAM and FRAM copies together,
which the code changes in one call.

### Wakefulness

| state | code |
|---|---|
| `GLOBALS_EVENTS` | the event byte, as the set of its bits (`EVENT_KEY_ENTERED` is not read here) |
| `ACTIVITY_TIMER`, `age` | the counters of the millisecond interrupt; `age[b]` is `MILLISECOND_TIMER - buttons_lastChange[b]`, up to the longest delay it is compared with |
| `pins`, `pinChange` | the buttons held down, and the pending pin-change interrupt |
| `debounce_state`, `event_called` | the statics of `buttons_debounce` |
| `frames` | the nested loops of `main`, `program_pause_until_event` and `draw_confirmation_screen` |
| `pc`, `raws`, `button`, `reg`, `raise`, `event`, `waiting` | where `main` is, and its locals |
| `spent`, `races` | bounds: milliseconds since the last look at the sleep request; requests raised in the middle of a read-modify-write |

`TimerIsr` and `PinIsr` fire between any two actions of `main`. `GLOBALS_EVENTS` is
`GPIOR0`, an I/O register the AVR can set and clear a single constant bit of in one
instruction: `DISABLE_SLEEP`, `ENABLE_SLEEP` and the clearing of one flag are
one step, `events_happen` and `events_get` are a load and a store
(`HappenRead`, `HappenWrite`, `ClearRead`, `ClearWrite`). An interrupt disables the others, so its
body is one action. In power-down no timer runs and only a pin change wakes the
wallet. What a menu or a confirmation makes of a button is left to choice: any button
may answer. Not modelled: the wake-ups of `sleep_idle` by USB and by the watchdog
(they shorten a wait), torn reads of `MILLISECOND_TIMER`.

### Communication

`stack` holds the suspended calls of `com_process_data`: a packet is taken by
`Poll` (from the main loop or the confirmation screen) or within a reply, since
`serial_send` runs `CDC_Task` until its bytes are gone (`SendId`, `SendRest`). Each call
goes through the timeout (`Start`), the id and the size byte by byte (`ReadId`,
`ReadSize`), then one `Exec` action per command, with the part of its data that the packet
holds; the statics `com_state`, `COM_POS`, `COM_PARAMETER` and `CURRENT_COMMAND` are
shared by the calls, `data` and `left` belong to each. `After` has the code's pointer, which
does not move past the data of a command. Bytes are numbers, and sizes and addresses are
what one to three of them make (`Shifted`, `Number`); the key and the FRAM are short sequences of them. The reply of `COM_GET_FRAM` is a header and a rest.

The host is the desktop application: one command at a time, each cut in packets, it
waits for the answer, may give up at any moment (its timeout, or the cable), and
comes back after the wallet's serial timeout, when its packets have been dealt with.
These are assumptions on its user, and `SerialInterface` enforces neither: `on_dataSent`
sends the next queued command as soon as the bytes of one are written (lines 87-95),
`connectSerial` may be called at once after a disconnection (28-37), and `disconnectSerial`
may queue a `COM_END` while a session is still being asked for (44-50). So are `Connect`'s guard, and that a session
is over for the host when it reads `COM_END` or `COM_ERR_NOT_INIT`: `on_dataReceived` only hands
the reply on to the terminal, which shows it (`ReadReply`).
The user accepts a session only while a host asks for one. `MaxDepth = 1` is
the assumption that a host comes back only once the question it left on the screen was
answered; with 2 it comes back earlier, which is the run that fails.

`WellFormedAssumption` says what a host may send: the bytes of `SerialCommand::toByteArray`,
with the size of their data; more than a packet only for what is written
(`COM_SET_FRAM`, `COM_SET_KEY`), because the protocol gives the other commands no data; a
session only when it connects (`SerialInterface::connectSerial`); no key longer than a
key, and no write past the memory. The last two the firmware does not test:
`command_set_key` would write behind `KEY` (`Commands.c:257`) and the chip would wrap the address;
the model has neither, and no property depends on it. The rest is needed too:
`com_exec` runs once for every packet of the data, so the commands that do not keep
count of their parts would answer once per packet, and the answers would then run ahead of
the commands. A user of the desktop application's terminal, who can type any bytes, is outside it.

### FullReset and MemoryLayout

The memory is counted in runs of 128 bytes, what one `fram_set` writes; `stale` are the
blocks that hold what they held when the last reset began. `overflow` is what the
compiler makes of `i*FRAM_SIZE_DIVIDER` past 16 bits: the product, the wrapped value, or the
wrapped value extended with its sign, which is what the plain translation does: an `int`
of 16 bits becomes the 32-bit `f_addr_t` of `fram_set` (the code's own comment speaks of undefined
behaviour there). `Erase` is one `fram_set` and the step of both loops; `PowerLoss` may come at
every action and brings back the boot, which offers the reset again to a wallet that is not
initialised. `user_change_key` inside the reset is its outcomes: declined, ended, hung.

`MemoryLayout` has no state: it is the offsets of `MemoryLayout.h` for the three memories
and `PWD_ADDR` modulo 2^16, with theorems. Only what `PWD_ADDR` is given wraps: `Password.c`
reads and writes a field from its start in one access with a 32-bit address (`FieldByte`), while
`backup_save` and `backup_restore` compute the address of every byte (`BackupByte`).

## 4. The runs

| run | instance | shows |
|---|---|---|
| `KeyChange_walk` | two bytes of two bits, three credentials, three keys, one card | what can be relied on when the wallet is unlocked (`UnlockedReadsAll`), exactly which chunks a change may leave behind (`LeftBehindExplained`), that the record of a change is dropped only when it is finished (`RecordDroppedWhenDone`), that an interrupted one ends (`RecoveryEnds`), and `BackupInv`, the invariant of the proof |
| `KeyChange_edit` | two credentials, two values, edits and key changes | the refinement of `CredentialVault`; a half-written chunk always has its copy |
| `KeyChange_cards` | two cards, three keys, one credential, edits, key changes, forced keys, typed keys | the same protection whichever card is presented at each step, with edits over what a forced key or another card left in the backup section |
| `KeyChange_second_byte` | violation of `OneKeyForAll` | see findings |
| `EntropyPool_pool` | three samples per word, a pool of ten bytes | no weak byte but by a race with the reset, a finished word is not touched, requests are served |
| `PasswordList_menu` | four chunks, two names, a counter of one bit | lists exact and sorted, selection stored, last chunk free, every operation ends; `ListInv`, the invariant of the proof |
| `PasswordList_cut` | violation of `WalksEnd` | see findings |
| `Wakefulness_idle` | one button, both interrupts, an inverted screen, a delay of 4 ms in a counter of 6 values, two nested loops | no sleep requested where it is forbidden (`RequestAllowed`), an idle wallet sleeps (`IdleSleeps`), a held button is seen again and again (`HeldSeen`) |
| `Wakefulness_hang` | violation of `WakeReturns` | see findings |
| `Communication_session` | packets of 3 bytes, two on the way, sizes and addresses of one byte, eleven commands | `WritesAsAsked`, `OkMeansWritten`, `SessionAgreed`, `Fresh`, `Answered`; `SessionInv`, `FreshInv`, `AskedInv`, invariants of the proofs |
| `Communication_stale_ok` | the same with `MaxDepth = 2`: violation of `OkMeansWritten` | see findings |
| `FullReset_cut` | 16 pages of 4 blocks, an int of 32 blocks, every outcome of the overflow, three power losses | `InitialisedBlank`, `FlagFirst`, what exactly is left (`ErasesWhatItReaches`), and that the loop ends (`ErasureEnds`); `ResetInv`, the invariant of the proof |

Why the bounds are enough. The walk has to cross a byte of the memory map, so
there are two; two bits per byte give a used and an unused bit and a resumption in the
middle of a byte. Three keys are needed for a change that follows an interrupted
change (old, given up, new); a key can come back into use when nothing holds it any more. The
pool of ten bytes is not a multiple of four, so a word meets a pool with too little
room; three samples tell a partial word from a whole one and from zero. Four chunks hold
at most three credentials: a head, a middle and a tail, so every shape of swap
and unlinking; a counter of one bit wraps at every second use. Permuting keys is
sound (no property names one) and is used only in runs without liveness.
`KeyChange_cards` has one credential, so that three keys, two cards and every operation fit:
several credentials under one card are in the two other runs, and `BackupProtects` is proved
for any number of credentials, keys and cards.

In `Wakefulness` the press, release and long-press delays are 1, 2 and 3 ms, so that a
bounce, a short press and a long press all happen before the sleep delay; the counter has
two values beyond the delay, so it goes round after a lost request. One button is
enough for what the properties say: buttons share only the event byte, and the
other bits of that byte stand for the others. `TimerAssumption` keeps the bounds sane
(a wait of the main loop is shorter than the sleep delay, as 80 and 15000 ms are). In
`Communication` a `COM_SET_FRAM` of five bytes crosses three packets, and its values look like
`COM_INIT`, so that bytes taken for a command do harm. In `FullReset` the memory is
twice the reach of an int, as 128 KiB is of 64.

Fairness. `main` is the only thread, so the device's own steps (`Device`, `Request`,
`SaveEntropy`, `Main`) are weakly fair; the interrupts fire while they are enabled.
`Recover` and `WriteKey` are strongly fair: a card that is presented again and again is
eventually read and written. `Reboot` is weakly fair: a user in front of a hung wallet, or
of one whose recovery gave up, restarts it, as the messages on the screen ask. Nothing
is assumed of what the user does otherwise, and `RecoveryEnds` is
claimed only for behaviours in which power is not cut for ever in the middle of an
operation. In `Communication` packets on the way arrive, the millisecond timer counts,
and a user asked for a confirmation answers it (yes or no): without that
last one, the host would wait as long as the user does. `Wakefulness` asks nothing of the user:
its liveness properties say under which of his doings they hold.

Deadlock is checked in every run but `FullReset_cut`, where the wallet really stops:
`user_change_key` ends in `while(1)` after a failed card write (`Authentification.c:154`), and
the bound on power losses may be used up.

## 5. Findings

* `KeyChange_second_byte`: `encryption_update_key` does not reset its bit index, so a key
  change that nothing interrupts leaves every credential past the first byte of the memory
  map under the old key (`Encryption.c:79`).
* `PasswordList_cut`: an addition cut before the new chunk's links are written closes the
  list into a ring; the next addition never returns (`Password_List.c:344`).
* `Wakefulness_hang`: `sleep_device` ends by waiting for event bits that only its caller
  clears: an event raised before the sleep, or during the restart, hangs the wallet (`Sleep.c:100`).
* `Communication_stale_ok`: a second `COM_INIT` opens a confirmation inside the first; the
  user accepts both, and the second `COM_OK` acknowledges the next command (`Commands.c:155`).

Seen on the way, and built into the properties of passing runs as their named exceptions:

* `backup_save` writes the id before the status; a loss between them during a key change
  makes the recovery skip a chunk (`Backup.c:33`; `gap` in `LeftBehindExplained`).
* once the card holds the new key and the validation still waits for the old one, every
  recovery refuses the card (`Backup.c:161`; `Refused` in `RecoveryEnds`).
* `random_reset` after a full reset runs with the watchdog on, and can publish a
  zeroed word (`Random.c:157`; `raced` in `WeakOnlyByRace`).
* "Erase all fram memory" (`Options_Callback_Advanced.c:59`) is not what the full reset does on
  the 128 KiB memory of the build. `i*FRAM_SIZE_DIVIDER` (line 79) is a 16-bit `int`; wrapped and
  extended with its sign to the 32-bit address, as the plain translation does, it never points
  between 32 and 96 KiB. The chunks 190 to 381 lie in the lower half of that, which `PWD_ADDR` reaches
  (theorem `ChunksPastSignedInt`), and `COM_GET_FRAM` reads all of it: the former owner's
  credentials survive, encrypted under the key of his card. If the compiler extends the product
  without the sign, the upper 64 KiB stay, into which the password of chunk 382 runs (from 65533,
  32 bytes); only if it keeps the product is everything erased. `ErasesWhatItReaches` says for each
  outcome exactly what is left, and `ErasureIsExact` proves it for every size.
* on the 128 KiB memory of the build, `PWD_ADDR` wraps from the user name of chunk 382 on
  (`MemoryLayout.h:75`; theorem `LargestMemoryFolds`), and the password of that chunk is the one
  field of which `backup_save` copies other bytes than `Password.c` uses (`Backup.c:30`;
  theorem `BackupCopiesFields`).
* a full reset cut off before its first page leaves an initialised wallet whose chunks
  are empty (`FlagFirst` allows it), and one whose key change was declined is initialised
  without a key (`Options_Callback_Advanced.c:95`).
* a sleep request raised just before `DISABLE_SLEEP` is served inside the operation
  (`Program.c:36`): only that none is *raised* there is claimed.

Seen and not a property, for want of a documented requirement or of the other side in
the model: a wrong `COM_SET_KEY` leaves `EVENT_KEY_ENTERED` set, so that `COM_GET_KEY` goes on
answering (`Commands.c:257`); a refused nested `COM_INIT` is told `COM_END` while the outer
session stays open (`Commands.c:157`); packets that arrive during replies nest calls without a
limit but the host's patience (`Serial.c:172`); `serial_send` spins while USB is not configured
(`Serial.c:42`); a full reset drops an open session without clearing `COM_POS`
(`Options_Callback_Advanced.c:90`); a second command in one packet would be read from the first
one's data (`Process.c:92`), which a host that waits for its answers never sends; the
desktop application pops the newest command after sending the oldest
(`SerialInterface.cpp:89`).

## 6. The proofs

TLAPS checks each theorem for every value of the constants that the named assumptions of
the modules admit. What a theorem assumes beyond them is in its statement.

**Key custody** (`KeyChange_proofs`): any size of the memory map, chunks, keys, cards,
operations.

* `TypeCorrect`: `Spec => []TypeOK`. `TypeOK` is not inductive:
  `ChunkOk` increments `j` and `WriteKey` puts `KEY` on a card, so `TypeInv` adds
  `WalkBit` (a chunk is rewritten only while `j` numbers a bit) and `KeyReady` (where
  `newKey` and `KEY` are known to be keys).
* `WritesOrdered`: `Spec => []BackupInv`, and from it `BackupProtects`:
  `Spec => []TornOnlyUnderBackup`, if `UseAfterAbort = FALSE`. The backup section may be
  overwritten only when no chunk is torn *and* either the status disowns the old copy or
  the new copy equals it: that is why `Walking` says that a resumed walk must stop first
  at the chunk the backup names (`At = backup.id`, with its copy equal to it), which
  needs the arithmetic of `DivMod` and `ByteInMap`.

**Which key opens what** (second part of `KeyChange_proofs`): as above, with one card (`OneCard`).
The hypothesis is needed: with two cards TLC refutes `LeftBehindExplained` and
`UnlockedReadsAll` for a user who only changes the key. The code takes any card it can read
(`user_change_key`, `backup_recover`), so a change begun with the second card may be resumed with the
first, whose temporary block holds another key, and the validation may be rewritten with the
temporary key of either (`Backup.c:161`). The credentials moved before the cut are then under a key that
is on the other card. What holds with several cards is that no credential is half written without its
copy (`BackupProtects`).

* `LeftBehindOnlySo`: `Spec => []LeftBehindExplained`. `WalkInv` says that every used chunk of
  the first byte of the map below the bit the walk stands at is under the new key, unless
  it is in `gap`; and that the record in the backup section says the same of the
  walk a recovery will resume. Past the first byte `ScanNextByte` leaves `j = BITS`,
  so nothing is claimed there.
* `UnlockedOpens`: `Spec => []UnlockedReadsAll`, and `RecordKept`:
  `Spec => RecordDroppedWhenDone`, if no key is forced (`ForcesNoKey`). `KeyInv` says for each
  status which key opens the credentials not left behind: the accepted one, the
  copy's, or that of the card's temporary block.

**The refinement** (`KeyChange_vault_proofs`), for one card and no forced key.

* `WalletIsVault`: `Spec => ImplementsVault`, every step of `KeyChange` is a step of
  `CredentialVault` or leaves it alone. `ValueInv` adds what the keys alone do not say: the
  chunks ahead of the walk are still under the accepted key (`AheadOfWalk`), a copy
  opens with the accepted or the temporary key (`CopyKeys`), and field by field a chunk
  being rewritten shows what its copy shows (`MoveValues`, `EditValues`). So every credential can
  be read from its chunk or its copy (`CopiesOnCard`), and a step keeps the vault when it keeps
  the plaintext of the copies. Two actions do not: `FreeStatus` of an edit is `Edit`, and
  `ScanEnd` is `Forget`.

**Random numbers** (`EntropyPool_proofs`), with no assumption but the sizes.

* `EntropyTypeCorrect`, `PoolNeverWeak` (`Spec => []WeakOnlyByRace`) and `MailboxNeverTouched`
  (`Spec => MailboxStable`, an action property), all from `EntropyInv`: the flag is a
  two-state handshake, while it is down the word has exactly `sampleCount` samples,
  while it is up it has `NUM_SAMPLE`.

**Lists** (`PasswordList_proofs`): any number of chunks, names and uses; power may be lost
between two operations, not inside one (`~CutAnywhere`).

* `ListsAreIntact`, `ListsAreSorted`, `SelectionIsStored`, `LastChunkIsFree`, `NoWalkHangs`
  and `ListTypes`, all from `ListInvariant`: `Spec => []ListInv`. The lists are damaged in
  the middle of every operation, so the invariant speaks of `Outcome`, the memory the pending
  writes lead to: the writes of `todo` bring the memory to it (`Leads`), and in it each list
  is the chain of some sequence of the used chunks (`Catalogue`). An operation only has to
  show which sequence its writes lead to, and `Perform` changes nothing (`PerformKeeps`).
* The three shapes of change are lemmas: a chunk appended (`AppendOrder`), one unlinked
  (`RemoveOrder`), two neighbours exchanged (`SwapOrder`). Walks end because a chain has one
  sequence (`ChainUnique`) and never comes back on itself (`ChainTurns`). These would be
  inductions; they are argued from the least place where they fail (`LeastExists`), which the
  library's theorem on the well-founded order of finite sets gives.
* Where a sort stands is `Walk`: the chunks before the one in hand are in order, and those
  up to the sorting position are if it is left out; so an exchange of neighbours keeps
  it, and the end of the walk finds the list sorted. A deletion keeps what is sorted
  (`RemoveSorted`); an operation that changes a sort key has its list in `plan`.

**Serial protocol** (`Communication_proofs`): packets, memories, commands and users of any
size and number, headers of up to three bytes.

* `CommTypes`, from `CommInvariant`, with any nesting of `com_process_data`. `StackOK` says that
  only the running call is at the start or in the loop, and that a call which has still to
  abort an earlier command has picked none of its bytes (`Unpicked`). The bound on
  `com_bytes_processed` holds in the state `DATA` only: in a header of three
  bytes the next size is read while the previous count still stands. With the
  one-byte sizes of the run the bound would hold in every state; it is the proof that shows the difference.
* `SessionsAgree`: `Spec => []SessionAgreed` if `MaxDepth <= 2`, from `SessionInvariant`. Every place
  that will clear the session has told the host (`TellsEnd`, `ClearsTold`); a host whose
  session is gone has the news on its way (`OpenOrTold`); and a host that waits for
  its session, with no refusal coming, is heard by a wallet that has sent
  nothing and reads only that request (`Quiet`). The depth is there for `Quiet`: with at most one older
  confirmation waiting, no other suspended call can speak before the request is read.
* `CommandsAreFresh`: `Spec => []Fresh` if `MaxDepth = 1`, from `FreshInvariant`. `Gathering` says that
  `COM_POS` and `COM_PARAMETER` are not zero only while `COM_SET_FRAM` or `COM_SET_KEY` is being
  gathered in an open session, and that the position is the parser's own count;
  `Requested`, that a session is opened only when no other command is half read.
* `WritesWhatIsAsked` and `OkIsWritten`: `WritesAsAsked` and `[]OkMeansWritten` if `MaxDepth = 1`,
  for the well-formed commands, from `AskedInvariant` on top of the three above. What was asked is followed
  byte by byte. The packets on the line are consecutive pieces of it (`Wired`), cut at no
  place inside a first full packet; of the `t` bytes taken from the line the parser
  has `p`, and the rest is what the only call has still to pick (`Reading`, with
  `ParserAt` for the state and `FramAt` for the address and the bytes written so far). A request
  for a session is read the same way, behind the zeros an aborted command may leave
  (`Opening`). A command is in one of three situations while its session lasts
  (`Serving`): it is being read; it has been dealt with and its answer, the only one on its
  way, goes out or is read (`Answering`); or it was cut off by the timeout, and then
  every call that waits has yet to pick its first byte and one of them aborts the
  command before it does, after which the host reads `COM_END` before anything else (`Broken`).
  Once the session is over the host is gone or reads so first (`Refusing`). The invariant needs
  both hypotheses: with a nested confirmation two answers are on their way (the run
  `Communication_stale_ok`), and so they are with a command that answers once per packet.

**Sleep** (`Wakefulness_proofs`), for every set of buttons, orientation, delays and bounds.

* `TypeCorrect`: `TypeOK` with `RaisesInHand` (the event about to be raised is that of the button
  in hand).
* `NoForbiddenSleep`: `Spec => RequestAllowed`. `AwakeBelow` says that while a flag forbids sleep
  the counter is below the delay, so that the timer cannot find it equal. It is not
  inductive at the moment a flag is set: `Bound` therefore bounds the counter at each place
  of the loop by the time since a button was last seen, at most
  `WAIT_DELAY + 2 * LOOP_MS`, which `TimerAssumption` puts below the delay. Here the bound `LOOP_MS`
  on a turn of the loop is a premise about the hardware, not only a bound of the run.

**Reset and layout** (`FullReset_proofs`, `MemoryLayout`).

* `ResetTypeCorrect` and `InitialisedPageBlank` (`Spec => []InitialisedBlank`) for every memory,
  page and int size, every outcome of the overflow and any number of power losses. The loop
  runs downwards, so its last page is the first of the memory; `Progress` says that
  on this page the blocks behind `j` are erased, because the product does not overflow there
  whatever the compiler does elsewhere (`FirstPageAddress`).
* `FlagGoesFirst` (`Spec => []FlagFirst`) and `ErasureIsExact`
  (`Spec => []ErasesWhatItReaches`), from the same `ResetInv`. An int is a whole number of pairs of
  pages (`SizesAssumption`: all three sizes are powers of two), so a page whose address wraps lands
  on a whole page; if it is the first, the block of the flag goes before the others of the page
  (`FlagProgress`). `LeftProgress` follows each block by the product that points at it (`Home`):
  what is left and can be named has that on the pages still to come, or ahead in the page
  at hand. That the blocks of `Unreached` have no such product (`NeverNamed`) and all others one
  (`HomeOf`) needs that one of memory and int is a multiple of the other.
* `LastChunkOverruns`, `ChunksApart`, `LargestMemoryFolds`, `BackupCopiesFields`,
  `ChunksPastSignedInt`: arithmetic of the layout for the three memories, with no run: the first is
  why `LastChunkFree` of `PasswordList` matters, the next three say when the addresses that every
  other model takes for granted are right, the last which chunks a full reset may leave (see 5).

Only model-checked, or not claimed:

* liveness (`RecoveryEnds`, `RequestServed`, `OperationEnds`, `IdleSleeps`, `HeldSeen`, `Answered`,
  `ErasureEnds`): it needs fairness and `ENABLED`, which the prover does not handle;
* the lists when power is lost inside an operation: there they are not intact, and the run
  `PasswordList_cut` shows what that leads to;
* `Communication` beyond the depths that its theorems name: the host that comes back over a waiting
  confirmation is the run `Communication_stale_ok`;
* nothing is claimed of the keys with several cards: only the types, `BackupInv` and
  `TornOnlyUnderBackup` hold there, and these are proved.

## 7. Not modelled

Left out for good: the screen, the keyboard, USB and the
peripherals' drivers (register-level I/O whose results the models take as choices), AES (an
abstract key/plaintext pair), the option menu's navigation (no state outlives it), the boot
self test, and everything that is not this firmware: LUFA, the bootloader, the vendored
libraries and the desktop tools under `src/Utility`, except the host's side of the protocol.

Left out of modelled parts: the interrupts of USB and of the watchdog as causes of waking
(`Wakefulness`), the arithmetic of the hash that mixes samples and `random_request_printable`
(`EntropyPool`), the characters of a name past its first (`PasswordList`), the offer of a full
reset in the recovery menu (`KeyChange`; its effect is `FullReset`'s).

Most of the lines of the repository are vendored (pugixml, two copies of tinyxml2, LUFA) or
drive hardware (the card reader, the screen, the USB descriptors): the models are about the
firmware under `src/Code/src` that decides something, which is a small share of them.
