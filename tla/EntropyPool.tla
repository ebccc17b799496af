---------------------------- MODULE EntropyPool ----------------------------
(***************************************************************************)
(* The hardware random number generator (Random.c).  The watchdog          *)
(* interrupt mixes timer samples into a 32-bit word; when NUM_SAMPLE of    *)
(* them are in, it raises random_transfer and leaves the word alone until  *)
(* the main program has moved its four bytes to the entropy pool in FRAM.  *)
(* The main program takes bytes from the top of the pool and waits when    *)
(* there is none.                                                          *)
(*                                                                         *)
(* A word, and each byte cut from it, is abstracted to the number of       *)
(* samples mixed into it: NUM_SAMPLE is "32 bits of pure random", 0 is the *)
(* constant zero.  The interrupt may fire between any two steps of main.   *)
(***************************************************************************)
EXTENDS Integers

CONSTANTS
  NUM_SAMPLE,          \* samples per word (32 in the code)
  SIZE_ENTROPY_POOL    \* bytes of the pool (256 in the code)

ASSUME PoolAssumption ==
  /\ NUM_SAMPLE \in Nat \ {0}
  /\ SIZE_ENTROPY_POOL \in Nat /\ SIZE_ENTROPY_POOL >= 4

VARIABLES
  sampleCount, random_dword, random_transfer, entropy_pool_size,
  pool,     \* the FRAM section, byte by byte
  wdt,      \* the watchdog interrupt is enabled
  pc,       \* where main stands
  random,   \* the byte main is taking out
  raced     \* history: an interrupt came between the writes of the last reset

vars == <<sampleCount, random_dword, random_transfer, entropy_pool_size,
          pool, wdt, pc, random, raced>>
isrVars == <<sampleCount, random_dword, random_transfer>>

Mixed == 0 .. NUM_SAMPLE
Cells == 0 .. SIZE_ENTROPY_POOL - 1

\* The pool never overflows and the sample counter never passes NUM_SAMPLE.
TypeOK ==
  /\ sampleCount \in 0 .. NUM_SAMPLE - 1
  /\ random_dword \in Mixed
  /\ random_transfer \in BOOLEAN
  /\ entropy_pool_size \in 0 .. SIZE_ENTROPY_POOL
  /\ pool \in [Cells -> Mixed]
  /\ wdt \in BOOLEAN
  /\ pc \in {"init", "start", "main", "request", "clear", "take", "reset1",
             "reset2", "reset3", "reset4"}
  /\ random \in Mixed
  /\ raced \in BOOLEAN

\* Power on: RAM is zeroed by the start-up code, FRAM holds an old session's
\* leftovers or zeros.
Init ==
  /\ sampleCount = 0 /\ random_dword = 0 /\ random_transfer = FALSE
  /\ entropy_pool_size = 0
  /\ pool \in {[c \in Cells |-> 0], [c \in Cells |-> NUM_SAMPLE]}
  /\ wdt = FALSE /\ pc = "init" /\ random = 0 /\ raced = FALSE

(***************************************************************************)
(* random_init, at power on and after a sleep: the watchdog is off while   *)
(* random_reset runs.                                                      *)
(***************************************************************************)
RandomInit ==
  /\ pc = "init" /\ pc' = "start"
  /\ random_transfer' = FALSE /\ sampleCount' = 0
  /\ entropy_pool_size' = 0 /\ random_dword' = 0
  /\ raced' = FALSE
  /\ UNCHANGED <<pool, wdt, random>>

EnableWatchdog ==
  /\ pc = "start" /\ pc' = "main"
  /\ wdt' = TRUE
  /\ UNCHANGED <<isrVars, entropy_pool_size, pool, random, raced>>

\* sleep_device turns the watchdog off; waking up calls random_init.
SleepDevice ==
  /\ pc = "main" /\ pc' = "init"
  /\ wdt' = FALSE
  /\ UNCHANGED <<isrVars, entropy_pool_size, pool, random, raced>>

(***************************************************************************)
(* isr_hardware_neutral.                                                   *)
(***************************************************************************)
\* main is between two writes of random_reset.
InReset == pc \in {"reset2", "reset3", "reset4"}

MixIn(d) == IF d < NUM_SAMPLE THEN d + 1 ELSE NUM_SAMPLE

\* Mutant: the interrupt does not look at random_transfer.
WatchdogIsr_IgnoresTransfer ==
  /\ wdt
  /\ random_dword' = IF random_transfer THEN 1 ELSE MixIn(random_dword)
  /\ IF sampleCount + 1 >= NUM_SAMPLE
     THEN sampleCount' = 0 /\ random_transfer' = TRUE
     ELSE sampleCount' = sampleCount + 1 /\ UNCHANGED random_transfer
  /\ raced' = (raced \/ InReset)
  /\ UNCHANGED <<entropy_pool_size, pool, wdt, pc, random>>

WatchdogIsr ==
  /\ wdt /\ ~random_transfer
  /\ random_dword' = MixIn(random_dword)
  /\ IF sampleCount + 1 >= NUM_SAMPLE
     THEN sampleCount' = 0 /\ random_transfer' = TRUE
     ELSE sampleCount' = sampleCount + 1 /\ UNCHANGED random_transfer
  /\ raced' = (raced \/ InReset)
  /\ UNCHANGED <<entropy_pool_size, pool, wdt, pc, random>>

(***************************************************************************)
(* random_save_entropy, with the interrupts off.  Called by every          *)
(* program_update and by the waiting loop of random_request_byte.  A word  *)
(* the pool has no room for stays in the mailbox.                          *)
(***************************************************************************)
\* Mutant: the last word may be written across the end of the pool.
HasRoom_OffByOne == entropy_pool_size <= SIZE_ENTROPY_POOL - 3

HasRoom == entropy_pool_size <= SIZE_ENTROPY_POOL - 4

\* Mutant: the waiting loop does not look into the mailbox.
SaveEntropy_NotWhileWaiting ==
  /\ pc = "main"
  /\ random_transfer /\ HasRoom
  /\ pool' = [c \in Cells |-> IF c - entropy_pool_size \in 0 .. 3
                              THEN random_dword ELSE pool[c]]
  /\ entropy_pool_size' = entropy_pool_size + 4
  /\ random_dword' = 0 /\ random_transfer' = FALSE
  /\ UNCHANGED <<sampleCount, wdt, pc, random, raced>>

SaveEntropy ==
  /\ pc = "main" \/ (pc = "request" /\ entropy_pool_size = 0)
  /\ random_transfer /\ HasRoom
  /\ pool' = [c \in Cells |-> IF c - entropy_pool_size \in 0 .. 3
                              THEN random_dword ELSE pool[c]]
  /\ entropy_pool_size' = entropy_pool_size + 4
  /\ random_dword' = 0 /\ random_transfer' = FALSE
  /\ UNCHANGED <<sampleCount, wdt, pc, random, raced>>

(***************************************************************************)
(* random_request_byte: wait, read the top byte, clear it, drop it.        *)
(***************************************************************************)
RequestByte ==
  /\ pc = "main" /\ pc' = "request"
  /\ UNCHANGED <<isrVars, entropy_pool_size, pool, wdt, random, raced>>

\* Mutant: the byte read is the one just past the top.
ReadByte_PastTop ==
  /\ pc = "request" /\ entropy_pool_size # 0 /\ pc' = "clear"
  /\ random' = pool[entropy_pool_size % SIZE_ENTROPY_POOL]
  /\ UNCHANGED <<isrVars, entropy_pool_size, pool, wdt, raced>>

ReadByte ==
  /\ pc = "request" /\ entropy_pool_size # 0 /\ pc' = "clear"
  /\ random' = pool[entropy_pool_size - 1]
  /\ UNCHANGED <<isrVars, entropy_pool_size, pool, wdt, raced>>

ClearByte ==
  /\ pc = "clear" /\ pc' = "take"
  /\ pool' = [pool EXCEPT ![entropy_pool_size - 1] = 0]
  /\ UNCHANGED <<isrVars, entropy_pool_size, wdt, random, raced>>

TakeByte ==
  /\ pc = "take" /\ pc' = "main"
  /\ entropy_pool_size' = entropy_pool_size - 1
  /\ UNCHANGED <<isrVars, pool, wdt, random, raced>>

(***************************************************************************)
(* opt_callback_full_reset: the FRAM is zeroed, then random_reset runs     *)
(* with the watchdog on, so that the interrupt may come between its writes.*)
(***************************************************************************)
EraseFram ==
  /\ pc = "main" /\ pc' = "reset1"
  /\ pool' = [c \in Cells |-> 0]
  /\ UNCHANGED <<isrVars, entropy_pool_size, wdt, random, raced>>

ResetTransfer ==
  /\ pc = "reset1" /\ pc' = "reset2"
  /\ random_transfer' = FALSE
  /\ raced' = FALSE
  /\ UNCHANGED <<sampleCount, random_dword, entropy_pool_size, pool, wdt, random>>

ResetCount ==
  /\ pc = "reset2" /\ pc' = "reset3"
  /\ sampleCount' = 0
  /\ UNCHANGED <<random_dword, random_transfer, entropy_pool_size, pool, wdt, random, raced>>

ResetSize ==
  /\ pc = "reset3" /\ pc' = "reset4"
  /\ entropy_pool_size' = 0
  /\ UNCHANGED <<isrVars, pool, wdt, random, raced>>

ResetDword ==
  /\ pc = "reset4" /\ pc' = "main"
  /\ random_dword' = 0
  /\ UNCHANGED <<sampleCount, random_transfer, entropy_pool_size, pool, wdt, random, raced>>

(***************************************************************************)
(* The specification.  The watchdog keeps firing while it is enabled and   *)
(* main keeps running what it has started; nothing says that main sleeps,  *)
(* asks for a byte or resets.                                              *)
(***************************************************************************)
Request == ReadByte \/ ClearByte \/ TakeByte

Reset == EraseFram \/ ResetTransfer \/ ResetCount \/ ResetSize \/ ResetDword

Next ==
  \/ WatchdogIsr \/ SaveEntropy \/ RequestByte \/ Request \/ Reset
  \/ RandomInit \/ EnableWatchdog \/ SleepDevice

Spec == Init /\ [][Next]_vars

FairSpec ==
  /\ Spec
  /\ WF_vars(WatchdogIsr) /\ WF_vars(SaveEntropy) /\ WF_vars(Request)

(***************************************************************************)
(* Properties.                                                             *)
(***************************************************************************)
\* "32 bits of pure random": every byte in the pool was cut from a word of
\* NUM_SAMPLE samples, and so is the byte being handed out.  (Between its
\* clearing and the decrement the top byte is zero and is not handed out; until
\* the reset has emptied the pool nothing is.)
Erased == pc \in {"reset1", "reset2", "reset3"}

PoolFullyMixed ==
  /\ \A c \in Cells : c < entropy_pool_size /\ ~Erased =>
       pool[c] = NUM_SAMPLE \/ (pc = "take" /\ c = entropy_pool_size - 1)
  /\ pc \in {"clear", "take"} => random = NUM_SAMPLE

\* The only way to a weaker byte is an interrupt between the writes of the
\* latest random_reset: no other interleaving of the interrupt with main, no
\* sleep and no leftover of an earlier session lets one in.
WeakOnlyByRace == raced \/ PoolFullyMixed

\* While a finished word waits for main nothing touches it, unless main is in
\* a random_reset that the interrupt came into.
MailboxStable ==
  [][~raced /\ random_transfer /\ random_transfer'
       => random_dword' = random_dword]_vars

\* A request for a random byte is answered, even on an empty or a full pool.
RequestServed == pc = "request" ~> pc = "main"
=============================================================================
