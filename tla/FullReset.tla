----------------------------- MODULE FullReset -----------------------------
(***************************************************************************)
(* opt_callback_full_reset erases the FRAM from its last page to its       *)
(* first, asks for a new key, and marks the wallet as initialised.  Power  *)
(* may be lost at any time; a wallet that is not initialised is asked      *)
(* about the reset again at boot, and goes on uninitialised if the user    *)
(* declines.                                                               *)
(*                                                                         *)
(* An address is counted in runs of 128 bytes, the unit that fram_set      *)
(* writes.  On the AVR an int has 16 bits, so that i*FRAM_SIZE_DIVIDER of  *)
(* Options_Callback_Advanced.c:79 overflows: the compiler may keep the     *)
(* product, or wrap it and extend it to the address, a uint32_t (Fram.h),  *)
(* with or without its sign; whichever it does, it does at every iteration.*)
(* With the sign is the plain translation of an int.  What the serial port *)
(* or the user write meanwhile is in other modules.                        *)
(***************************************************************************)
EXTENDS Integers

CONSTANTS
  FRAM_BLOCKS,  \* FRAM_BYTE_SIZE / 128, 1024 for the largest memory
  PAGE_BLOCKS,  \* FRAM_SIZE_DIVIDER / 128, 8
  INT_BLOCKS,   \* 2^16 / 128, 512
  MaxCuts       \* bound: power losses

Pages == FRAM_BLOCKS \div PAGE_BLOCKS

\* The sizes are powers of two: of memory and int, one is a multiple of the other.
ASSUME SizesAssumption ==
  /\ FRAM_BLOCKS \in Nat \ {0} /\ PAGE_BLOCKS \in Nat \ {0} /\ INT_BLOCKS \in Nat \ {0}
  /\ FRAM_BLOCKS = Pages * PAGE_BLOCKS
  /\ INT_BLOCKS % (2 * PAGE_BLOCKS) = 0
  /\ FRAM_BLOCKS % INT_BLOCKS = 0 \/ INT_BLOCKS % FRAM_BLOCKS = 0
  /\ MaxCuts \in Nat

Blocks == 0..(FRAM_BLOCKS - 1)

\* The first page: the options flag and NUM_PWD in block 0, then the entropy
\* pool, the memory map, the backup section and the first chunks.
Section == 0..(PAGE_BLOCKS - 1)

VARIABLES
  overflow,     \* what the compiler makes of the multiplication
  stale,        \* blocks that hold what they held when the last reset began
  INITIALIZED,  \* the bit of the options flag in the FRAM
  OPTIONS_FLAG, NUM_PWD,  \* the copies in RAM: "stored" in the FRAM, or "clear"
  NO_SLEEP,     \* EVENT_NO_SLEEP
  pc,
  i, j,         \* the loops of the reset
  cuts          \* power losses so far

ram == <<OPTIONS_FLAG, NUM_PWD, NO_SLEEP>>
vars == <<overflow, stale, INITIALIZED, ram, pc, i, j, cuts>>

\* A wallet in use, or one whose memory holds anything and is not initialised.
Init ==
  /\ overflow \in {"product", "zero", "sign"}
  /\ stale = Blocks /\ INITIALIZED \in BOOLEAN
  /\ OPTIONS_FLAG = "clear" /\ NUM_PWD = "clear" /\ NO_SLEEP = FALSE
  /\ pc = "boot" /\ i = 0 /\ j = 0 /\ cuts = 0

Go(next) == pc' = next
-----------------------------------------------------------------------------
\* program_init, and main before its loop.
Boot ==
  /\ pc = "boot" /\ Go(IF INITIALIZED THEN "running" ELSE "confirm")
  /\ OPTIONS_FLAG' = "stored" /\ NUM_PWD' = "stored"
  /\ UNCHANGED <<overflow, stale, INITIALIZED, NO_SLEEP, i, j, cuts>>

OpenMenu ==
  /\ pc = "running" /\ Go("confirm")
  /\ UNCHANGED <<overflow, stale, INITIALIZED, ram, i, j, cuts>>

Decline ==
  /\ pc = "confirm" /\ Go("running")
  /\ UNCHANGED <<overflow, stale, INITIALIZED, ram, i, j, cuts>>

\* Mutant: the loop starts at the number of pages instead of below it.
Accept_OneTooMany ==
  /\ pc = "confirm" /\ Go("erase")
  /\ stale' = Blocks /\ NO_SLEEP' = TRUE
  /\ i' = Pages /\ j' = 0
  /\ UNCHANGED <<overflow, INITIALIZED, OPTIONS_FLAG, NUM_PWD, cuts>>

\* Mutant: the loop starts below the number of pages and still goes down first.
Accept_OneTooFew ==
  /\ pc = "confirm" /\ Go("erase")
  /\ stale' = Blocks /\ NO_SLEEP' = TRUE
  /\ i' = Pages - 2 /\ j' = 0
  /\ UNCHANGED <<overflow, INITIALIZED, OPTIONS_FLAG, NUM_PWD, cuts>>

Accept ==
  /\ pc = "confirm" /\ Go("erase")
  /\ stale' = Blocks /\ NO_SLEEP' = TRUE
  /\ i' = Pages - 1 /\ j' = 0
  /\ UNCHANGED <<overflow, INITIALIZED, OPTIONS_FLAG, NUM_PWD, cuts>>

Signed(n) == IF 2 * n >= INT_BLOCKS THEN n - INT_BLOCKS ELSE n

\* The memory ignores the address bits above its size.
Address(n) ==
  CASE overflow = "product" -> n
    [] overflow = "zero" -> n % INT_BLOCKS
    [] overflow = "sign" -> Signed(n % INT_BLOCKS) % FRAM_BLOCKS

Erased(block) ==
  /\ stale' = stale \ {block}
  /\ INITIALIZED' = (INITIALIZED /\ block # 0)

\* Mutant: the index of the page is tested before its page is erased.
Erase_StopsEarly ==
  /\ pc = "erase"
  /\ Erased(Address(i * PAGE_BLOCKS + j))
  /\ IF j < PAGE_BLOCKS - 1 THEN j' = j + 1 /\ UNCHANGED <<i, pc>>
     ELSE IF i > 1 THEN i' = i - 1 /\ j' = 0 /\ UNCHANGED pc
     ELSE i' = 0 /\ j' = 0 /\ Go("clear")
  /\ UNCHANGED <<overflow, ram, cuts>>

\* Mutant: a page is erased from its end as well.
Erase_Backwards ==
  /\ pc = "erase"
  /\ Erased(Address(i * PAGE_BLOCKS + (PAGE_BLOCKS - 1 - j)))
  /\ IF j < PAGE_BLOCKS - 1 THEN j' = j + 1 /\ UNCHANGED <<i, pc>>
     ELSE IF i > 0 THEN i' = i - 1 /\ j' = 0 /\ UNCHANGED pc
     ELSE j' = 0 /\ Go("clear") /\ UNCHANGED i
  /\ UNCHANGED <<overflow, ram, cuts>>

\* Mutant: the loop runs while the unsigned index is not negative.
Erase_Forever ==
  /\ pc = "erase"
  /\ Erased(Address(i * PAGE_BLOCKS + j))
  /\ IF j < PAGE_BLOCKS - 1 THEN j' = j + 1 /\ UNCHANGED i
     ELSE i' = (IF i > 0 THEN i - 1 ELSE Pages - 1) /\ j' = 0
  /\ UNCHANGED <<overflow, pc, ram, cuts>>

\* One fram_set: the pages from the last to the first, each from its start.
Erase ==
  /\ pc = "erase"
  /\ Erased(Address(i * PAGE_BLOCKS + j))
  /\ IF j < PAGE_BLOCKS - 1 THEN j' = j + 1 /\ UNCHANGED <<i, pc>>
     ELSE IF i > 0 THEN i' = i - 1 /\ j' = 0 /\ UNCHANGED pc
     ELSE j' = 0 /\ Go("clear") /\ UNCHANGED i
  /\ UNCHANGED <<overflow, ram, cuts>>

\* Every event is dropped, that which forbids sleep too; random_reset is in
\* EntropyPool.
Clear ==
  /\ pc = "clear" /\ Go("change_confirm")
  /\ OPTIONS_FLAG' = "clear" /\ NUM_PWD' = "clear" /\ NO_SLEEP' = FALSE
  /\ UNCHANGED <<overflow, stale, INITIALIZED, i, j, cuts>>

\* user_change_key: refused, given up at the card, done, or hung by a card that
\* cannot be written.
ChangeDeclined ==
  /\ pc = "change_confirm" /\ Go("flag")
  /\ UNCHANGED <<overflow, stale, INITIALIZED, ram, i, j, cuts>>

ChangeAccepted ==
  /\ pc = "change_confirm" /\ Go("change")
  /\ NO_SLEEP' = TRUE
  /\ UNCHANGED <<overflow, stale, INITIALIZED, OPTIONS_FLAG, NUM_PWD, i, j, cuts>>

ChangeEnds ==
  /\ pc = "change" /\ Go("flag")
  /\ NO_SLEEP' = FALSE
  /\ UNCHANGED <<overflow, stale, INITIALIZED, OPTIONS_FLAG, NUM_PWD, i, j, cuts>>

ChangeHangs ==
  /\ pc = "change" /\ Go("hung")
  /\ UNCHANGED <<overflow, stale, INITIALIZED, ram, i, j, cuts>>

\* update_opt_flags
Flag ==
  /\ pc = "flag" /\ Go("running")
  /\ INITIALIZED' = TRUE /\ OPTIONS_FLAG' = "stored"
  /\ UNCHANGED <<overflow, stale, NUM_PWD, NO_SLEEP, i, j, cuts>>

PowerLoss ==
  /\ pc # "boot" /\ cuts < MaxCuts /\ Go("boot")
  /\ OPTIONS_FLAG' = "clear" /\ NUM_PWD' = "clear" /\ NO_SLEEP' = FALSE
  /\ i' = 0 /\ j' = 0 /\ cuts' = cuts + 1
  /\ UNCHANGED <<overflow, stale, INITIALIZED>>
-----------------------------------------------------------------------------
Device == Boot \/ Erase \/ Clear \/ ChangeEnds \/ ChangeHangs \/ Flag
User == OpenMenu \/ Decline \/ Accept \/ ChangeDeclined \/ ChangeAccepted

Next == Device \/ User \/ PowerLoss

Spec == Init /\ [][Next]_vars

\* The wallet runs while it has power.
FairSpec == Spec /\ WF_vars(Device)
-----------------------------------------------------------------------------
\* Type invariant: the addresses are those of the memory, whatever the overflow.
TypeOK ==
  /\ overflow \in {"product", "zero", "sign"}
  /\ stale \subseteq Blocks /\ INITIALIZED \in BOOLEAN /\ NO_SLEEP \in BOOLEAN
  /\ OPTIONS_FLAG \in {"clear", "stored"} /\ NUM_PWD \in {"clear", "stored"}
  /\ pc \in {"boot", "running", "confirm", "erase", "clear", "change_confirm", "change", "hung", "flag"}
  /\ i \in 0..(Pages - 1) /\ j \in Section
  /\ cuts \in 0..MaxCuts

\* The wallet that a reset declares initialised (Options_Callback_Advanced.c:99)
\* has an empty first page, whatever the compiler made of the overflow in the
\* loop and however often the reset was cut off: no list, memory map or backup
\* of the former owner.
InitialisedBlank == pc = "flag" => Section \cap stale = {}

\* A wallet that says it is initialised has its first page as it was or wholly
\* erased: the flag goes before the memory map and the backup section that a
\* boot after a power loss would trust.
FlagFirst == INITIALIZED => Section \subseteq stale \/ Section \cap stale = {}

\* The blocks at which no wrapped product points: those from 64 KiB on, and with
\* the sign those between the positive ints and the top of the memory, where the
\* negative ones end up.
Unreached ==
  CASE overflow = "product" -> {}
    [] overflow = "zero" -> {b \in Blocks : b >= INT_BLOCKS}
    [] overflow = "sign" ->
         {b \in Blocks : 2 * b >= INT_BLOCKS /\ 2 * (FRAM_BLOCKS - b) > INT_BLOCKS}

\* However often it was cut off, a reset that comes to its end leaves the blocks
\* that its addresses cannot name (Options_Callback_Advanced.c:79) and no other:
\* that it should "erase all fram memory" (line 59) holds of the product alone.
ErasesWhatItReaches == pc = "flag" => stale = Unreached

\* The erasure ends (the unsigned index of the loop reaches 0), with the power on.
ErasureEnds == pc = "erase" ~> pc # "erase"
=============================================================================
