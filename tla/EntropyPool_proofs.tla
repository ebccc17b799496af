------------------------- MODULE EntropyPool_proofs -------------------------
(***************************************************************************)
(* Proofs about EntropyPool.  Unless the interrupt came into the latest    *)
(* random_reset, the mailbox is a two-state handshake: the word under way  *)
(* has exactly sampleCount samples, the word handed over has NUM_SAMPLE.   *)
(***************************************************************************)
EXTENDS EntropyPool, TLAPS

\* TypeOK without the flags: what the arithmetic needs.
Sizes ==
  /\ sampleCount \in 0 .. NUM_SAMPLE - 1
  /\ random_dword \in 0 .. NUM_SAMPLE
  /\ entropy_pool_size \in 0 .. SIZE_ENTROPY_POOL
  /\ pool \in [0 .. SIZE_ENTROPY_POOL - 1 -> 0 .. NUM_SAMPLE]
  /\ random \in 0 .. NUM_SAMPLE

Flags ==
  /\ random_transfer \in BOOLEAN /\ wdt \in BOOLEAN /\ raced \in BOOLEAN
  /\ pc \in {"init", "start", "main", "request", "clear", "take", "reset1",
             "reset2", "reset3", "reset4"}

\* Where random_reset stands; the watchdog is off before main runs.
Resetting ==
  /\ pc \in {"init", "start"} => ~wdt
  /\ ~raced /\ InReset => ~random_transfer
  /\ ~raced /\ pc \in {"reset3", "reset4"} => sampleCount = 0
  /\ ~raced /\ pc = "reset4" => entropy_pool_size = 0

\* The interrupt has the word, or main has it.
Handshake ==
  ~raced /\ pc # "init" /\ ~InReset =>
    IF random_transfer THEN random_dword = NUM_SAMPLE /\ sampleCount = 0
                       ELSE random_dword = sampleCount

\* main takes a byte only out of a pool that has one.
TopExists == pc \in {"clear", "take"} => entropy_pool_size # 0

EntropyInv == Sizes /\ Flags /\ Resetting /\ Handshake /\ TopExists /\ WeakOnlyByRace

\* The bounds as integers.
LEMMA Bounds ==
  /\ NUM_SAMPLE \in Int /\ NUM_SAMPLE >= 1
  /\ SIZE_ENTROPY_POOL \in Int /\ SIZE_ENTROPY_POOL >= 4
  BY PoolAssumption

\* The power-on state satisfies the invariant.
LEMMA EntropyInit == Init => EntropyInv
<1> SUFFICES ASSUME Init PROVE EntropyInv
  OBVIOUS
<1>1. Sizes
  BY Bounds DEF Init, Sizes, Cells
<1>2. Flags
  BY DEF Init, Flags
<1>3. Resetting /\ Handshake /\ TopExists /\ WeakOnlyByRace
  BY Bounds
  DEF Init, Resetting, InReset, Handshake, TopExists, WeakOnlyByRace,
    PoolFullyMixed, Cells, Erased
<1> QED
  BY <1>1, <1>2, <1>3 DEF EntropyInv

\* The flags stay flags.
LEMMA FlagsStep ==
  ASSUME Flags, [Next]_vars
  PROVE  Flags'
  BY DEF Flags, Next, vars, isrVars, WatchdogIsr, SaveEntropy, RequestByte,
    Request, ReadByte, ClearByte, TakeByte, Reset, EraseFram, ResetTransfer,
    ResetCount, ResetSize, ResetDword, RandomInit, EnableWatchdog, SleepDevice

\* Every step of main and of the interrupt preserves the invariant.
LEMMA EntropyStep ==
  ASSUME EntropyInv, [Next]_vars
  PROVE  EntropyInv'
<1> USE Bounds DEF Cells, InReset, Erased
<1>0. Sizes /\ Flags /\ Resetting /\ Handshake /\ TopExists /\ WeakOnlyByRace
  BY DEF EntropyInv
<1>f. Flags'
  BY <1>0, FlagsStep
<1> SUFFICES Sizes' /\ Resetting' /\ Handshake' /\ TopExists' /\ WeakOnlyByRace'
  BY <1>f DEF EntropyInv
<1>1. CASE WatchdogIsr
  <2>1. /\ random_dword' \in 0 .. NUM_SAMPLE /\ pc \notin {"init", "start"}
        /\ random_dword = sampleCount => random_dword' = sampleCount + 1
    BY <1>0, <1>1 DEF WatchdogIsr, MixIn, Sizes, Resetting
  <2>2. CASE sampleCount + 1 >= NUM_SAMPLE
    <3>1. sampleCount' = 0 /\ random_transfer' /\ sampleCount + 1 = NUM_SAMPLE
      BY <1>0, <1>1, <2>2 DEF WatchdogIsr, Sizes
    <3>2. Sizes'
      BY <1>0, <1>1, <2>1, <3>1 DEF WatchdogIsr, Sizes
    <3>3. Resetting'
      BY <1>0, <1>1, <2>1, <3>1 DEF WatchdogIsr, Resetting
    <3>4. Handshake'
      BY <1>0, <1>1, <2>1, <3>1 DEF WatchdogIsr, Handshake
    <3> QED
      BY <1>0, <1>1, <3>2, <3>3, <3>4 DEF WatchdogIsr, TopExists, WeakOnlyByRace, PoolFullyMixed
  <2>3. CASE ~(sampleCount + 1 >= NUM_SAMPLE)
    <3>1. sampleCount' = sampleCount + 1 /\ ~random_transfer'
      BY <1>0, <1>1, <2>3 DEF WatchdogIsr, Sizes
    <3>2. Sizes'
      BY <1>0, <1>1, <2>1, <2>3, <3>1 DEF WatchdogIsr, Sizes
    <3>3. Resetting'
      BY <1>0, <1>1, <2>1, <3>1 DEF WatchdogIsr, Resetting
    <3>4. Handshake'
      BY <1>0, <1>1, <2>1, <3>1 DEF WatchdogIsr, Handshake
    <3> QED
      BY <1>0, <1>1, <3>2, <3>3, <3>4 DEF WatchdogIsr, TopExists, WeakOnlyByRace, PoolFullyMixed
  <2> QED BY <2>2, <2>3
<1>2. CASE SaveEntropy
  <2>1. /\ ~raced => random_dword = NUM_SAMPLE /\ sampleCount = 0
        /\ entropy_pool_size <= SIZE_ENTROPY_POOL - 4
    BY <1>0, <1>2 DEF SaveEntropy, HasRoom, Handshake
  <2>2. Sizes' /\ TopExists'
    BY <1>0, <1>2, <2>1 DEF SaveEntropy, Sizes, TopExists
  <2>3. Resetting' /\ Handshake'
    BY <1>0, <1>2, <2>1 DEF SaveEntropy, Resetting, Handshake
  <2>4. WeakOnlyByRace'
    BY <1>0, <1>2, <2>1 DEF SaveEntropy, Sizes, WeakOnlyByRace, PoolFullyMixed
  <2> QED BY <2>2, <2>3, <2>4
<1> USE DEF Sizes, Resetting, Handshake, TopExists, WeakOnlyByRace, PoolFullyMixed, isrVars
<1>3. CASE RequestByte
  BY <1>0, <1>3 DEF RequestByte
<1>4. CASE ReadByte
  BY <1>0, <1>4 DEF ReadByte
<1>5. CASE ClearByte
  BY <1>0, <1>5 DEF ClearByte
<1>6. CASE TakeByte
  BY <1>0, <1>6 DEF TakeByte
<1>7. CASE EraseFram
  BY <1>0, <1>7 DEF EraseFram
<1>8. CASE ResetTransfer
  BY <1>0, <1>8 DEF ResetTransfer
<1>9. CASE ResetCount
  BY <1>0, <1>9 DEF ResetCount
<1>10. CASE ResetSize
  BY <1>0, <1>10 DEF ResetSize
<1>11. CASE ResetDword
  BY <1>0, <1>11 DEF ResetDword
<1>12. CASE RandomInit
  BY <1>0, <1>12 DEF RandomInit
<1>13. CASE EnableWatchdog
  BY <1>0, <1>13 DEF EnableWatchdog
<1>14. CASE SleepDevice
  BY <1>0, <1>14 DEF SleepDevice
<1>15. CASE UNCHANGED vars
  BY <1>0, <1>15 DEF vars
<1> QED
  BY <1>1, <1>2, <1>3, <1>4, <1>5, <1>6, <1>7, <1>8, <1>9, <1>10, <1>11,
    <1>12, <1>13, <1>14, <1>15
  DEF Next, Request, Reset

\* No byte that main can take, and none it hands out, was cut from a word of
\* fewer than NUM_SAMPLE samples, unless the interrupt came between the writes
\* of the latest random_reset: for every word length and every pool size.
THEOREM PoolNeverWeak == Spec => []WeakOnlyByRace
<1>1. Init => EntropyInv
  BY EntropyInit
<1>2. EntropyInv /\ [Next]_vars => EntropyInv'
  BY EntropyStep
<1>3. EntropyInv => WeakOnlyByRace
  BY DEF EntropyInv
<1> QED
  BY <1>1, <1>2, <1>3, PTL DEF Spec

\* With the same exception a finished word is not touched before main has
\* taken it, whatever the interrupt does meanwhile.
THEOREM MailboxNeverTouched == Spec => MailboxStable
<1>1. EntropyInv /\ [Next]_vars =>
        [~raced /\ random_transfer /\ random_transfer'
           => random_dword' = random_dword]_vars
  BY DEF EntropyInv, Next, vars, isrVars, WatchdogIsr, SaveEntropy, RequestByte,
    Request, ReadByte, ClearByte, TakeByte, Reset, EraseFram, ResetTransfer,
    ResetCount, ResetSize, ResetDword, RandomInit, EnableWatchdog, SleepDevice,
    Resetting, InReset
<1>2. Init => EntropyInv
  BY EntropyInit
<1>3. EntropyInv /\ [Next]_vars => EntropyInv'
  BY EntropyStep
<1> QED
  BY <1>1, <1>2, <1>3, PTL DEF Spec, MailboxStable

\* Type correctness of Random.c: no write to the pool passes its end, no byte is
\* taken from below it, and a word never counts more samples than it takes.
THEOREM EntropyTypeCorrect == Spec => []TypeOK
<1>1. Init => EntropyInv
  BY EntropyInit
<1>2. EntropyInv /\ [Next]_vars => EntropyInv'
  BY EntropyStep
<1>3. EntropyInv => TypeOK
  BY DEF EntropyInv, Sizes, Flags, TypeOK, Mixed, Cells
<1> QED
  BY <1>1, <1>2, <1>3, PTL DEF Spec
=============================================================================
