-------------------------- MODULE Wakefulness_proofs --------------------------
(***************************************************************************)
(* Proofs about Wakefulness, for every set of buttons, orientation, delays *)
(* and bounds: its type invariant, and that no sleep is requested while    *)
(* sleep is forbidden.                                                     *)
(***************************************************************************)
EXTENDS Wakefulness, TLAPS

Bits == EVENT_ALL_BUTTONS \cup Flags

LEMMA ConstantTypes ==
  /\ PRESS_TIME_MS \in Nat /\ RELEASE_TIME_MS \in Nat /\ LONG_PRESS_TIME_MS \in Nat
  /\ SHUTDOWN_DELAY \in Nat /\ TIMER_RANGE \in Nat /\ WAIT_DELAY \in Nat
  /\ LOOP_MS \in Nat /\ MaxRaces \in Nat /\ MaxDepth \in Nat
  /\ SHUTDOWN_DELAY < TIMER_RANGE
  BY DelaysAssumption, TimerAssumption

\* A button event that is about to be raised is that of the button in hand.
RaisesInHand ==
  pc \in {"happen_read", "happen_write", "happen_zero"} /\ raise \in EVENT_ALL_BUTTONS => button \in Buttons

WakeInv == TypeOK /\ RaisesInHand

LEMMA EventOfButton ==
  ASSUME NEW b \in Buttons
  PROVE  button_to_event(b) \in EVENT_ALL_BUTTONS
  <1>1. b \in {1, 2, 3, 4}
    BY ButtonsAssumption
  <1> QED
    BY <1>1 DEF button_to_event, EVENT_BUTTON, EVENT_ALL_BUTTONS

\* The loop over the buttons goes to the next one of the instance, or to its end.
LEMMA AfterType ==
  ASSUME NEW b \in Buttons \cup {0}
  PROVE  After(b) \in Buttons \cup {5}
  <1> DEFINE Least(next) == next > b /\ \A other \in Buttons : other > b => next <= other
  <1>1. b \in 0..4 /\ Buttons \subseteq 1..4
    BY ButtonsAssumption
  <1>2. \E next \in Buttons \cup {5} : Least(next)
    <2>1. CASE \E n \in Buttons : n > b
      <3>1. PICK n \in Buttons : n > b
        BY <2>1
      <3>2. CASE 1 \in Buttons /\ 1 > b
        BY <1>1, <3>2
      <3>3. CASE ~(1 \in Buttons /\ 1 > b) /\ 2 \in Buttons /\ 2 > b
        BY <1>1, <3>3
      <3>4. CASE ~(1 \in Buttons /\ 1 > b) /\ ~(2 \in Buttons /\ 2 > b) /\ 3 \in Buttons /\ 3 > b
        BY <1>1, <3>4
      <3>5. CASE ~(1 \in Buttons /\ 1 > b) /\ ~(2 \in Buttons /\ 2 > b) /\ ~(3 \in Buttons /\ 3 > b)
        BY <1>1, <3>1, <3>5
      <3> QED
        BY <3>2, <3>3, <3>4, <3>5
    <2>2. CASE \A n \in Buttons : ~(n > b)
      BY <1>1, <2>2
    <2> QED
      BY <2>1, <2>2
  <1> QED
    BY <1>2 DEF After

LEMMA InitWakeInv == Init => WakeInv
  <1> SUFFICES ASSUME Init PROVE WakeInv
    OBVIOUS
  <1>1. frames \in Seq(Frames) /\ Len(frames) > 0 /\ frames[1] = "main"
    BY DEF Init, Frames
  <1>2. age \in [Buttons -> 0..LONG_PRESS_TIME_MS]
    BY ConstantTypes DEF Init
  <1>3. 0 \in 0..(TIMER_RANGE - 1) /\ 0 \in 0..LOOP_MS /\ 0 \in 0..MaxRaces
    BY ConstantTypes
  <1>4. waiting \in [left : 0..WAIT_DELAY, old : SUBSET EVENT_ALL_BUTTONS]
    BY ConstantTypes DEF Init
  <1>5. TypeOK
    BY <1>1, <1>2, <1>3, <1>4 DEF Init, TypeOK, Flags, Points
  <1>6. RaisesInHand
    BY DEF Init, RaisesInHand
  <1> QED
    BY <1>5, <1>6 DEF WakeInv

LEMMA WaitLessType ==
  ASSUME TypeOK
  PROVE  WaitLess \in [left : 0..WAIT_DELAY, old : SUBSET EVENT_ALL_BUTTONS]
  BY ConstantTypes DEF TypeOK, WaitLess

LEMMA AgeType ==
  ASSUME TypeOK, NEW b \in Buttons, NEW raw
  PROVE  Age(b, raw) \in 0..LONG_PRESS_TIME_MS
  BY ConstantTypes DEF TypeOK, Age

\* Every step of main, of an interrupt and of the user keeps the types.
LEMMA StepTypeOK ==
  ASSUME WakeInv, [Next]_vars
  PROVE  TypeOK'
  <1>a. TypeOK
    BY DEF WakeInv
  <1> USE <1>a, ConstantTypes DEF Go, interrupts, locals
  <1>0. CASE UNCHANGED vars
    BY <1>0 DEF TypeOK, vars
  <1>1. ASSUME NEW b \in Buttons, Press(b)
        PROVE  TypeOK'
    BY <1>1 DEF TypeOK, Press
  <1>2. ASSUME NEW b \in Buttons, Release(b)
        PROVE  TypeOK'
    BY <1>2 DEF TypeOK, Release
  <1>3. CASE TimerIsr
    BY <1>3, WaitLessType DEF TypeOK, TimerIsr, Timer, Idle, Split, Flags
  <1>4. CASE PinIsr
    <2>1. age' \in [Buttons -> 0..LONG_PRESS_TIME_MS]
      BY <1>4, AgeType DEF PinIsr
    <2>2. {button_to_event(b) : b \in {c \in Buttons : Signals(c, c \in pins)}} \subseteq EVENT_ALL_BUTTONS
      BY EventOfButton
    <2>3. GLOBALS_EVENTS' \subseteq Bits
      BY <1>4, <2>2 DEF PinIsr, TypeOK, Bits
    <2>4. event_called' \subseteq Buttons
      BY <1>4 DEF PinIsr, TypeOK
    <2>5. ACTIVITY_TIMER' \in 0..(TIMER_RANGE - 1)
      BY <1>4 DEF PinIsr, TypeOK
    <2>6. waiting' \in [left : 0..WAIT_DELAY, old : SUBSET EVENT_ALL_BUTTONS]
      BY <1>4, WaitLessType DEF PinIsr
    <2>7. pinChange' \in BOOLEAN /\ debounce_state' = pins
          /\ UNCHANGED <<pins, frames, pc, raws, button, reg, raise, event, spent, races>>
      BY <1>4 DEF PinIsr
    <2> QED
      BY <2>1, <2>3, <2>4, <2>5, <2>6, <2>7 DEF TypeOK, Bits
  <1>5. CASE UsbNothing \/ UsbEnd
    BY <1>5 DEF TypeOK, UsbNothing, UsbEnd, Points
  <1>6. CASE UsbInit
    <2>1. frames' \in Seq(Frames) /\ Len(frames') > 0 /\ frames'[1] = "main"
      BY <1>6 DEF TypeOK, UsbInit, Frames
    <2> QED
      BY <1>6, <2>1 DEF TypeOK, UsbInit
  <1>7. CASE Sample
    <2>1. After(0) \in Buttons \cup {0, 5}
      BY AfterType
    <2> QED
      BY <1>7, <2>1 DEF TypeOK, Sample, Points
  <1>8. CASE Debounce
    <2>1. button \in Buttons /\ After(button) \in Buttons \cup {5}
      BY <1>8, AfterType DEF Debounce
    <2>2. button_to_event(button) \in EVENT_ALL_BUTTONS
      BY <2>1, EventOfButton
    <2>3. Age(button, button \in raws) \in 0..LONG_PRESS_TIME_MS
      BY <2>1, AgeType
    <2> QED
      BY <1>8, <2>1, <2>2, <2>3 DEF TypeOK, Debounce, Points
  <1>9. CASE DebounceEnd
    BY <1>9 DEF TypeOK, DebounceEnd, Points
  <1>10. CASE HappenRead
    BY <1>10 DEF TypeOK, HappenRead, Points
  <1>11. CASE HappenWrite
    BY <1>11 DEF TypeOK, HappenWrite, Points
  <1>12. CASE HappenZero
    <2>1. CASE raise \in EVENT_ALL_BUTTONS
      <3>1. button \in Buttons
        BY <1>12, <2>1 DEF WakeInv, RaisesInHand, HappenZero
      <3>2. After(button) \in Buttons \cup {5}
        BY <3>1, AfterType
      <3> QED
        BY <1>12, <2>1, <3>1, <3>2 DEF TypeOK, HappenZero, Points, Flags
    <2>2. CASE raise \notin EVENT_ALL_BUTTONS
      BY <1>12, <2>2 DEF TypeOK, HappenZero, Points, Flags
    <2> QED
      BY <2>1, <2>2
  <1>13. CASE Check
    BY <1>13 DEF TypeOK, Check, Points
  <1>14. CASE SleepDevice
    BY <1>14 DEF TypeOK, SleepDevice, Points
  <1>15. CASE WakeUp
    BY <1>15 DEF TypeOK, WakeUp, Points
  <1>16. CASE Restart
    BY <1>16 DEF TypeOK, Restart, Points
  <1>17. CASE Released
    BY <1>17 DEF TypeOK, Released, Points
  <1>18. CASE EventsGet \/ ClearRead \/ ClearWrite
    BY <1>18 DEF TypeOK, EventsGet, ClearRead, ClearWrite, Points
  <1>19. ASSUME ToWait
         PROVE  waiting' \in [left : 0..WAIT_DELAY, old : SUBSET EVENT_ALL_BUTTONS] /\ event' = {} /\ pc' \in Points
    BY <1>19 DEF ToWait, buttons_pressed, Points
  <1>20. ASSUME frames' = Front, Top # "main"
         PROVE  frames' \in Seq(Frames) /\ Len(frames') > 0 /\ frames'[1] = "main"
    <2>1. Len(frames) > 1 /\ Len(frames) \in Nat
      BY <1>20 DEF TypeOK, Top
    <2> QED
      BY <1>20, <2>1 DEF TypeOK, Front
  <1>21. CASE ReactWait
    BY <1>19, <1>21 DEF TypeOK, ReactWait
  <1>22. CASE ReactShow
    <2>1. frames' \in Seq(Frames) /\ Len(frames') > 0 /\ frames'[1] = "main"
      BY <1>22 DEF TypeOK, ReactShow, Frames
    <2> QED
      BY <1>22, <2>1 DEF TypeOK, ReactShow, Points, Flags
  <1>23. CASE PauseAgain
    BY <1>23 DEF TypeOK, PauseAgain, Points
  <1>24. CASE PauseEnd
    BY <1>19, <1>20, <1>24 DEF TypeOK, PauseEnd
  <1>25. CASE ConfirmYes
    BY <1>20, <1>25 DEF TypeOK, ConfirmYes, Points, Flags
  <1>26. CASE ConfirmNo
    BY <1>20, <1>26 DEF TypeOK, ConfirmNo, Points
  <1>27. CASE WaitEnd
    BY <1>27 DEF TypeOK, WaitEnd, Points
  <1> QED
    BY <1>0, <1>1, <1>2, <1>3, <1>4, <1>5, <1>6, <1>7, <1>8, <1>9, <1>10, <1>11, <1>12, <1>13, <1>14, <1>15,
       <1>16, <1>17, <1>18, <1>21, <1>22, <1>23, <1>24, <1>25, <1>26, <1>27
    DEF Next, Main, User

\* Where an event is raised from: the two places that start events_happen.
LEMMA StepRaises ==
  ASSUME WakeInv, [Next]_vars
  PROVE  RaisesInHand'
  <1> USE DEF Go, interrupts, locals, WakeInv, RaisesInHand
  <1>1. CASE UNCHANGED vars
    BY <1>1 DEF vars
  <1>2. CASE TimerIsr \/ PinIsr
    BY <1>2 DEF TimerIsr, Timer, PinIsr
  <1>3. CASE User
    BY <1>3 DEF User, Press, Release
  <1>4. CASE UsbNothing \/ UsbInit \/ UsbEnd \/ Sample \/ DebounceEnd
    BY <1>4 DEF UsbNothing, UsbInit, UsbEnd, Sample, DebounceEnd
  <1>5. CASE Debounce
    BY <1>5 DEF Debounce
  <1>6. CASE HappenRead \/ HappenWrite \/ HappenZero
    BY <1>6 DEF HappenRead, HappenWrite, HappenZero
  <1>7. CASE Check \/ SleepDevice \/ WakeUp \/ Restart \/ Released
    BY <1>7 DEF Check, SleepDevice, WakeUp, Restart, Released
  <1>8. CASE EventsGet \/ ClearRead \/ ClearWrite \/ WaitEnd
    BY <1>8 DEF EventsGet, ClearRead, ClearWrite, WaitEnd
  <1>9. CASE ReactWait \/ ReactShow \/ PauseAgain \/ PauseEnd \/ ConfirmNo
    BY <1>9 DEF ReactWait, ReactShow, PauseAgain, PauseEnd, ConfirmNo, ToWait
  <1>10. CASE ConfirmYes
    BY <1>10 DEF ConfirmYes, EVENT_ALL_BUTTONS
  <1> QED
    BY <1>1, <1>2, <1>3, <1>4, <1>5, <1>6, <1>7, <1>8, <1>9, <1>10 DEF Next, Main

LEMMA WakeInvariant == Spec => []WakeInv
  <1>1. WakeInv /\ [Next]_vars => WakeInv'
    BY StepTypeOK, StepRaises DEF WakeInv
  <1> QED
    BY <1>1, InitWakeInv, PTL DEF Spec

\* Whatever the interleaving of main, the two interrupts and the user
\* (Timer.c, Buttons.c, Program.c), the activity timer stays in its range, the
\* debouncer knows only buttons, and the loops nest over the main one.
THEOREM TypeCorrect == Spec => []TypeOK
  <1>1. WakeInv => TypeOK
    BY DEF WakeInv
  <1> QED
    BY <1>1, WakeInvariant, PTL
-----------------------------------------------------------------------------
(***************************************************************************)
(* No request while sleep is forbidden.  A request is made only when the   *)
(* timer reaches its delay, and the timer stands still from the moment     *)
(* sleep is disabled: what has to be shown is that it stands below the     *)
(* delay.  Sleep is disabled because of a button, whose event set the      *)
(* timer to 0; Bound is the time main can have taken since then to get     *)
(* where it is, and the invariant follows the event from the byte          *)
(* (SeenSoon) to the value of events_get (EventSoon) and to the flag of an *)
(* accepted session (FlagSoon).                                            *)
(***************************************************************************)

\* A register of main holds no bit that the byte does not, but the one it adds.
Copies ==
  /\ pc = "happen_write" => reg \subseteq GLOBALS_EVENTS \cup {raise}
  /\ pc = "clear_write" => reg \subseteq GLOBALS_EVENTS \ EVENT_ALL_BUTTONS

RaiseKnown ==
  pc \in {"happen_read", "happen_write", "happen_zero"} => raise \in EVENT_ALL_BUTTONS \cup {"FLAG_COM"}

Updating == {"usb", "sample", "debounce", "happen_read", "happen_write", "happen_zero", "check"}

Bound ==
  CASE pc = "react"    -> spent
    [] pc = "wait"     -> (WAIT_DELAY - waiting.left) + spent
    [] pc \in Updating -> WAIT_DELAY + spent
    [] OTHER           -> WAIT_DELAY + LOOP_MS + spent

Latest == WAIT_DELAY + LOOP_MS + spent

BeingRaised == pc = "happen_zero" /\ raise \in EVENT_ALL_BUTTONS

SeenSoon ==
  pc # "released" /\ ~BeingRaised /\ buttons_pressed # {} => ACTIVITY_TIMER <= Bound

EventSoon ==
  pc \in {"clear_read", "clear_write", "react"} /\ Pressed => ACTIVITY_TIMER <= Latest

FlagSoon ==
  pc \in {"happen_read", "happen_write"} /\ raise = "FLAG_COM" => ACTIVITY_TIMER <= Latest

AwakeBelow == KeptAwake => ACTIVITY_TIMER < SHUTDOWN_DELAY

AwakeInv == WakeInv /\ Copies /\ RaiseKnown /\ SeenSoon /\ EventSoon /\ FlagSoon /\ AwakeBelow

LEMMA InitAwakeInv == Init => AwakeInv
  <1> SUFFICES ASSUME Init PROVE AwakeInv
    OBVIOUS
  <1>1. WakeInv
    BY InitWakeInv
  <1>2. Copies /\ RaiseKnown /\ SeenSoon /\ EventSoon /\ FlagSoon /\ AwakeBelow
    BY DEF Init, Copies, RaiseKnown, SeenSoon, EventSoon, FlagSoon, AwakeBelow, KeptAwake, buttons_pressed
  <1> QED
    BY <1>1, <1>2 DEF AwakeInv

\* The numbers of the invariant, as the prover needs them.
LEMMA Numbers ==
  ASSUME TypeOK
  PROVE  /\ ACTIVITY_TIMER \in Nat /\ spent \in 0..LOOP_MS /\ waiting.left \in 0..WAIT_DELAY
         /\ WAIT_DELAY \in Nat /\ LOOP_MS \in Nat /\ SHUTDOWN_DELAY \in Nat
         /\ WAIT_DELAY + 2 * LOOP_MS < SHUTDOWN_DELAY
  BY TimerAssumption DEF TypeOK

\* The bit names are distinct.
LEMMA BitsApart ==
  /\ "NO_SLEEP" \notin EVENT_ALL_BUTTONS /\ "FLAG_COM" \notin EVENT_ALL_BUTTONS
  /\ "SLEEP_SHUTDOWN" \notin EVENT_ALL_BUTTONS
  /\ "SLEEP_SHUTDOWN" \notin {"NO_SLEEP", "FLAG_COM"}
  BY DEF EVENT_ALL_BUTTONS

\* What the two interrupts do to the byte and to the timer.
LEMMA TimerStep ==
  ASSUME TypeOK, TimerIsr
  PROVE  /\ ACTIVITY_TIMER' \in Nat /\ ACTIVITY_TIMER' <= ACTIVITY_TIMER + 1
         /\ KeptAwake => ACTIVITY_TIMER' = ACTIVITY_TIMER
         /\ GLOBALS_EVENTS \subseteq GLOBALS_EVENTS'
         /\ GLOBALS_EVENTS' \subseteq GLOBALS_EVENTS \cup {"SLEEP_SHUTDOWN"}
         /\ ACTIVITY_TIMER' # SHUTDOWN_DELAY => GLOBALS_EVENTS' = GLOBALS_EVENTS
         /\ spent' = IF Idle THEN spent ELSE spent + 1
         /\ waiting' = WaitLess
         /\ UNCHANGED <<pc, reg, raise, event>>
  <1>1. ACTIVITY_TIMER' = IF KeptAwake THEN ACTIVITY_TIMER ELSE (ACTIVITY_TIMER + 1) % TIMER_RANGE
    BY DEF TimerIsr, Timer
  <1>2. (ACTIVITY_TIMER + 1) % TIMER_RANGE \in Nat /\ (ACTIVITY_TIMER + 1) % TIMER_RANGE <= ACTIVITY_TIMER + 1
    BY ConstantTypes DEF TypeOK
  <1>3. ACTIVITY_TIMER \in Nat
    BY Numbers
  <1> QED
    BY <1>1, <1>2, <1>3 DEF TimerIsr, Timer

LEMMA PinStep ==
  ASSUME TypeOK, PinIsr
  PROVE  /\ ACTIVITY_TIMER' = 0 \/ (ACTIVITY_TIMER' = ACTIVITY_TIMER /\ GLOBALS_EVENTS' = GLOBALS_EVENTS)
         /\ GLOBALS_EVENTS \subseteq GLOBALS_EVENTS'
         /\ GLOBALS_EVENTS' \subseteq GLOBALS_EVENTS \cup EVENT_ALL_BUTTONS
         /\ waiting' = WaitLess
         /\ UNCHANGED <<pc, reg, raise, event, spent>>
  <1> DEFINE signalled == {b \in Buttons : Signals(b, b \in pins)}
  <1>1. GLOBALS_EVENTS' = GLOBALS_EVENTS \cup {button_to_event(b) : b \in signalled}
    BY DEF PinIsr
  <1>2. ACTIVITY_TIMER' = IF signalled = {} THEN ACTIVITY_TIMER ELSE 0
    BY DEF PinIsr
  <1>3. {button_to_event(b) : b \in signalled} \subseteq EVENT_ALL_BUTTONS
    BY EventOfButton
  <1>4. waiting' = WaitLess /\ UNCHANGED <<pc, reg, raise, event, spent>>
    BY DEF PinIsr
  <1>5. signalled = {} => {button_to_event(b) : b \in signalled} = {}
    OBVIOUS
  <1> HIDE DEF signalled
  <1> QED
    BY <1>1, <1>2, <1>3, <1>4, <1>5

LEMMA StepCopies ==
  ASSUME AwakeInv, [Next]_vars
  PROVE  Copies' /\ RaiseKnown'
  <1>a. TypeOK /\ Copies /\ RaiseKnown
    BY DEF AwakeInv, WakeInv
  <1> USE <1>a DEF Copies, RaiseKnown, Go, interrupts, locals
  <1>1. CASE UNCHANGED vars
    BY <1>1 DEF vars
  <1>2. CASE TimerIsr
    BY <1>2, TimerStep
  <1>3. CASE PinIsr
    BY <1>3, PinStep
  <1>4. CASE User
    BY <1>4 DEF User, Press, Release
  <1>5. CASE UsbNothing \/ UsbInit \/ UsbEnd \/ Sample \/ DebounceEnd
    BY <1>5 DEF UsbNothing, UsbInit, UsbEnd, Sample, DebounceEnd
  <1>6. CASE Debounce
    <2>1. button_to_event(button) \in EVENT_ALL_BUTTONS
      BY <1>6, EventOfButton DEF Debounce
    <2> QED
      BY <1>6, <2>1 DEF Debounce
  <1>7. CASE HappenRead \/ HappenWrite \/ HappenZero
    BY <1>7 DEF HappenRead, HappenWrite, HappenZero
  <1>8. CASE Check \/ SleepDevice \/ WakeUp \/ Restart \/ Released
    BY <1>8 DEF Check, SleepDevice, WakeUp, Restart, Released
  <1>9. CASE EventsGet \/ ClearRead \/ ClearWrite \/ WaitEnd
    BY <1>9 DEF EventsGet, ClearRead, ClearWrite, WaitEnd
  <1>10. CASE ReactWait \/ ReactShow \/ PauseAgain \/ PauseEnd \/ ConfirmYes \/ ConfirmNo
    BY <1>10 DEF ReactWait, ReactShow, PauseAgain, PauseEnd, ConfirmYes, ConfirmNo, ToWait
  <1> QED
    BY <1>1, <1>2, <1>3, <1>4, <1>5, <1>6, <1>7, <1>8, <1>9, <1>10 DEF Next, Main

\* A millisecond more on the timer is a millisecond more in the bound.
LEMMA BoundTicks ==
  ASSUME TypeOK, TimerIsr, pc # "released"
  PROVE  Bound \in Nat /\ Bound' \in Nat /\ Bound' >= Bound + 1
  <1>1. /\ spent' = IF Idle THEN spent ELSE spent + 1
        /\ waiting' = WaitLess /\ pc' = pc
    BY TimerStep
  <1>2. CASE pc = "wait"
    <2>1. Idle => waiting.left # 0
      BY <1>2 DEF Idle, WaitOver
    <2>2. waiting'.left = IF waiting.left > 0 THEN waiting.left - 1 ELSE waiting.left
      BY <1>1, <1>2 DEF WaitLess
    <2>3. Bound = (WAIT_DELAY - waiting.left) + spent /\ Bound' = (WAIT_DELAY - waiting'.left) + spent'
      BY <1>1, <1>2 DEF Bound, Updating
    <2> QED
      BY <1>1, <2>1, <2>2, <2>3, Numbers
  <1>3. CASE pc # "wait"
    <2>1. spent' = spent + 1
      BY <1>1, <1>3 DEF Idle
    <2> QED
      BY <1>1, <1>3, <2>1, Numbers DEF Bound
  <1> QED
    BY <1>2, <1>3

LEMMA StepSeen ==
  ASSUME AwakeInv, [Next]_vars
  PROVE  SeenSoon'
  <1>a. TypeOK /\ Copies /\ RaiseKnown /\ SeenSoon
    BY DEF AwakeInv, WakeInv
  <1> USE <1>a, Numbers DEF Go, interrupts, locals
  <1>1. CASE UNCHANGED vars
    BY <1>1 DEF vars, SeenSoon, BeingRaised, Bound, buttons_pressed
  <1>2. CASE TimerIsr
    <2>1. /\ UNCHANGED <<pc, raise>>
          /\ ACTIVITY_TIMER' \in Nat /\ ACTIVITY_TIMER' <= ACTIVITY_TIMER + 1
      BY <1>2, TimerStep
    <2>2. buttons_pressed' = buttons_pressed
      BY <1>2, TimerStep, BitsApart DEF buttons_pressed
    <2>3. pc # "released" => Bound \in Nat /\ Bound' \in Nat /\ Bound' >= Bound + 1
      BY <1>2, BoundTicks
    <2> QED
      BY <2>1, <2>2, <2>3 DEF SeenSoon, BeingRaised
  <1>3. CASE PinIsr
    <2>1. Bound \in Nat /\ Bound' \in Nat /\ Bound' >= Bound /\ Bound' >= 0
      BY <1>3, PinStep DEF Bound, WaitLess
    <2>2. ACTIVITY_TIMER' = 0 \/ (ACTIVITY_TIMER' = ACTIVITY_TIMER /\ buttons_pressed' = buttons_pressed)
      BY <1>3, PinStep DEF buttons_pressed
    <2> QED
      BY <1>3, <2>1, <2>2, PinStep DEF SeenSoon, BeingRaised
  <1>4. CASE User
    BY <1>4 DEF User, Press, Release, SeenSoon, BeingRaised, Bound, buttons_pressed
  <1>5. CASE UsbNothing \/ UsbInit \/ UsbEnd
    <2>1. buttons_pressed' = buttons_pressed
      BY <1>5, BitsApart DEF UsbNothing, UsbInit, UsbEnd, buttons_pressed
    <2>2. pc = "usb" /\ pc' \in {"usb", "sample"} /\ UNCHANGED <<ACTIVITY_TIMER, spent, raise>>
      BY <1>5 DEF UsbNothing, UsbInit, UsbEnd
    <2> QED
      BY <2>1, <2>2 DEF SeenSoon, BeingRaised, Bound, Updating
  <1>6. CASE Sample \/ Debounce \/ DebounceEnd
    <2>1. pc \in {"sample", "debounce"} /\ pc' \in {"debounce", "happen_read", "check"}
          /\ UNCHANGED <<ACTIVITY_TIMER, spent, GLOBALS_EVENTS>>
      BY <1>6 DEF Sample, Debounce, DebounceEnd
    <2> QED
      BY <2>1 DEF SeenSoon, BeingRaised, Bound, Updating, buttons_pressed
  <1>7. CASE HappenRead
    BY <1>7 DEF HappenRead, SeenSoon, BeingRaised, Bound, Updating, buttons_pressed
  <1>8. CASE HappenWrite
    <2>1. pc = "happen_write" /\ pc' = "happen_zero" /\ GLOBALS_EVENTS' = reg
          /\ UNCHANGED <<ACTIVITY_TIMER, spent, raise>>
      BY <1>8 DEF HappenWrite
    <2>2. CASE raise \in EVENT_ALL_BUTTONS
      BY <2>1, <2>2 DEF SeenSoon, BeingRaised
    <2>3. CASE raise \notin EVENT_ALL_BUTTONS
      <3>1. buttons_pressed' \subseteq buttons_pressed
        BY <2>1, <2>3 DEF Copies, buttons_pressed
      <3> QED
        BY <2>1, <2>3, <3>1 DEF SeenSoon, BeingRaised, Bound, Updating
    <2> QED
      BY <2>2, <2>3
  <1>9. CASE HappenZero \/ Restart
    <2>1. ACTIVITY_TIMER' = 0 /\ UNCHANGED <<spent, waiting>> /\ pc' \in {"debounce", "sample", "released"}
      BY <1>9 DEF HappenZero, Restart
    <2> QED
      BY <2>1 DEF SeenSoon, Bound, Updating
  <1>10. CASE Check
    <2>1. pc = "check" /\ pc' \in {"sleep", "get"} /\ spent' = 0 /\ ACTIVITY_TIMER' = ACTIVITY_TIMER
      BY <1>10 DEF Check
    <2>2. buttons_pressed' = buttons_pressed
      BY <1>10, BitsApart DEF Check, buttons_pressed
    <2> QED
      BY <2>1, <2>2 DEF SeenSoon, BeingRaised, Bound, Updating
  <1>11. CASE SleepDevice \/ WakeUp \/ EventsGet \/ ClearRead
    <2>1. pc \in {"sleep", "asleep", "get", "clear_read"} /\ pc' \in {"asleep", "waking", "clear_read", "clear_write"}
          /\ UNCHANGED <<ACTIVITY_TIMER, spent, GLOBALS_EVENTS>>
      BY <1>11 DEF SleepDevice, WakeUp, EventsGet, ClearRead
    <2> QED
      BY <2>1 DEF SeenSoon, BeingRaised, Bound, Updating, buttons_pressed
  <1>12. CASE Released
    BY <1>12 DEF Released, SeenSoon, buttons_pressed
  <1>13. CASE ClearWrite
    BY <1>13 DEF ClearWrite, Copies, SeenSoon, buttons_pressed
  <1>14. CASE ReactShow \/ PauseAgain \/ ConfirmYes \/ ConfirmNo
    <2>1. buttons_pressed' = buttons_pressed
      BY <1>14, BitsApart DEF ReactShow, PauseAgain, ConfirmYes, ConfirmNo, buttons_pressed
    <2>2. pc = "react" /\ pc' \in {"usb", "happen_read", "sample"} /\ UNCHANGED <<ACTIVITY_TIMER, spent>>
      BY <1>14 DEF ReactShow, PauseAgain, ConfirmYes, ConfirmNo
    <2> QED
      BY <2>1, <2>2 DEF SeenSoon, BeingRaised, Bound, Updating
  <1>15. CASE ReactWait \/ PauseEnd
    <2>1. buttons_pressed' = buttons_pressed
      BY <1>15, BitsApart DEF ReactWait, PauseEnd, buttons_pressed
    <2>2. pc = "react" /\ pc' = "wait" /\ waiting'.left = WAIT_DELAY /\ UNCHANGED <<ACTIVITY_TIMER, spent>>
      BY <1>15 DEF ReactWait, PauseEnd, ToWait
    <2>3. Bound = spent /\ Bound' = (WAIT_DELAY - waiting'.left) + spent'
      BY <2>2 DEF Bound, Updating
    <2> QED
      BY <2>1, <2>2, <2>3 DEF SeenSoon, BeingRaised
  <1>16. CASE WaitEnd
    BY <1>16 DEF WaitEnd, SeenSoon, BeingRaised, Bound, Updating, buttons_pressed
  <1> QED
    BY <1>1, <1>2, <1>3, <1>4, <1>5, <1>6, <1>7, <1>8, <1>9, <1>10, <1>11, <1>12, <1>13, <1>14, <1>15, <1>16
    DEF Next, Main

LEMMA StepEvent ==
  ASSUME AwakeInv, [Next]_vars
  PROVE  EventSoon' /\ FlagSoon'
  <1>a. TypeOK /\ SeenSoon /\ EventSoon /\ FlagSoon
    BY DEF AwakeInv, WakeInv
  <1> USE <1>a, Numbers DEF Go, interrupts, locals
  <1>1. CASE UNCHANGED vars \/ User
    BY <1>1 DEF vars, User, Press, Release, EventSoon, FlagSoon, Pressed, Latest
  <1>2. CASE TimerIsr
    <2>1. /\ UNCHANGED <<pc, raise, event>>
          /\ ACTIVITY_TIMER' \in Nat /\ ACTIVITY_TIMER' <= ACTIVITY_TIMER + 1
          /\ ~Idle => spent' = spent + 1
      BY <1>2, TimerStep
    <2> QED
      BY <2>1 DEF EventSoon, FlagSoon, Pressed, Latest, Idle
  <1>3. CASE PinIsr
    BY <1>3, PinStep DEF EventSoon, FlagSoon, Pressed, Latest
  <1>4. CASE UsbNothing \/ UsbInit \/ UsbEnd \/ Sample \/ DebounceEnd
    BY <1>4 DEF UsbNothing, UsbInit, UsbEnd, Sample, DebounceEnd, EventSoon, FlagSoon
  <1>5. CASE Debounce
    <2>1. button_to_event(button) \in EVENT_ALL_BUTTONS
      BY <1>5, EventOfButton DEF Debounce
    <2>2. pc' \in {"debounce", "happen_read"} /\ (pc' = "happen_read" => raise' = button_to_event(button))
      BY <1>5 DEF Debounce
    <2> QED
      BY <2>1, <2>2, BitsApart DEF EventSoon, FlagSoon
  <1>6. CASE HappenRead \/ HappenWrite \/ HappenZero
    BY <1>6 DEF HappenRead, HappenWrite, HappenZero, EventSoon, FlagSoon, Latest
  <1>7. CASE Check \/ SleepDevice \/ WakeUp \/ Restart \/ Released \/ WaitEnd
    BY <1>7 DEF Check, SleepDevice, WakeUp, Restart, Released, WaitEnd, EventSoon, FlagSoon
  <1>8. CASE EventsGet
    <2>1. pc = "get" /\ pc' = "clear_read" /\ event' = GLOBALS_EVENTS /\ UNCHANGED <<ACTIVITY_TIMER, spent>>
      BY <1>8 DEF EventsGet
    <2>2. Pressed' <=> buttons_pressed # {}
      BY <2>1 DEF Pressed, buttons_pressed
    <2> QED
      BY <2>1, <2>2 DEF SeenSoon, BeingRaised, Bound, Updating, EventSoon, FlagSoon, Latest
  <1>9. CASE ClearRead \/ ClearWrite
    BY <1>9 DEF ClearRead, ClearWrite, EventSoon, FlagSoon, Pressed, Latest
  <1>10. CASE ReactWait \/ ReactShow \/ PauseAgain \/ PauseEnd \/ ConfirmNo
    BY <1>10 DEF ReactWait, ReactShow, PauseAgain, PauseEnd, ConfirmNo, ToWait, EventSoon, FlagSoon
  <1>11. CASE ConfirmYes
    BY <1>11 DEF ConfirmYes, EventSoon, FlagSoon, Latest
  <1> QED
    BY <1>1, <1>2, <1>3, <1>4, <1>5, <1>6, <1>7, <1>8, <1>9, <1>10, <1>11 DEF Next, Main

LEMMA StepAwake ==
  ASSUME AwakeInv, [Next]_vars
  PROVE  AwakeBelow'
  <1>a. TypeOK /\ Copies /\ RaiseKnown /\ EventSoon /\ FlagSoon /\ AwakeBelow
    BY DEF AwakeInv, WakeInv
  <1> USE <1>a, Numbers DEF Go, interrupts, locals
  <1>1. CASE UNCHANGED vars \/ User
    BY <1>1 DEF vars, User, Press, Release, AwakeBelow, KeptAwake
  <1>2. CASE TimerIsr
    <2>1. KeptAwake' => KeptAwake
      BY <1>2, TimerStep, BitsApart DEF KeptAwake
    <2> QED
      BY <1>2, <2>1, TimerStep DEF AwakeBelow
  <1>3. CASE PinIsr
    <2>1. KeptAwake' => KeptAwake
      BY <1>3, PinStep, BitsApart DEF KeptAwake
    <2> QED
      BY <1>3, <2>1, PinStep DEF AwakeBelow
  <1>4. CASE UsbNothing \/ UsbInit \/ UsbEnd \/ Check \/ PauseEnd
    BY <1>4 DEF UsbNothing, UsbInit, UsbEnd, Check, PauseEnd, AwakeBelow, KeptAwake
  <1>5. CASE Sample \/ Debounce \/ DebounceEnd \/ HappenRead \/ SleepDevice \/ WakeUp \/ Released
    BY <1>5 DEF Sample, Debounce, DebounceEnd, HappenRead, SleepDevice, WakeUp, Released, AwakeBelow, KeptAwake
  <1>6. CASE HappenZero \/ Restart
    BY <1>6 DEF HappenZero, Restart, AwakeBelow, KeptAwake
  <1>7. CASE HappenWrite
    <2>1. pc = "happen_write" /\ GLOBALS_EVENTS' = reg /\ ACTIVITY_TIMER' = ACTIVITY_TIMER
      BY <1>7 DEF HappenWrite
    <2>2. CASE raise = "FLAG_COM"
      BY <2>1, <2>2 DEF FlagSoon, Latest, AwakeBelow
    <2>3. CASE raise # "FLAG_COM"
      <3>1. KeptAwake' => KeptAwake
        BY <2>1, <2>3, BitsApart DEF Copies, RaiseKnown, KeptAwake
      <3> QED
        BY <2>1, <3>1 DEF AwakeBelow
    <2> QED
      BY <2>2, <2>3
  <1>8. CASE EventsGet \/ ClearRead \/ WaitEnd
    BY <1>8 DEF EventsGet, ClearRead, WaitEnd, AwakeBelow, KeptAwake
  <1>9. CASE ClearWrite
    BY <1>9 DEF ClearWrite, Copies, AwakeBelow, KeptAwake
  <1>10. CASE ReactShow
    BY <1>10 DEF ReactShow, EventSoon, Latest, AwakeBelow
  <1>11. CASE ReactWait \/ PauseAgain \/ ConfirmYes \/ ConfirmNo
    BY <1>11 DEF ReactWait, PauseAgain, ConfirmYes, ConfirmNo, AwakeBelow, KeptAwake
  <1> QED
    BY <1>1, <1>2, <1>3, <1>4, <1>5, <1>6, <1>7, <1>8, <1>9, <1>10, <1>11 DEF Next, Main

\* No step makes a request while sleep is forbidden: the timer interrupt needs
\* the delay, main's registers hold no request that the byte does not.
LEMMA StepAllowed ==
  ASSUME AwakeInv, [Next]_vars, KeptAwake, "SLEEP_SHUTDOWN" \in GLOBALS_EVENTS'
  PROVE  "SLEEP_SHUTDOWN" \in GLOBALS_EVENTS
  <1>a. TypeOK /\ Copies /\ RaiseKnown /\ AwakeBelow
    BY DEF AwakeInv, WakeInv
  <1> USE <1>a, Numbers, BitsApart DEF interrupts, locals
  <1>1. CASE UNCHANGED vars \/ User
    BY <1>1 DEF vars, User, Press, Release
  <1>2. CASE TimerIsr
    BY <1>2, TimerStep DEF AwakeBelow
  <1>3. CASE PinIsr
    BY <1>3, PinStep
  <1>4. CASE HappenWrite
    BY <1>4 DEF HappenWrite, Copies, RaiseKnown
  <1>5. CASE ClearWrite
    BY <1>5 DEF ClearWrite, Copies
  <1>6. CASE UsbNothing \/ UsbInit \/ UsbEnd \/ Sample \/ Debounce \/ DebounceEnd \/ HappenRead \/ HappenZero
    BY <1>6 DEF UsbNothing, UsbInit, UsbEnd, Sample, Debounce, DebounceEnd, HappenRead, HappenZero
  <1>7. CASE Check \/ SleepDevice \/ WakeUp \/ Restart \/ Released \/ EventsGet \/ ClearRead
    BY <1>7 DEF Check, SleepDevice, WakeUp, Restart, Released, EventsGet, ClearRead
  <1>8. CASE ReactWait \/ ReactShow \/ PauseAgain \/ PauseEnd \/ ConfirmYes \/ ConfirmNo \/ WaitEnd
    BY <1>8 DEF ReactWait, ReactShow, PauseAgain, PauseEnd, ConfirmYes, ConfirmNo, WaitEnd
  <1> QED
    BY <1>1, <1>2, <1>3, <1>4, <1>5, <1>6, <1>7, <1>8 DEF Next, Main

\* The timer interrupt (Timer.c:35) asks for no sleep, and main brings back no
\* old request, while sleep is disabled or a session is open: whatever the
\* delays, as long as a wait of the main loop and two of its turns are shorter
\* than the sleep delay.
THEOREM NoForbiddenSleep == Spec => RequestAllowed
  <1>1. AwakeInv /\ [Next]_vars => AwakeInv'
    BY StepTypeOK, StepRaises, StepCopies, StepSeen, StepEvent, StepAwake DEF AwakeInv, WakeInv
  <1>2. AwakeInv /\ [Next]_vars
          => [(KeptAwake /\ "SLEEP_SHUTDOWN" \in GLOBALS_EVENTS') => "SLEEP_SHUTDOWN" \in GLOBALS_EVENTS]_vars
    BY StepAllowed
  <1> QED
    BY <1>1, <1>2, InitAwakeInv, PTL DEF Spec, RequestAllowed
=============================================================================
