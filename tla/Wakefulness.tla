---------------------------- MODULE Wakefulness ----------------------------
(***************************************************************************)
(* When the wallet sleeps, and how it learns of the user.  One byte,       *)
(* GLOBALS_EVENTS, is shared by main and two interrupts: the millisecond   *)
(* timer, which counts the inactivity and asks for sleep, and the pin      *)
(* change of the buttons, which debounces them.  main runs nested loops of *)
(* program_update, events_get and program_wait (Program.c, Events.c,       *)
(* Timer.c, Sleep.c, Buttons.c, and the loops of main.c, of the            *)
(* confirmation screen and of program_pause_until_event).                  *)
(*                                                                         *)
(* A read-modify-write of the byte that the AVR compiles to several        *)
(* instructions is several steps here; one of a single constant bit is one *)
(* instruction, and one step.  MILLISECOND_TIMER - buttons_lastChange[b]   *)
(* is kept as the age of the last change of b, up to the longest delay it  *)
(* is compared with.                                                       *)
(***************************************************************************)
EXTENDS Naturals, Sequences

CONSTANTS
  Buttons,            \* the buttons of the instance, among 1..4
  INVERSE,            \* OPTIONS_FLAG_OFFSET_ORIENTATION
  PRESS_TIME_MS, RELEASE_TIME_MS, LONG_PRESS_TIME_MS,
  SHUTDOWN_DELAY,
  TIMER_RANGE,        \* the number of values of ACTIVITY_TIMER (2^16)
  WAIT_DELAY,
  LOOP_MS,            \* bound: milliseconds main needs from one check of the sleep request to the next, outside program_wait
  MaxRaces,           \* bound: sleep requests raised between the halves of a read-modify-write
  MaxDepth            \* bound: nested confirmation screens

ASSUME ButtonsAssumption == Buttons \subseteq 1..4
ASSUME InverseAssumption == INVERSE \in BOOLEAN
ASSUME DelaysAssumption ==
  /\ {PRESS_TIME_MS, RELEASE_TIME_MS, LONG_PRESS_TIME_MS} \subseteq Nat
  /\ PRESS_TIME_MS <= LONG_PRESS_TIME_MS /\ RELEASE_TIME_MS <= LONG_PRESS_TIME_MS
ASSUME TimerAssumption ==
  /\ {SHUTDOWN_DELAY, TIMER_RANGE, WAIT_DELAY, LOOP_MS, MaxRaces, MaxDepth} \subseteq Nat
  /\ SHUTDOWN_DELAY < TIMER_RANGE
  /\ WAIT_DELAY + 2 * LOOP_MS < SHUTDOWN_DELAY

EVENT_BUTTON == <<"BUTTON_1", "BUTTON_2", "BUTTON_3", "BUTTON_4">>
EVENT_ALL_BUTTONS == {"BUTTON_1", "BUTTON_2", "BUTTON_3", "BUTTON_4"}
Flags == {"SLEEP_SHUTDOWN", "NO_SLEEP", "FLAG_COM"}

VARIABLES
  GLOBALS_EVENTS,  \* the bits of the event byte that are set
  ACTIVITY_TIMER,
  pins,            \* the buttons held down
  age,             \* how long ago each debounced button last changed
  debounce_state, event_called,
  pinChange,       \* the pin-change interrupt is pending
  frames,          \* the nested loops: "main", then "show" or "confirm"
  pc,              \* where main is in the innermost one
  raws,            \* buttons_debounce: the pins it read
  button,          \* buttons_debounce: i
  reg,             \* the register of a read-modify-write of the event byte
  raise,           \* events_happen: event
  event,           \* what events_get returned
  waiting,         \* program_wait: interrupts still to come, and old_button_state
  spent,           \* milliseconds since the sleep request was last looked at
  races            \* sleep requests raised in the middle of a read-modify-write

interrupts == <<debounce_state, event_called, age, pinChange>>
locals == <<raws, button, reg, raise, event, waiting>>
vars == <<GLOBALS_EVENTS, ACTIVITY_TIMER, pins, interrupts, frames, pc, locals, spent, races>>

\* The event bit of a button: on an inverted screen the nibble is rotated by two.
button_to_event(b) == EVENT_BUTTON[IF INVERSE THEN ((b + 1) % 4) + 1 ELSE b]

buttons_pressed == GLOBALS_EVENTS \cap EVENT_ALL_BUTTONS

Init ==
  /\ GLOBALS_EVENTS = {} /\ ACTIVITY_TIMER = 0
  /\ pins = {} /\ age = [b \in Buttons |-> LONG_PRESS_TIME_MS]
  /\ debounce_state = {} /\ event_called = {} /\ pinChange = FALSE
  /\ frames = <<"main">> /\ pc = "usb"
  /\ raws = {} /\ button = 0 /\ reg = {} /\ raise = "NO_SLEEP" /\ event = {}
  /\ waiting = [left |-> 0, old |-> {}]
  /\ spent = 0 /\ races = 0
-----------------------------------------------------------------------------
\* The user, and the interrupts.  The timer stands still in power-down, and no
\* interrupt is served between cli() and the sleep instruction.

Press(b) ==
  /\ b \notin pins
  /\ pins' = pins \cup {b} /\ pinChange' = TRUE
  /\ UNCHANGED <<GLOBALS_EVENTS, ACTIVITY_TIMER, debounce_state, event_called, age, frames, pc, locals, spent, races>>

Release(b) ==
  /\ b \in pins
  /\ pins' = pins \ {b} /\ pinChange' = TRUE
  /\ UNCHANGED <<GLOBALS_EVENTS, ACTIVITY_TIMER, debounce_state, event_called, age, frames, pc, locals, spent, races>>

WaitOver ==
  \/ waiting.left = 0
  \/ (waiting.left < WAIT_DELAY /\ waiting.old # buttons_pressed)

Idle == pc = "released" \/ (pc = "wait" /\ ~WaitOver)
Split == pc \in {"happen_write", "clear_write"}

WaitLess == [left |-> IF pc = "wait" /\ waiting.left > 0 THEN waiting.left - 1 ELSE waiting.left,
             old  |-> waiting.old]

Timer(activity) ==
  /\ pc # "asleep"
  /\ Idle \/ spent < LOOP_MS
  /\ spent' = IF Idle THEN spent ELSE spent + 1
  /\ ACTIVITY_TIMER' = activity
  /\ IF ACTIVITY_TIMER' = SHUTDOWN_DELAY
     THEN /\ Split => races < MaxRaces
          /\ races' = IF Split THEN races + 1 ELSE races
          /\ GLOBALS_EVENTS' = GLOBALS_EVENTS \cup {"SLEEP_SHUTDOWN"}
     ELSE UNCHANGED <<races, GLOBALS_EVENTS>>
  /\ age' = [b \in Buttons |-> IF age[b] < LONG_PRESS_TIME_MS THEN age[b] + 1 ELSE age[b]]
  /\ waiting' = WaitLess
  /\ UNCHANGED <<pins, debounce_state, event_called, pinChange, frames, pc, raws, button, reg, raise, event>>

KeptAwake == GLOBALS_EVENTS \cap {"NO_SLEEP", "FLAG_COM"} # {}

\* Mutant: a counter that stops at its last value, as SERIAL_TIMEOUT_TIMER does.
TimerIsr_Saturates ==
  Timer(IF KeptAwake \/ ACTIVITY_TIMER = TIMER_RANGE - 1 THEN ACTIVITY_TIMER ELSE ACTIVITY_TIMER + 1)

\* Mutant: a counter wider than its delay needs.
TimerIsr_NoWrap == Timer(IF KeptAwake THEN ACTIVITY_TIMER ELSE ACTIVITY_TIMER + 1)

TimerIsr ==
  Timer(IF KeptAwake THEN ACTIVITY_TIMER ELSE (ACTIVITY_TIMER + 1) % TIMER_RANGE)

\* The debouncer on one button: what it makes of the pin it read.
Changed(b, raw) == raw # (b \in debounce_state)
Age(b, raw) == IF Changed(b, raw) THEN 0 ELSE age[b]

\* Mutant: the event of a press is raised once, however long it lasts.
Signals_Once(b, raw) == raw /\ Age(b, raw) >= PRESS_TIME_MS /\ b \notin event_called

Signals(b, raw) ==
  /\ raw /\ Age(b, raw) >= PRESS_TIME_MS
  /\ b \notin event_called \/ Age(b, raw) >= LONG_PRESS_TIME_MS

Forgets(b, raw) == ~raw /\ Age(b, raw) >= RELEASE_TIME_MS

PinIsr ==
  LET signalled == {b \in Buttons : Signals(b, b \in pins)}
  IN /\ pinChange /\ pc # "asleep"
     /\ pinChange' = FALSE
     /\ debounce_state' = pins
     /\ age' = [b \in Buttons |-> Age(b, b \in pins)]
     /\ event_called' = (event_called \cup signalled) \ {b \in Buttons : Forgets(b, b \in pins)}
     /\ GLOBALS_EVENTS' = GLOBALS_EVENTS \cup {button_to_event(b) : b \in signalled}
     /\ ACTIVITY_TIMER' = IF signalled = {} THEN ACTIVITY_TIMER ELSE 0
     /\ waiting' = WaitLess
     /\ UNCHANGED <<pins, frames, pc, raws, button, reg, raise, event, spent, races>>
-----------------------------------------------------------------------------
\* program_update: the serial commands that matter here.

Go(next) == pc' = next

UsbNothing ==
  /\ pc = "usb" /\ Go("sample")
  /\ UNCHANGED <<GLOBALS_EVENTS, ACTIVITY_TIMER, pins, interrupts, frames, locals, spent, races>>

\* COM_INIT: an open session is dropped, then the confirmation screen runs its
\* own loop inside USB_loop.
UsbInit ==
  /\ pc = "usb" /\ Len(frames) < MaxDepth
  /\ GLOBALS_EVENTS' = GLOBALS_EVENTS \ {"FLAG_COM"}
  /\ frames' = Append(frames, "confirm")
  /\ UNCHANGED <<ACTIVITY_TIMER, pins, interrupts, pc, locals, spent, races>>

\* COM_END, or a command that is aborted.
UsbEnd ==
  /\ pc = "usb" /\ "FLAG_COM" \in GLOBALS_EVENTS
  /\ GLOBALS_EVENTS' = GLOBALS_EVENTS \ {"FLAG_COM"}
  /\ Go("sample")
  /\ UNCHANGED <<ACTIVITY_TIMER, pins, interrupts, frames, locals, spent, races>>

\* buttons_debounce called from main: the pins are read first, then each
\* button is handled in its turn; the interrupt may run in between.
After(b) == CHOOSE next \in Buttons \cup {5} : next > b /\ \A other \in Buttons : other > b => next <= other

Sample ==
  /\ pc = "sample" /\ Go("debounce")
  /\ raws' = pins /\ button' = After(0)
  /\ UNCHANGED <<GLOBALS_EVENTS, ACTIVITY_TIMER, pins, interrupts, frames, reg, raise, event, waiting, spent, races>>

Debounce ==
  /\ pc = "debounce" /\ button \in Buttons
  /\ LET raw == button \in raws
     IN /\ debounce_state' = IF raw THEN debounce_state \cup {button} ELSE debounce_state \ {button}
        /\ age' = [age EXCEPT ![button] = Age(button, raw)]
        /\ event_called' = IF Forgets(button, raw) THEN event_called \ {button} ELSE event_called
        /\ IF Signals(button, raw)
           THEN raise' = button_to_event(button) /\ Go("happen_read") /\ UNCHANGED button
           ELSE button' = After(button) /\ UNCHANGED <<raise, pc>>
  /\ UNCHANGED <<GLOBALS_EVENTS, ACTIVITY_TIMER, pins, pinChange, frames, raws, reg, event, waiting, spent, races>>

DebounceEnd ==
  /\ pc = "debounce" /\ button = 5 /\ Go("check")
  /\ raws' = {} /\ button' = 0
  /\ UNCHANGED <<GLOBALS_EVENTS, ACTIVITY_TIMER, pins, interrupts, frames, reg, raise, event, waiting, spent, races>>

\* events_happen: GLOBALS_EVENTS |= event is a load, an OR and a store.
HappenRead ==
  /\ pc = "happen_read" /\ Go("happen_write")
  /\ reg' = GLOBALS_EVENTS \cup {raise}
  /\ UNCHANGED <<GLOBALS_EVENTS, ACTIVITY_TIMER, pins, interrupts, frames, raws, button, raise, event, waiting, spent, races>>

HappenWrite ==
  /\ pc = "happen_write" /\ Go("happen_zero")
  /\ GLOBALS_EVENTS' = reg /\ reg' = {}
  /\ UNCHANGED <<ACTIVITY_TIMER, pins, interrupts, frames, raws, button, raise, event, waiting, spent, races>>

\* Mutant: an event does not count as activity when main raises it.
HappenZero_KeepsTimer ==
  /\ pc = "happen_zero"
  /\ raise' = "NO_SLEEP"
  /\ IF raise \in EVENT_ALL_BUTTONS
     THEN event_called' = event_called \cup {button} /\ button' = After(button) /\ Go("debounce")
     ELSE UNCHANGED <<event_called, button>> /\ Go("sample")
  /\ UNCHANGED <<GLOBALS_EVENTS, ACTIVITY_TIMER, pins, debounce_state, age, pinChange, frames, raws, reg, event, waiting, spent, races>>

\* Back in the debouncer, which notes that this press was signalled, or in
\* command_init.
HappenZero ==
  /\ pc = "happen_zero"
  /\ ACTIVITY_TIMER' = 0 /\ raise' = "NO_SLEEP"
  /\ IF raise \in EVENT_ALL_BUTTONS
     THEN event_called' = event_called \cup {button} /\ button' = After(button) /\ Go("debounce")
     ELSE UNCHANGED <<event_called, button>> /\ Go("sample")
  /\ UNCHANGED <<GLOBALS_EVENTS, pins, debounce_state, age, pinChange, frames, raws, reg, event, waiting, spent, races>>

Check ==
  /\ pc = "check"
  /\ Go(IF "SLEEP_SHUTDOWN" \in GLOBALS_EVENTS THEN "sleep" ELSE "get")
  /\ GLOBALS_EVENTS' = GLOBALS_EVENTS \ {"SLEEP_SHUTDOWN"}
  /\ spent' = 0
  /\ UNCHANGED <<ACTIVITY_TIMER, pins, interrupts, frames, locals, races>>
-----------------------------------------------------------------------------
\* sleep_device: power-down until a pin changes, then the devices are started
\* again, the activity timer is reset, and it spins until buttons_pressed()
\* is null.

SleepDevice ==
  /\ pc = "sleep" /\ Go("asleep")
  /\ UNCHANGED <<GLOBALS_EVENTS, ACTIVITY_TIMER, pins, interrupts, frames, locals, spent, races>>

WakeUp ==
  /\ pc = "asleep" /\ pinChange /\ Go("waking")
  /\ UNCHANGED <<GLOBALS_EVENTS, ACTIVITY_TIMER, pins, interrupts, frames, locals, spent, races>>

Restart ==
  /\ pc = "waking" /\ Go("released")
  /\ ACTIVITY_TIMER' = 0
  /\ UNCHANGED <<GLOBALS_EVENTS, pins, interrupts, frames, locals, spent, races>>

Released ==
  /\ pc = "released" /\ buttons_pressed = {} /\ Go("get")
  /\ UNCHANGED <<GLOBALS_EVENTS, ACTIVITY_TIMER, pins, interrupts, frames, locals, spent, races>>
-----------------------------------------------------------------------------
\* events_get reads the byte, and then clears the buttons in a second
\* read-modify-write.

EventsGet ==
  /\ pc = "get" /\ Go("clear_read")
  /\ event' = GLOBALS_EVENTS
  /\ UNCHANGED <<GLOBALS_EVENTS, ACTIVITY_TIMER, pins, interrupts, frames, raws, button, reg, raise, waiting, spent, races>>

ClearRead ==
  /\ pc = "clear_read" /\ Go("clear_write")
  /\ reg' = GLOBALS_EVENTS \ EVENT_ALL_BUTTONS
  /\ UNCHANGED <<GLOBALS_EVENTS, ACTIVITY_TIMER, pins, interrupts, frames, raws, button, raise, event, waiting, spent, races>>

ClearWrite ==
  /\ pc = "clear_write" /\ Go("react")
  /\ GLOBALS_EVENTS' = reg /\ reg' = {}
  /\ UNCHANGED <<ACTIVITY_TIMER, pins, interrupts, frames, raws, button, raise, event, waiting, spent, races>>

Pressed == event \cap EVENT_ALL_BUTTONS # {}
Top == frames[Len(frames)]
Front == SubSeq(frames, 1, Len(frames) - 1)

ToWait ==
  /\ Go("wait")
  /\ waiting' = [left |-> WAIT_DELAY, old |-> buttons_pressed]
  /\ event' = {}

\* The loops that end an iteration with program_wait, and with no answer.
ReactWait ==
  /\ pc = "react" /\ Top \in {"main", "confirm"}
  /\ ToWait
  /\ UNCHANGED <<GLOBALS_EVENTS, ACTIVITY_TIMER, pins, interrupts, frames, raws, button, reg, raise, spent, races>>

\* A callback of the menu that waits for a button with sleep disabled.
ReactShow ==
  /\ pc = "react" /\ Top = "main" /\ Pressed
  /\ GLOBALS_EVENTS' = GLOBALS_EVENTS \cup {"NO_SLEEP"}
  /\ frames' = Append(frames, "show") /\ Go("usb") /\ event' = {}
  /\ UNCHANGED <<ACTIVITY_TIMER, pins, interrupts, raws, button, reg, raise, waiting, spent, races>>

\* program_pause_until_event: no program_wait between two updates.
PauseAgain ==
  /\ pc = "react" /\ Top = "show" /\ ~Pressed /\ Go("usb") /\ event' = {}
  /\ UNCHANGED <<GLOBALS_EVENTS, ACTIVITY_TIMER, pins, interrupts, frames, raws, button, reg, raise, waiting, spent, races>>

PauseEnd ==
  /\ pc = "react" /\ Top = "show" /\ Pressed
  /\ GLOBALS_EVENTS' = GLOBALS_EVENTS \ {"NO_SLEEP"}
  /\ frames' = Front
  /\ ToWait
  /\ UNCHANGED <<ACTIVITY_TIMER, pins, interrupts, raws, button, reg, raise, spent, races>>

ConfirmYes ==
  /\ pc = "react" /\ Top = "confirm" /\ Pressed
  /\ frames' = Front
  /\ raise' = "FLAG_COM" /\ Go("happen_read") /\ event' = {}
  /\ UNCHANGED <<GLOBALS_EVENTS, ACTIVITY_TIMER, pins, interrupts, raws, button, reg, waiting, spent, races>>

ConfirmNo ==
  /\ pc = "react" /\ Top = "confirm" /\ Pressed
  /\ frames' = Front /\ Go("sample") /\ event' = {}
  /\ UNCHANGED <<GLOBALS_EVENTS, ACTIVITY_TIMER, pins, interrupts, raws, button, reg, raise, waiting, spent, races>>

WaitEnd ==
  /\ pc = "wait" /\ WaitOver /\ Go("usb")
  /\ waiting' = [left |-> 0, old |-> {}]
  /\ UNCHANGED <<GLOBALS_EVENTS, ACTIVITY_TIMER, pins, interrupts, frames, raws, button, reg, raise, event, spent, races>>
-----------------------------------------------------------------------------
Main ==
  \/ UsbNothing \/ UsbInit \/ UsbEnd
  \/ Sample \/ Debounce \/ DebounceEnd
  \/ HappenRead \/ HappenWrite \/ HappenZero
  \/ Check \/ SleepDevice \/ Restart \/ Released
  \/ EventsGet \/ ClearRead \/ ClearWrite
  \/ ReactWait \/ ReactShow \/ PauseAgain \/ PauseEnd \/ ConfirmYes \/ ConfirmNo
  \/ WaitEnd

User == \E b \in Buttons : Press(b) \/ Release(b)

Next == Main \/ TimerIsr \/ PinIsr \/ WakeUp \/ User

Spec == Init /\ [][Next]_vars

\* main never stops but in power-down, the timer fires every millisecond, a
\* pending interrupt is served.  Nothing is asked of the user.
Fairness == WF_vars(Main) /\ WF_vars(TimerIsr) /\ WF_vars(PinIsr) /\ WF_vars(WakeUp)

FairSpec == Spec /\ Fairness
-----------------------------------------------------------------------------
Frames == {"main", "show", "confirm"}
Points == {"usb", "sample", "debounce", "happen_read", "happen_write", "happen_zero", "check",
           "sleep", "asleep", "waking", "released", "get", "clear_read", "clear_write", "react", "wait"}

\* Type invariant: the activity timer stays within its sixteen bits, ages within
\* the longest delay, and main within its loops.
TypeOK ==
  /\ GLOBALS_EVENTS \subseteq EVENT_ALL_BUTTONS \cup Flags
  /\ reg \subseteq EVENT_ALL_BUTTONS \cup Flags
  /\ event \subseteq EVENT_ALL_BUTTONS \cup Flags
  /\ raise \in EVENT_ALL_BUTTONS \cup Flags
  /\ ACTIVITY_TIMER \in 0..(TIMER_RANGE - 1)
  /\ pins \subseteq Buttons /\ raws \subseteq Buttons
  /\ debounce_state \subseteq Buttons /\ event_called \subseteq Buttons
  /\ age \in [Buttons -> 0..LONG_PRESS_TIME_MS]
  /\ pinChange \in BOOLEAN
  /\ button \in Buttons \cup {0, 5}
  /\ frames \in Seq(Frames) /\ Len(frames) > 0 /\ frames[1] = "main"
  /\ pc \in Points
  /\ waiting \in [left : 0..WAIT_DELAY, old : SUBSET EVENT_ALL_BUTTONS]
  /\ spent \in 0..LOOP_MS /\ races \in 0..MaxRaces

\* The timer interrupt (Timer.c:35) never asks for sleep while sleep is disabled
\* or a serial session is open, not even when the counter was left standing at
\* the delay by a request that a read-modify-write of main wiped out; nor does
\* such a read-modify-write bring an old request back.
RequestAllowed ==
  [][(KeptAwake /\ "SLEEP_SHUTDOWN" \in GLOBALS_EVENTS') => "SLEEP_SHUTDOWN" \in GLOBALS_EVENTS]_vars

Quiet == pins = {} /\ ~pinChange /\ ~KeptAwake /\ frames = <<"main">> /\ pc # "released"

\* Left alone in the main loop, the wallet goes to sleep (SHUTDOWN_DELAY,
\* Globals.h): the counter must come back to the delay even when the one request
\* it made was lost under events_get or events_happen.
IdleSleeps == <>[]Quiet => []<>(pc = "asleep")

\* A button that is held down is seen again and again by the loop that polls for
\* it (Buttons.c:89, "Continuously signaling that the button is pressed"),
\* although main and the interrupt debounce the same bytes and events_get may
\* wipe out what the interrupt has just raised.
HeldSeen == \A b \in Buttons :
  <>[](b \in pins /\ pc \notin {"asleep", "released"}) => []<>(button_to_event(b) \in event)

\* A button wakes the wallet, and the loop that called sleep_device goes on
\* (Sleep.h:9, "Sleep device until a button is pressed.").  What the code does
\* can contradict it: no one clears the event bits that the loop at Sleep.c:100
\* waits for, and one that was set before the sleep stays set.
WakeReturns == pc = "asleep" /\ pinChange ~> pc = "get"
=============================================================================
