--------------------------- MODULE Communication ---------------------------
(***************************************************************************)
(* The serial protocol: the computer asks for a session, the user accepts  *)
(* it on the wallet, and commands then read and write the FRAM and the key *)
(* (Process.c, Commands.c, CDC_Task and serial_send of Serial.c).          *)
(*                                                                         *)
(* com_process_data is re-entered.  The confirmation screen of             *)
(* command_init runs program_update, and every serial_send runs CDC_Task,  *)
(* which takes the next packet once its own bytes are gone: `stack` holds  *)
(* the suspended calls, the last one running.  A reply goes out in two     *)
(* sends, its id and the rest.  A byte is a number; a packet is never      *)
(* empty.  Replies to a closed port are lost.                              *)
(***************************************************************************)
EXTENDS Integers, Sequences

CONSTANTS
  CDC_TXRX_EPSIZE,  \* bytes in a packet (16)
  SIZE_BYTES,       \* bytes of the size in a header (3)
  ADDRESS_BYTES,    \* bytes of the address of COM_SET_FRAM (3)
  FRAM_BYTE_SIZE,
  Commands,         \* what the host may send, as bytes
  RightKey,         \* the key that the validation accepts
  MaxLink,          \* bound: packets on their way
  MaxDepth          \* bound: calls of com_process_data when the host connects

ASSUME SizesAssumption ==
  /\ {CDC_TXRX_EPSIZE, FRAM_BYTE_SIZE, MaxLink, MaxDepth} \subseteq Nat \ {0}
  /\ SIZE_BYTES \in 1..3 /\ ADDRESS_BYTES \in 1..3
ASSUME CommandsAssumption == Commands \subseteq Seq(0..255) /\ RightKey \in Seq(0..255)

COM_OK == 0
COM_ERR_NOT_INIT == 1
COM_INIT == 2
COM_END == 3
COM_ERR_UNAVAILABLE == 4
COM_BAD_KEY == 5
COM_GET_FRAM == 16
COM_GET_KEY == 17
COM_GET_PARAM == 18
COM_GET_VERSION == 19
COM_SET_FRAM == 32
COM_SET_KEY == 33
COM_FRAM == 48
COM_KEY == 49
COM_PARAM == 50
COM_VERSION == 51
COM_RESET == 52

\* byte << 8*n
Shifted(byte, n) == byte * <<1, 256, 65536>>[n + 1]

\* The number in the n bytes that follow a place.
Number(bytes, place, n) ==
  LET part(k) == IF k <= n THEN Shifted(bytes[place + k], k - 1) ELSE 0
  IN part(1) + part(2) + part(3)

\* What the protocol calls a command, in the bytes of SerialCommand::toByteArray: it
\* carries the size of its data, only what is written comes in more than a packet,
\* and only Connect asks for a session (SerialInterface::connectSerial).  A key
\* is no longer than a key, and what is written lies in the memory: command_set_key
\* and command_set_fram look at neither, and the model has no word for what is
\* behind the array or for an address that the memory chip wraps.
WellFormed(bytes) ==
  /\ Len(bytes) > SIZE_BYTES /\ Len(bytes) = 1 + SIZE_BYTES + Number(bytes, 1, SIZE_BYTES)
  /\ bytes[1] # COM_INIT
  /\ \/ bytes[1] \in {COM_SET_FRAM, COM_SET_KEY}
     \/ Len(bytes) <= CDC_TXRX_EPSIZE \/ Number(bytes, 1, SIZE_BYTES) = 0
  /\ bytes[1] = COM_SET_KEY => Number(bytes, 1, SIZE_BYTES) <= Len(RightKey)
  /\ bytes[1] = COM_SET_FRAM /\ Number(bytes, 1, SIZE_BYTES) > ADDRESS_BYTES =>
       Number(bytes, 1 + SIZE_BYTES, ADDRESS_BYTES) + Number(bytes, 1, SIZE_BYTES)
         <= ADDRESS_BYTES + FRAM_BYTE_SIZE

ASSUME WellFormedAssumption == \A bytes \in Commands : WellFormed(bytes)

Init_ == <<COM_INIT>> \o [i \in 1..SIZE_BYTES |-> 0]

VARIABLES
  host,           \* "closed", "opening", "open", or "busy" with a command
  asked,          \* the bytes of the last command of the host
  unsent,         \* those not yet cut into packets
  link,           \* packets the wallet has not taken yet
  out,            \* what the wallet has sent and the host has not read
  FLAG_COM, KEY_ENTERED, KEY, fram,
  com_state, sized, \* where com_process_data is, and how many bytes of the size it has
  id, totalSize,    \* CURRENT_COMMAND
  com_bytes_processed,
  COM_POS, COM_PARAMETER,
  timeout,        \* SERIAL_TIMEOUT_TIMER = SERIAL_TIMEOUT
  stack           \* the calls of com_process_data

hostVars == <<host, asked, unsent>>
parser == <<com_state, sized, id, totalSize, com_bytes_processed>>
session == <<FLAG_COM, KEY_ENTERED, KEY, fram, COM_POS, COM_PARAMETER>>
vars == <<hostVars, link, out, parser, session, timeout, stack>>

Init ==
  /\ host = "closed" /\ asked = <<>> /\ unsent = <<>>
  /\ link = <<>> /\ out = <<>>
  /\ FLAG_COM = FALSE /\ KEY_ENTERED = FALSE
  /\ KEY = [i \in 1..Len(RightKey) |-> 0]
  /\ fram = [a \in 0..(FRAM_BYTE_SIZE - 1) |-> 0]
  /\ com_state = "ID" /\ sized = 0 /\ id = 0 /\ totalSize = 0 /\ com_bytes_processed = 0
  /\ COM_POS = 0 /\ COM_PARAMETER = 0
  /\ timeout = FALSE
  /\ stack = <<>>

\* A call: `at` is its place; data and left are its arguments as they stand;
\* reply is what it sends, and `next` where it goes on.
Call(packet) == [at |-> "start", data |-> packet, left |-> Len(packet), reply |-> COM_OK, next |-> "after"]
Top == stack[Len(stack)]
At(place) == stack # <<>> /\ Top.at = place
Become(call) == stack' = [stack EXCEPT ![Len(stack)] = call]
Goto(place) == Become([Top EXCEPT !.at = place])
Now(place, left, reply, next) ==
  [at |-> place, data |-> Top.data, left |-> left, reply |-> reply, next |-> next]
Send(reply, next) == Become(Now("send_id", Top.left, reply, next))
-----------------------------------------------------------------------------
\* The host is the desktop application in the hands of a user who waits for each
\* answer before he asks for more, and connects again after the timeout, when his
\* packets have been dealt with: SerialInterface enforces neither.

Connect ==
  /\ host = "closed" /\ link = <<>> /\ timeout /\ Len(stack) < MaxDepth
  /\ stack = <<>> \/ At("confirm")
  /\ host' = "opening" /\ asked' = Init_ /\ unsent' = Init_ /\ out' = <<>>
  /\ UNCHANGED <<link, parser, session, timeout, stack>>

Command ==
  /\ host = "open" /\ unsent = <<>>
  /\ \E bytes \in Commands : asked' = bytes /\ unsent' = bytes
  /\ host' = "busy"
  /\ UNCHANGED <<link, out, parser, session, timeout, stack>>

Deliver ==
  /\ unsent # <<>> /\ Len(link) < MaxLink
  /\ LET n == IF Len(unsent) < CDC_TXRX_EPSIZE THEN Len(unsent) ELSE CDC_TXRX_EPSIZE
     IN link' = Append(link, SubSeq(unsent, 1, n)) /\ unsent' = SubSeq(unsent, n + 1, Len(unsent))
  /\ UNCHANGED <<host, asked, out, parser, session, timeout, stack>>

Whole(i) == i < Len(out) /\ out[i].part = "id" /\ out[i + 1] = [reply |-> out[i].reply, part |-> "rest"]

\* on_dataReceived hands each whole reply on; that the session is over after a
\* COM_END or a COM_ERR_NOT_INIT is how the user reads them in the terminal.
ReadReply ==
  /\ host # "closed" /\ Whole(1)
  /\ host' = IF out[1].reply \in {COM_END, COM_ERR_NOT_INIT} THEN "closed" ELSE "open"
  /\ out' = IF host' = "closed" THEN <<>> ELSE SubSeq(out, 3, Len(out))
  /\ unsent' = IF host' = "closed" THEN <<>> ELSE unsent
  /\ UNCHANGED <<asked, link, parser, session, timeout, stack>>

GiveUp ==
  /\ host # "closed"
  /\ host' = "closed" /\ unsent' = <<>> /\ out' = <<>>
  /\ UNCHANGED <<asked, link, parser, session, timeout, stack>>

\* The millisecond timer reaches its end whenever the wallet was busy elsewhere
\* or the host was slow.
Expire ==
  /\ ~timeout /\ timeout' = TRUE
  /\ UNCHANGED <<hostVars, link, out, parser, session, stack>>
-----------------------------------------------------------------------------
\* CDC_Task takes one packet: from the main loop, from the loop of the
\* confirmation screen, and after each send.

Take == link' = Tail(link) /\ stack' = Append(stack, Call(Head(link)))

Poll ==
  /\ stack = <<>> \/ At("confirm")
  /\ link # <<>> /\ Take
  /\ UNCHANGED <<hostVars, out, parser, session, timeout>>

Sent(place) ==
  LET calls == [stack EXCEPT ![Len(stack)].at = place]
  IN IF link = <<>>
     THEN stack' = calls /\ UNCHANGED link
     ELSE stack' = Append(calls, Call(Head(link))) /\ link' = Tail(link)

Out(part) == out' = IF host = "closed" THEN out ELSE Append(out, [reply |-> Top.reply, part |-> part])

SendId ==
  /\ At("send_id") /\ Out("id") /\ Sent("send_rest")
  /\ UNCHANGED <<hostVars, parser, session, timeout>>

SendRest ==
  /\ At("send_rest") /\ Out("rest") /\ Sent(Top.next)
  /\ UNCHANGED <<hostVars, parser, session, timeout>>
-----------------------------------------------------------------------------
\* com_process_data: the timeout, then byte after byte.

\* Mutant: a command that was cut off waits for its end for ever.
Start_NoTimeout ==
  /\ At("start") /\ Goto("loop") /\ timeout' = FALSE
  /\ UNCHANGED <<hostVars, link, out, parser, session>>

\* Mutant: the host is not told that its session is over.
Start_Silent ==
  /\ At("start")
  /\ IF timeout /\ com_state # "ID"
     THEN Goto("aborted") /\ UNCHANGED timeout
     ELSE Goto("loop") /\ timeout' = FALSE
  /\ UNCHANGED <<hostVars, link, out, parser, session>>

Start ==
  /\ At("start")
  /\ IF timeout /\ com_state # "ID"
     THEN Send(COM_END, "aborted") /\ UNCHANGED timeout
     ELSE Goto("loop") /\ timeout' = FALSE
  /\ UNCHANGED <<hostVars, link, out, parser, session>>

\* com_abort, once its reply is sent.  Mutants: it forgets one of the two statics.
Cleared_KeepsPosition ==
  FLAG_COM' = FALSE /\ COM_PARAMETER' = 0 /\ UNCHANGED <<COM_POS, KEY_ENTERED, KEY, fram>>

Cleared_KeepsParameter ==
  FLAG_COM' = FALSE /\ COM_POS' = 0 /\ UNCHANGED <<COM_PARAMETER, KEY_ENTERED, KEY, fram>>

Cleared == FLAG_COM' = FALSE /\ COM_POS' = 0 /\ COM_PARAMETER' = 0 /\ UNCHANGED <<KEY_ENTERED, KEY, fram>>

\* It returns to com_process_data ...
Aborted ==
  /\ At("aborted") /\ Goto("loop")
  /\ Cleared
  /\ com_state' = "ID" /\ timeout' = FALSE
  /\ UNCHANGED <<hostVars, link, out, sized, id, totalSize, com_bytes_processed>>

Picked ==
  Become([at |-> "loop", data |-> Tail(Top.data), left |-> Top.left - 1, reply |-> Top.reply, next |-> Top.next])

ReadId ==
  /\ At("loop") /\ com_state = "ID"
  /\ id' = Head(Top.data) /\ com_state' = "SIZE" /\ sized' = 0 /\ Picked
  /\ UNCHANGED <<hostVars, link, out, session, timeout, totalSize, com_bytes_processed>>

ReadSize ==
  /\ At("loop") /\ com_state = "SIZE" /\ Top.left > 0
  /\ totalSize' = IF sized = 0 THEN Head(Top.data) ELSE totalSize + Shifted(Head(Top.data), sized)
  /\ sized' = sized + 1 /\ Picked
  /\ IF sized' = SIZE_BYTES
     THEN com_state' = "DATA" /\ com_bytes_processed' = 0
     ELSE UNCHANGED <<com_state, com_bytes_processed>>
  /\ UNCHANGED <<hostVars, link, out, session, timeout, id>>

Return == stack' = SubSeq(stack, 1, Len(stack) - 1)

SizeMissing ==
  /\ At("loop") /\ com_state = "SIZE" /\ Top.left = 0
  /\ Return
  /\ UNCHANGED <<hostVars, link, out, parser, session, timeout>>

\* Mutant: the loop does not look at what is left.
After_NoTest ==
  /\ At("after") /\ Goto("loop")
  /\ UNCHANGED <<hostVars, link, out, parser, session, timeout>>

\* while(lenght): data still points where the last command's data began.
After ==
  /\ At("after")
  /\ IF Top.left > 0 THEN Goto("loop") ELSE Return
  /\ UNCHANGED <<hostVars, link, out, parser, session, timeout>>
-----------------------------------------------------------------------------
\* com_exec, with what the packet holds of the command's data.

Missing == totalSize - com_bytes_processed
Available == IF Top.left < Missing THEN Top.left ELSE Missing
Given == SubSeq(Top.data, 1, Available)

Taken ==
  /\ At("loop") /\ com_state = "DATA"
  /\ com_bytes_processed' = com_bytes_processed + Available
  /\ com_state' = IF Top.left < Missing THEN "DATA" ELSE "ID"
  /\ UNCHANGED <<hostVars, link, out, timeout, sized, id, totalSize>>

Rest(place) == Now(place, Top.left - Available, Top.reply, Top.next)
Answer(reply, next) == Become(Now("send_id", Top.left - Available, reply, next))

ExecVersion ==
  /\ Taken /\ id = COM_GET_VERSION
  /\ Answer(COM_VERSION, "after") /\ UNCHANGED session

ExecRefused ==
  /\ Taken /\ ~FLAG_COM /\ id \notin {COM_INIT, COM_GET_VERSION}
  /\ Answer(COM_ERR_NOT_INIT, "after") /\ UNCHANGED session

\* command_init: an open session is aborted first.
ExecInit ==
  /\ Taken /\ id = COM_INIT
  /\ IF FLAG_COM THEN Answer(COM_END, "init_aborted") ELSE Become(Rest("confirm"))
  /\ UNCHANGED session

\* ... or to command_init ...
InitAborted ==
  /\ At("init_aborted") /\ Goto("confirm") /\ Cleared
  /\ UNCHANGED <<hostVars, link, out, parser, timeout>>

\* The user looks at the host before accepting.
ConfirmYes ==
  /\ At("confirm") /\ host = "opening"
  /\ FLAG_COM' = TRUE /\ Send(COM_OK, "after")
  /\ UNCHANGED <<hostVars, link, out, parser, timeout, KEY_ENTERED, KEY, fram, COM_POS, COM_PARAMETER>>

\* Mutant: a refusal needs no answer, since nothing was opened.
ConfirmNo_Silent ==
  /\ At("confirm") /\ Goto("after")
  /\ UNCHANGED <<hostVars, link, out, parser, timeout, session>>

ConfirmNo ==
  /\ At("confirm") /\ Send(COM_END, "after")
  /\ UNCHANGED <<hostVars, link, out, parser, timeout, session>>

ExecEnd ==
  /\ Taken /\ FLAG_COM /\ id = COM_END
  /\ FLAG_COM' = FALSE /\ Answer(COM_END, "after")
  /\ UNCHANGED <<KEY_ENTERED, KEY, fram, COM_POS, COM_PARAMETER>>

ExecGet ==
  /\ Taken /\ FLAG_COM
  /\ \/ id = COM_GET_FRAM /\ Answer(COM_FRAM, "after")
     \/ id = COM_GET_PARAM /\ Answer(COM_PARAM, "after")
     \/ id = COM_GET_KEY /\ Answer(IF KEY_ENTERED THEN COM_KEY ELSE COM_ERR_UNAVAILABLE, "after")
  /\ UNCHANGED session

\* COM_PARAMETER gathers the address while COM_POS <= 2; what follows is written.
ExecSetFram ==
  LET lacking == IF COM_POS < ADDRESS_BYTES THEN ADDRESS_BYTES - COM_POS ELSE 0
      n == IF Available < lacking THEN Available ELSE lacking
      gathered(k) == IF k <= n THEN Shifted(Given[k], COM_POS + k - 1) ELSE 0
      parameter == COM_PARAMETER + gathered(1) + gathered(2) + gathered(3)
      start == parameter + COM_POS + n - ADDRESS_BYTES
      pos == COM_POS + Available
      done == pos = totalSize
  IN /\ Taken /\ FLAG_COM /\ id = COM_SET_FRAM
     /\ fram' = IF COM_POS + n < ADDRESS_BYTES THEN fram
                ELSE [a \in DOMAIN fram |-> IF a - start + 1 \in 1..(Available - n) THEN Given[n + a - start + 1] ELSE fram[a]]
     /\ COM_POS' = IF done THEN 0 ELSE pos
     /\ COM_PARAMETER' = IF done THEN 0 ELSE parameter
     /\ IF done THEN Answer(COM_OK, "after") ELSE Become(Rest("after"))
     /\ UNCHANGED <<FLAG_COM, KEY_ENTERED, KEY>>

ExecSetKey ==
  LET pos == COM_POS + Available
      done == pos = totalSize
      key == [i \in DOMAIN KEY |-> IF i - COM_POS \in 1..Available THEN Given[i - COM_POS] ELSE KEY[i]]
  IN /\ Taken /\ FLAG_COM /\ id = COM_SET_KEY
     /\ KEY' = key
     /\ COM_POS' = IF done THEN 0 ELSE pos
     /\ KEY_ENTERED' = (KEY_ENTERED \/ (done /\ key = RightKey))
     /\ IF done THEN Answer(IF key = RightKey THEN COM_OK ELSE COM_BAD_KEY, "after") ELSE Become(Rest("after"))
     /\ UNCHANGED <<FLAG_COM, fram, COM_PARAMETER>>

Known == {COM_INIT, COM_END, COM_GET_FRAM, COM_GET_KEY, COM_GET_PARAM, COM_GET_VERSION, COM_SET_FRAM, COM_SET_KEY, COM_RESET}

ExecUnknown ==
  /\ Taken /\ FLAG_COM /\ id \notin Known
  /\ Answer(COM_END, "unknown_aborted") /\ UNCHANGED session

\* ... or to com_exec.
UnknownAborted ==
  /\ At("unknown_aborted") /\ Goto("after") /\ Cleared
  /\ UNCHANGED <<hostVars, link, out, parser, timeout>>

ExecReset ==
  /\ Taken /\ FLAG_COM /\ id = COM_RESET
  /\ Answer(COM_OK, "reset") /\ UNCHANGED session

\* The wallet leaves the bus, and its RAM starts afresh.
Reset ==
  /\ At("reset")
  /\ stack' = <<>> /\ link' = <<>> /\ out' = <<>> /\ unsent' = <<>> /\ host' = "closed" /\ timeout' = FALSE
  /\ FLAG_COM' = FALSE /\ KEY_ENTERED' = FALSE /\ KEY' = [i \in 1..Len(RightKey) |-> 0]
  /\ COM_POS' = 0 /\ COM_PARAMETER' = 0
  /\ com_state' = "ID" /\ sized' = 0 /\ id' = 0 /\ totalSize' = 0 /\ com_bytes_processed' = 0
  /\ UNCHANGED <<asked, fram>>
-----------------------------------------------------------------------------
Exec ==
  \/ ExecVersion \/ ExecRefused \/ ExecInit \/ ExecEnd \/ ExecGet
  \/ ExecSetFram \/ ExecSetKey \/ ExecUnknown \/ ExecReset

Device ==
  \/ Poll \/ SendId \/ SendRest
  \/ Start \/ Aborted \/ ReadId \/ ReadSize \/ SizeMissing \/ After
  \/ Exec \/ InitAborted \/ UnknownAborted \/ Reset

User == ConfirmYes \/ ConfirmNo
Host == Connect \/ Command \/ ReadReply \/ GiveUp

Next == Device \/ User \/ Host \/ Deliver \/ Expire

Spec == Init /\ [][Next]_vars

\* The wallet runs, packets arrive, the timer counts, and the user answers.
Fairness == WF_vars(Device) /\ WF_vars(Deliver) /\ WF_vars(Expire) /\ WF_vars(User)

FairSpec == Spec /\ Fairness
-----------------------------------------------------------------------------
Places == {"start", "aborted", "loop", "after", "confirm", "init_aborted", "unknown_aborted", "reset", "send_id", "send_rest"}

VariablesOK ==
  /\ host \in {"closed", "opening", "open", "busy"}
  /\ Len(link) <= MaxLink
  /\ FLAG_COM \in BOOLEAN /\ KEY_ENTERED \in BOOLEAN /\ timeout \in BOOLEAN
  /\ KEY \in [1..Len(RightKey) -> 0..255]
  /\ fram \in [0..(FRAM_BYTE_SIZE - 1) -> 0..255]
  /\ com_state \in {"ID", "SIZE", "DATA"} /\ sized \in 0..SIZE_BYTES
  /\ id \in 0..255 /\ totalSize \in Nat /\ com_bytes_processed \in Nat
  /\ com_state = "SIZE" => sized < SIZE_BYTES
  /\ com_state = "DATA" => com_bytes_processed <= totalSize
  /\ COM_POS \in Nat /\ COM_PARAMETER \in Nat

\* Type invariant; the parser of com_process_data never picks a byte beyond its
\* packet, however the calls nest and whatever com_state they leave behind.
TypeOK ==
  /\ VariablesOK
  /\ \A i \in 1..Len(stack) : stack[i].at \in Places /\ stack[i].left \in 0..Len(stack[i].data)
  /\ At("loop") /\ com_state = "ID" => Top.left > 0

Header == 1 + SIZE_BYTES + ADDRESS_BYTES
AskedAddress == Number(asked, 1 + SIZE_BYTES, ADDRESS_BYTES)

\* What the last command of the host wants at an address, or -1.
AskedAt(a) ==
  IF Len(asked) > Header /\ asked[1] = COM_SET_FRAM /\ a - AskedAddress + 1 \in 1..(Len(asked) - Header)
  THEN asked[Header + a - AskedAddress + 1] ELSE -1

\* A byte of the FRAM changes only to what the host asked for that address
\* (command_set_fram): not after a command that was cut off by a stall or by the
\* host, and not when its bytes are taken for other commands.
WritesAsAsked == [][\A a \in DOMAIN fram : fram'[a] # fram[a] => fram'[a] = AskedAt(a)]_vars

\* The host that reads COM_OK in answer to COM_SET_FRAM finds every byte written
\* (doc: "the command has been received and processed without error").  With
\* MaxDepth above 1 what the code does can contradict it: two nested
\* confirmations both answer the same request.
OkMeansWritten ==
  host = "busy" /\ Whole(1) /\ out[1].reply = COM_OK =>
    \A a \in DOMAIN fram : AskedAt(a) \in {-1, fram[a]}

\* When nothing is on its way in either direction, a host that believes its
\* session open is right: every path that clears EVENT_FLAG_COM tells it
\* (com_abort, command_end).
SessionAgreed ==
  host \in {"open", "busy"} /\ stack = <<>> /\ link = <<>> /\ unsent = <<>> /\ out = <<>> => FLAG_COM

\* A command starts with nothing left from an earlier one in COM_POS and
\* COM_PARAMETER, which are cleared in other places than where it ended.
Fresh == At("loop") /\ com_state = "DATA" /\ com_bytes_processed = 0 => COM_POS = 0 /\ COM_PARAMETER = 0

\* Every request is answered, unless the host gives up first (doc: "The device
\* always respond to a command by another command."), through nested calls,
\* stalls and refusals.
Answered == host \in {"opening", "busy"} ~> (host \notin {"opening", "busy"} \/ Len(out) >= 2)
=============================================================================
