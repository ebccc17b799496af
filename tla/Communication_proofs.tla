------------------------ MODULE Communication_proofs ------------------------
(***************************************************************************)
(* Proofs about Communication, for packets, headers, memories, commands    *)
(* and a nesting of com_process_data of any size.                          *)
(***************************************************************************)
EXTENDS Communication, TLAPS

Byte == 0..255
Sends == {"send_id", "send_rest"}
Nexts == {"after", "aborted", "init_aborted", "unknown_aborted", "reset"}
Calls == [at : Places, data : Seq(Byte), left : Nat, reply : Byte, next : Nexts]
Parts == [reply : Byte, part : {"id", "rest"}]

\* A call that has still to pick a byte of its packet, or that is about to abort
\* a command first, or has told the host so.
Early(call) == call.at \in {"start", "aborted"} \/ (call.at \in Sends /\ call.next = "aborted")
Unpicked(call) == Early(call) => call.left > 0

\* Only the running call is at the start of com_process_data or in its loop.
StackOK ==
  /\ stack \in Seq(Calls)
  /\ \A k \in 1..Len(stack) : stack[k].left <= Len(stack[k].data) /\ Unpicked(stack[k])
  /\ \A k \in 1..Len(stack) - 1 : stack[k].at \notin {"start", "loop"}

ChannelsOK ==
  /\ asked \in Seq(Byte) /\ unsent \in Seq(Byte)
  /\ link \in Seq(Seq(Byte) \ {<<>>})
  /\ out \in Seq(Parts)

LoopOK == At("loop") /\ com_state = "ID" => Top.left > 0

CommInv == VariablesOK /\ ChannelsOK /\ StackOK /\ LoopOK

\* The replies that close a session, and the returns of com_abort, which clear it.
Closing == {COM_END, COM_ERR_NOT_INIT}
Clearing == {"aborted", "init_aborted", "unknown_aborted"}

Closes(call) == call.at \in Sends /\ call.reply \in Closing
Told(call) == call.at \in Sends /\ call.next \in Clearing => call.reply = COM_END

ClosingSent == \E k \in 1..Len(out) : out[k].reply \in Closing
ClosingComing == ClosingSent \/ \E k \in 1..Len(stack) : Closes(stack[k])

\* The host is told before the session is cleared.
TellsEnd == \A k \in 1..Len(stack) : Told(stack[k])
ClearsTold == (\E k \in 1..Len(stack) : stack[k].at \in Clearing) => host = "closed" \/ ClosingSent
OpenOrTold == host \in {"open", "busy"} /\ ~FLAG_COM => ClosingComing

\* The bytes of COM_INIT.
InitBytes == {0, COM_INIT}

Asks(k) == stack[k].data \in Seq(InitBytes) \/ (k = 1 /\ stack[k].at = "confirm")

OnlyAsked ==
  /\ out = <<>> /\ \A k \in 1..Len(stack) : stack[k].at \notin Sends
  /\ unsent \in Seq(InitBytes) /\ link \in Seq(Seq(InitBytes))
  /\ \A k \in 1..Len(stack) : Asks(k)
  /\ \/ com_state = "ID" \/ id \in InitBytes
     \/ timeout /\ \A k \in 1..Len(stack) : stack[k].at \in {"start", "confirm"}

\* While the host waits for its session and no refusal is on its way, the wallet
\* has sent nothing, and reads only the bytes of that request.
Calm == host = "opening" /\ ~FLAG_COM /\ ~ClosingComing
Quiet == Calm => OnlyAsked

SessionInv == TellsEnd /\ ClearsTold /\ OpenOrTold /\ Quiet

\* While the host waits for its session, the wallet reads its request, or has
\* still to abort what an earlier command left.
Requested ==
  host = "opening" =>
    /\ unsent \in Seq(InitBytes) /\ link \in Seq(Seq(InitBytes))
    /\ \A k \in 1..Len(stack) : stack[k].data \in Seq(InitBytes)
    /\ com_state = "ID" \/ id \in InitBytes \/ (timeout /\ \A k \in 1..Len(stack) : Early(stack[k]))

Parted == {COM_SET_FRAM, COM_SET_KEY}

\* COM_POS and COM_PARAMETER belong to the command that is being gathered.
Gathering ==
  /\ COM_POS # 0 \/ COM_PARAMETER # 0 => FLAG_COM /\ com_state = "DATA" /\ id \in Parted
  /\ COM_PARAMETER # 0 => id = COM_SET_FRAM /\ COM_POS # 0
  /\ FLAG_COM /\ com_state = "DATA" /\ id \in Parted => COM_POS = com_bytes_processed

FreshInv == Requested /\ Gathering
-----------------------------------------------------------------------------
\* What the code's integers and the bounds are.
LEMMA Numbers ==
  /\ CDC_TXRX_EPSIZE \in Nat \ {0} /\ FRAM_BYTE_SIZE \in Nat \ {0}
  /\ MaxLink \in Nat \ {0} /\ MaxDepth \in Nat \ {0}
  /\ SIZE_BYTES \in Nat /\ SIZE_BYTES >= 1 /\ SIZE_BYTES <= 3
  /\ ADDRESS_BYTES \in Nat /\ ADDRESS_BYTES >= 1 /\ ADDRESS_BYTES <= 3
  BY SizesAssumption

\* A sequence with another last element.
LEMMA LastReplaced ==
  ASSUME NEW S, NEW s \in Seq(S), s # <<>>, NEW e \in S
  PROVE  LET t == [s EXCEPT ![Len(s)] = e]
         IN t \in Seq(S) /\ t # <<>> /\ Len(t) = Len(s) /\ t[Len(t)] = e
            /\ \A k \in 1..Len(t) - 1 : t[k] = s[k]
  OBVIOUS

\* A sequence with one element more.
LEMMA LastAdded ==
  ASSUME NEW S, NEW s \in Seq(S), NEW e \in S
  PROVE  LET t == Append(s, e)
         IN t \in Seq(S) /\ t # <<>> /\ Len(t) = Len(s) + 1 /\ t[Len(t)] = e
            /\ \A k \in 1..Len(s) : t[k] = s[k]
  OBVIOUS

\* A part of a sequence.
LEMMA Part ==
  ASSUME NEW S, NEW s \in Seq(S), NEW m \in Nat, NEW n \in Nat, 1 <= m, n <= Len(s)
  PROVE  /\ SubSeq(s, m, n) \in Seq(S)
         /\ m <= n => Len(SubSeq(s, m, n)) = n - m + 1
         /\ n < m => Len(SubSeq(s, m, n)) = 0
         /\ \A k \in 1..Len(SubSeq(s, m, n)) : SubSeq(s, m, n)[k] = s[m + k - 1]
  OBVIOUS

\* A sequence without its last element.
LEMMA LastRemoved ==
  ASSUME NEW S, NEW s \in Seq(S), s # <<>>
  PROVE  LET t == SubSeq(s, 1, Len(s) - 1)
         IN t \in Seq(S) /\ Len(t) = Len(s) - 1
            /\ \A k \in 1..Len(t) : t[k] = s[k]
  <1> DEFINE n == Len(s) - 1
  <1>1. n \in Nat /\ n <= Len(s) /\ n = Len(s) - 1
    OBVIOUS
  <1> HIDE DEF n
  <1>2. /\ SubSeq(s, 1, n) \in Seq(S)
        /\ 1 <= n => Len(SubSeq(s, 1, n)) = n - 1 + 1
        /\ n < 1 => Len(SubSeq(s, 1, n)) = 0
        /\ \A k \in 1..Len(SubSeq(s, 1, n)) : SubSeq(s, 1, n)[k] = s[1 + k - 1]
    BY <1>1, Part
  <1>3. Len(SubSeq(s, 1, n)) = n
    BY <1>1, <1>2
  <1>4. \A k \in Int : 1 + k - 1 = k
    OBVIOUS
  <1> QED
    BY <1>1, <1>2, <1>3, <1>4

\* A sequence without its first element.
LEMMA FirstRemoved ==
  ASSUME NEW S, NEW s \in Seq(S), s # <<>>
  PROVE  Head(s) \in S /\ Tail(s) \in Seq(S) /\ Len(Tail(s)) = Len(s) - 1 /\ Head(s) = s[1]
         /\ \A k \in 1..Len(Tail(s)) : Tail(s)[k] = s[k + 1]
  OBVIOUS

\* The running call, and what the code makes of it.
LEMMA TopCall ==
  ASSUME StackOK, stack # <<>>
  PROVE  /\ Top \in Calls /\ Top.left <= Len(Top.data) /\ Unpicked(Top)
         /\ Len(stack) \in Nat /\ Len(stack) > 0
  BY DEF StackOK, Top

\* A call changes its place alone.
LEMMA CallChanged ==
  ASSUME StackOK, stack # <<>>, NEW a
  PROVE  [Top EXCEPT !.at = a] = Now(a, Top.left, Top.reply, Top.next)
  BY TopCall DEF Calls, Now

\* A call of com_process_data with a packet.
LEMMA NewCall ==
  ASSUME NEW p \in Seq(Byte) \ {<<>>}
  PROVE  /\ Call(p) \in Calls /\ Call(p).left <= Len(Call(p).data) /\ Unpicked(Call(p))
         /\ Call(p).at = "start" /\ Call(p).data = p
  BY DEF Call, Calls, Places, Nexts, Byte, Unpicked, Early, Sends, COM_OK

\* The stack of calls when the running one goes on ...
LEMMA BecomeKeeps ==
  ASSUME StackOK, stack # <<>>, NEW c \in Calls, c.left <= Len(c.data), Unpicked(c), Become(c)
  PROVE  /\ StackOK' /\ stack' # <<>> /\ Top' = c /\ Len(stack') = Len(stack)
         /\ \A k \in 1..Len(stack') - 1 : stack'[k] = stack[k]
  <1>1. /\ stack' \in Seq(Calls) /\ stack' # <<>> /\ Len(stack') = Len(stack) /\ stack'[Len(stack')] = c
        /\ \A k \in 1..Len(stack') - 1 : stack'[k] = stack[k]
    BY LastReplaced DEF StackOK, Become
  <1>2. \A k \in 1..Len(stack') : stack'[k] = c \/ (k \in 1..Len(stack) - 1 /\ stack'[k] = stack[k])
    BY <1>1
  <1>3. \A k \in 1..Len(stack) - 1 : k \in 1..Len(stack)
    BY DEF StackOK
  <1> QED
    BY <1>1, <1>2, <1>3 DEF StackOK, Top, Unpicked, Early

\* ... when CDC_Task calls it again ...
LEMMA CallKeeps ==
  ASSUME StackOK, stack = <<>> \/ Top.at \notin {"start", "loop"},
         NEW p \in Seq(Byte) \ {<<>>}, stack' = Append(stack, Call(p))
  PROVE  /\ StackOK' /\ stack' # <<>> /\ Top' = Call(p) /\ Len(stack') = Len(stack) + 1
         /\ \A k \in 1..Len(stack) : stack'[k] = stack[k]
  <1>1. /\ stack' \in Seq(Calls) /\ stack' # <<>> /\ Len(stack') = Len(stack) + 1 /\ stack'[Len(stack')] = Call(p)
        /\ \A k \in 1..Len(stack) : stack'[k] = stack[k]
    BY LastAdded, NewCall DEF StackOK
  <1>2. \A k \in 1..Len(stack') : stack'[k] = Call(p) \/ (k \in 1..Len(stack) /\ stack'[k] = stack[k])
    BY <1>1 DEF StackOK
  <1>3. \A k \in 1..Len(stack') : stack'[k].left <= Len(stack'[k].data) /\ Unpicked(stack'[k])
    BY <1>2, NewCall DEF StackOK
  <1>4. \A k \in 1..Len(stack') - 1 : stack'[k].at \notin {"start", "loop"}
    <2> SUFFICES ASSUME NEW k \in 1..Len(stack') - 1 PROVE stack'[k].at \notin {"start", "loop"}
      OBVIOUS
    <2>1. k \in 1..Len(stack) /\ (k = Len(stack) \/ k \in 1..Len(stack) - 1) /\ stack # <<>>
      BY <1>1 DEF StackOK
    <2> QED
      BY <1>1, <2>1 DEF StackOK, Top
  <1> QED
    BY <1>1, <1>3, <1>4 DEF StackOK, Top, Unpicked, Early

\* ... and when it returns.
LEMMA ReturnKeeps ==
  ASSUME StackOK, stack # <<>>, Return
  PROVE  /\ StackOK' /\ Len(stack') = Len(stack) - 1
         /\ \A k \in 1..Len(stack') : stack'[k] = stack[k] /\ stack[k].at \notin {"start", "loop"}
  <1>1. /\ stack' \in Seq(Calls) /\ Len(stack') = Len(stack) - 1
        /\ \A k \in 1..Len(stack') : stack'[k] = stack[k]
    BY LastRemoved DEF StackOK, Return
  <1>2. \A k \in 1..Len(stack') : k \in 1..Len(stack) /\ k \in 1..Len(stack) - 1
    BY <1>1 DEF StackOK
  <1> QED
    BY <1>1, <1>2 DEF StackOK, Unpicked, Early

-----------------------------------------------------------------------------
\* What a command finds of its data in the packet.
LEMMA GivenData ==
  ASSUME VariablesOK, StackOK, At("loop"), com_state = "DATA"
  PROVE  /\ Missing \in Nat /\ Available \in Nat /\ Available <= Top.left /\ Available <= Missing
         /\ Top.left < Missing => Available = Top.left
         /\ ~(Top.left < Missing) => Available = Missing
         /\ Given \in Seq(Byte) /\ Len(Given) = Available
         /\ com_bytes_processed + Available <= totalSize
         /\ com_bytes_processed + Available \in Nat
  <1>1. stack # <<>> /\ Top \in Calls /\ Top.left <= Len(Top.data)
    BY TopCall DEF At
  <1>2. Top.left \in Nat /\ Top.data \in Seq(Byte) /\ Len(Top.data) \in Nat
    BY <1>1 DEF Calls
  <1>3. Missing \in Nat /\ com_bytes_processed \in Nat /\ totalSize \in Nat
        /\ Missing = totalSize - com_bytes_processed
    BY DEF VariablesOK, Missing
  <1>4. Available \in Nat /\ Available <= Top.left /\ Available <= Missing
        /\ (Top.left < Missing => Available = Top.left)
        /\ (~(Top.left < Missing) => Available = Missing)
    BY <1>2, <1>3 DEF Available
  <1>5. Given \in Seq(Byte) /\ Len(Given) = Available
    <2> DEFINE n == Available
    <2> DEFINE s == Top.data
    <2>1. n \in Nat /\ s \in Seq(Byte) /\ n <= Len(s) /\ Given = SubSeq(s, 1, n)
      BY <1>1, <1>2, <1>4 DEF Given
    <2> HIDE DEF n, s
    <2>2. /\ SubSeq(s, 1, n) \in Seq(Byte)
          /\ 1 <= n => Len(SubSeq(s, 1, n)) = n - 1 + 1
          /\ n < 1 => Len(SubSeq(s, 1, n)) = 0
      BY <2>1, Part
    <2>3. Len(SubSeq(s, 1, n)) = n
      BY <2>1, <2>2
    <2> QED
      BY <2>1, <2>2, <2>3 DEF n
  <1> QED
    BY <1>3, <1>4, <1>5

\* CDC_Task takes a packet when com_process_data is not running, or waits for
\* the user or for its bytes to be gone.
LEMMA TakeKeeps ==
  ASSUME ChannelsOK, VariablesOK, link # <<>>
  PROVE  /\ Head(link) \in Seq(Byte) \ {<<>>} /\ Tail(link) \in Seq(Seq(Byte) \ {<<>>})
         /\ Len(Tail(link)) <= MaxLink
  <1>1. link \in Seq(Seq(Byte) \ {<<>>}) /\ Len(link) <= MaxLink /\ MaxLink \in Nat
    BY Numbers DEF ChannelsOK, VariablesOK
  <1> QED
    BY <1>1, FirstRemoved

\* One of the two sends of a reply.
LEMMA SentKeeps ==
  ASSUME ChannelsOK, VariablesOK, StackOK, stack # <<>>, Top.at \in Sends,
         NEW place \in {"send_rest"} \cup Nexts, place = "aborted" => Top.next = "aborted",
         Sent(place)
  PROVE  /\ StackOK' /\ link' \in Seq(Seq(Byte) \ {<<>>}) /\ Len(link') <= MaxLink
         /\ stack' # <<>> /\ Len(stack) \in Nat /\ Len(stack) > 0
         /\ \A k \in 1..Len(stack) - 1 : stack'[k] = stack[k]
         /\ stack'[Len(stack)] = Now(place, Top.left, Top.reply, Top.next)
         /\ \/ link = <<>> /\ link' = link /\ Len(stack') = Len(stack) /\ Top' = stack'[Len(stack)]
            \/ /\ link # <<>> /\ link' = Tail(link) /\ Len(stack') = Len(stack) + 1
               /\ stack'[Len(stack) + 1] = Call(Head(link)) /\ Top' = Call(Head(link))
  <1> DEFINE c == Now(place, Top.left, Top.reply, Top.next)
  <1> DEFINE calls == [stack EXCEPT ![Len(stack)] = c]
  <1>1. Top \in Calls /\ Top.left <= Len(Top.data) /\ Unpicked(Top) /\ Len(stack) \in Nat /\ Len(stack) > 0
    BY TopCall
  <1>2. c \in Calls /\ c.left = Top.left /\ c.data = Top.data /\ c.at = place /\ c.next = Top.next
    BY <1>1 DEF Calls, Now, Places, Nexts, Sends
  <1>3. Unpicked(c)
    <2>1. c.at \in {"start", "aborted"} \/ (c.at \in Sends /\ c.next = "aborted") => Top.next = "aborted"
      BY <1>2 DEF Nexts, Sends
    <2> QED
      BY <1>1, <1>2, <2>1 DEF Unpicked, Early
  <1>4. [stack EXCEPT ![Len(stack)].at = place] = calls
    <2>1. [stack EXCEPT ![Len(stack)].at = place] = [stack EXCEPT ![Len(stack)] = [stack[Len(stack)] EXCEPT !.at = place]]
      BY <1>1 DEF StackOK
    <2> QED
      BY <2>1, CallChanged DEF Top
  <1> HIDE DEF c
  <1>5. /\ calls \in Seq(Calls) /\ calls # <<>> /\ Len(calls) = Len(stack) /\ calls[Len(stack)] = c
        /\ \A k \in 1..Len(stack) - 1 : calls[k] = stack[k]
    BY <1>2, LastReplaced DEF StackOK
  <1> HIDE DEF calls
  <1>6. /\ \A k \in 1..Len(calls) : calls[k].left <= Len(calls[k].data) /\ Unpicked(calls[k])
        /\ \A k \in 1..Len(calls) : calls[k].at \notin {"start", "loop"}
    <2> SUFFICES ASSUME NEW k \in 1..Len(calls)
                 PROVE  /\ calls[k].left <= Len(calls[k].data) /\ Unpicked(calls[k])
                        /\ calls[k].at \notin {"start", "loop"}
      OBVIOUS
    <2>1. CASE k = Len(stack)
      BY <1>1, <1>2, <1>3, <1>5, <2>1 DEF Nexts
    <2>2. CASE k # Len(stack)
      <3>1. k \in 1..Len(stack) /\ k \in 1..Len(stack) - 1 /\ calls[k] = stack[k]
        BY <1>1, <1>5, <2>2
      <3> QED
        BY <3>1 DEF StackOK
    <2> QED
      BY <2>1, <2>2
  <1>7. CASE link = <<>>
    <2>1. stack' = calls /\ link' = link
      BY <1>4, <1>7 DEF Sent
    <2>2. StackOK'
      BY <1>5, <1>6, <2>1 DEF StackOK
    <2>3. Top' = stack'[Len(stack)]
      BY <1>5, <2>1 DEF Top
    <2> QED
      BY <1>1, <1>5, <1>7, <2>1, <2>2, <2>3 DEF ChannelsOK, VariablesOK, c
  <1>8. CASE link # <<>>
    <2>1. stack' = Append(calls, Call(Head(link))) /\ link' = Tail(link)
      BY <1>4, <1>8 DEF Sent
    <2>2. Head(link) \in Seq(Byte) \ {<<>>} /\ Tail(link) \in Seq(Seq(Byte) \ {<<>>}) /\ Len(Tail(link)) <= MaxLink
      BY <1>8, TakeKeeps
    <2>3. /\ Call(Head(link)) \in Calls /\ Call(Head(link)).left <= Len(Call(Head(link)).data) /\ Unpicked(Call(Head(link)))
      BY <2>2, NewCall
    <2>4. /\ stack' \in Seq(Calls) /\ stack' # <<>> /\ Len(stack') = Len(stack) + 1
          /\ stack'[Len(stack) + 1] = Call(Head(link))
          /\ \A k \in 1..Len(stack) : stack'[k] = calls[k]
      BY <1>5, <2>1, <2>3, LastAdded
    <2>5. \A k \in 1..Len(stack') : stack'[k].left <= Len(stack'[k].data) /\ Unpicked(stack'[k])
      <3> SUFFICES ASSUME NEW k \in 1..Len(stack')
                   PROVE  stack'[k].left <= Len(stack'[k].data) /\ Unpicked(stack'[k])
        OBVIOUS
      <3>1. k = Len(stack) + 1 \/ k \in 1..Len(stack)
        BY <1>1, <2>4
      <3> QED
        BY <1>5, <1>6, <2>3, <2>4, <3>1
    <2>6. \A k \in 1..Len(stack') - 1 : stack'[k].at \notin {"start", "loop"}
      <3>1. Len(stack') - 1 = Len(stack)
        BY <1>1, <2>4
      <3> QED
        BY <1>5, <1>6, <2>4, <3>1
    <2>7. StackOK'
      BY <2>4, <2>5, <2>6 DEF StackOK
    <2>8. Top' = Call(Head(link))
      BY <2>4 DEF Top
    <2>9. /\ \A k \in 1..Len(stack) - 1 : k \in 1..Len(stack)
          /\ Len(stack) \in 1..Len(stack)
      BY <1>1
    <2> QED
      BY <1>1, <1>5, <1>8, <2>1, <2>2, <2>4, <2>7, <2>8, <2>9 DEF c
  <1> QED
    BY <1>7, <1>8

-----------------------------------------------------------------------------
\* COM_INIT as the host sends it.
LEMMA Request ==
  /\ Init_ \in Seq(InitBytes) /\ Init_ \in Seq(Byte) /\ Init_ # <<>>
  <1> DEFINE zeros == [k \in 1..SIZE_BYTES |-> 0]
  <1>1. zeros \in Seq(InitBytes) /\ zeros \in Seq(Byte)
    BY Numbers DEF InitBytes, Byte
  <1>2. <<COM_INIT>> \in Seq(InitBytes) /\ <<COM_INIT>> \in Seq(Byte) /\ Len(<<COM_INIT>>) = 1
    BY DEF InitBytes, Byte, COM_INIT
  <1> HIDE DEF zeros
  <1>3. /\ <<COM_INIT>> \o zeros \in Seq(InitBytes) /\ <<COM_INIT>> \o zeros \in Seq(Byte)
        /\ Len(<<COM_INIT>> \o zeros) = 1 + Len(zeros)
    BY <1>1, <1>2
  <1>4. <<COM_INIT>> \o zeros # <<>>
    BY <1>1, <1>3
  <1> QED
    BY <1>3, <1>4 DEF Init_, zeros

\* A wallet that has just started.
LEMMA InitComm == Init => CommInv
  <1> SUFFICES ASSUME Init PROVE CommInv
    OBVIOUS
  <1>1. VariablesOK
    <2>1. /\ KEY \in [1..Len(RightKey) -> 0..255]
          /\ fram \in [0..(FRAM_BYTE_SIZE - 1) -> 0..255]
      BY DEF Init
    <2>2. Len(link) <= MaxLink
      BY Numbers DEF Init
    <2>3. /\ host \in {"closed", "opening", "open", "busy"}
          /\ FLAG_COM \in BOOLEAN /\ KEY_ENTERED \in BOOLEAN /\ timeout \in BOOLEAN
          /\ com_state = "ID" /\ sized \in 0..SIZE_BYTES
          /\ id \in 0..255 /\ totalSize \in Nat /\ com_bytes_processed \in Nat
          /\ COM_POS \in Nat /\ COM_PARAMETER \in Nat
      BY Numbers DEF Init
    <2> QED
      BY <2>1, <2>2, <2>3 DEF VariablesOK
  <1>2. ChannelsOK
    BY DEF Init, ChannelsOK
  <1>3. StackOK /\ LoopOK
    BY DEF Init, StackOK, LoopOK, At
  <1> QED
    BY <1>1, <1>2, <1>3 DEF CommInv

\* Nothing that the host, the line or the timer does touches the calls.
LEMMA CallsUntouched ==
  ASSUME StackOK, LoopOK, UNCHANGED <<stack, com_state>>
  PROVE  StackOK' /\ LoopOK'
  BY DEF StackOK, LoopOK, At, Top, Unpicked, Early

\* The steps of the host, of the line and of the timer.
LEMMA HostStepComm ==
  ASSUME CommInv, Host \/ Deliver \/ Expire
  PROVE  CommInv'
  <1>1. VariablesOK /\ ChannelsOK /\ StackOK /\ LoopOK
    BY DEF CommInv
  <1>2. stack' = stack /\ com_state' = com_state
    BY DEF Host, Deliver, Expire, Connect, Command, ReadReply, GiveUp, parser
  <1>3. StackOK' /\ LoopOK'
    BY <1>1, <1>2, CallsUntouched
  <1>4. CASE Connect
    <2>1. VariablesOK'
      BY <1>1, <1>4 DEF Connect, VariablesOK, parser, session
    <2>2. asked' = Init_ /\ unsent' = Init_ /\ out' = <<>> /\ link' = link
      BY <1>4 DEF Connect
    <2>3. ChannelsOK'
      BY <1>1, <2>2, Request DEF ChannelsOK
    <2> QED
      BY <1>3, <2>1, <2>3 DEF CommInv
  <1>5. CASE Command
    <2>1. VariablesOK' /\ ChannelsOK'
      BY <1>1, <1>5, CommandsAssumption DEF Command, VariablesOK, ChannelsOK, parser, session, Byte
    <2> QED
      BY <1>3, <2>1 DEF CommInv
  <1>6. CASE ReadReply
    <2>1. out # <<>> /\ out \in Seq(Parts) /\ Len(out) \in Nat /\ Len(out) > 1
      BY <1>1, <1>6 DEF ReadReply, Whole, ChannelsOK
    <2>2. SubSeq(out, 3, Len(out)) \in Seq(Parts)
      BY <2>1, Part, 3 \in Nat, 1 <= 3
    <2>3. VariablesOK'
      BY <1>1, <1>6 DEF ReadReply, VariablesOK, parser, session
    <2>4. ChannelsOK'
      <3>1. /\ asked' = asked /\ link' = link
            /\ out' = <<>> \/ out' = SubSeq(out, 3, Len(out))
            /\ unsent' = <<>> \/ unsent' = unsent
        BY <1>6 DEF ReadReply
      <3>2. asked \in Seq(Byte) /\ unsent \in Seq(Byte) /\ link \in Seq(Seq(Byte) \ {<<>>})
        BY <1>1 DEF ChannelsOK
      <3>3. <<>> \in Seq(Parts) /\ <<>> \in Seq(Byte)
        OBVIOUS
      <3>4. out' \in Seq(Parts) /\ unsent' \in Seq(Byte)
        BY <2>2, <3>1, <3>2, <3>3, Zenon
      <3> QED
        BY <3>1, <3>2, <3>4 DEF ChannelsOK
    <2> QED
      BY <1>3, <2>3, <2>4 DEF CommInv
  <1>7. CASE GiveUp
    <2>1. VariablesOK'
      BY <1>1, <1>7 DEF GiveUp, VariablesOK, parser, session
    <2>2. unsent' = <<>> /\ out' = <<>> /\ asked' = asked /\ link' = link
      BY <1>7 DEF GiveUp
    <2>3. <<>> \in Seq(Parts) /\ <<>> \in Seq(Byte)
      OBVIOUS
    <2>4. ChannelsOK'
      BY <1>1, <2>2, <2>3 DEF ChannelsOK
    <2> QED
      BY <1>3, <2>1, <2>4 DEF CommInv
  <1>8. CASE Deliver
    <2> DEFINE n == IF Len(unsent) < CDC_TXRX_EPSIZE THEN Len(unsent) ELSE CDC_TXRX_EPSIZE
    <2>1. unsent \in Seq(Byte) /\ unsent # <<>> /\ n \in Nat /\ n >= 1 /\ n <= Len(unsent) /\ Len(unsent) \in Nat
      BY <1>1, <1>8, Numbers DEF Deliver, ChannelsOK
    <2>2. link' = Append(link, SubSeq(unsent, 1, n)) /\ unsent' = SubSeq(unsent, n + 1, Len(unsent))
      BY <1>8 DEF Deliver
    <2> HIDE DEF n
    <2>3. SubSeq(unsent, 1, n) \in Seq(Byte) /\ Len(SubSeq(unsent, 1, n)) = n
      <3>1. /\ SubSeq(unsent, 1, n) \in Seq(Byte)
            /\ 1 <= n => Len(SubSeq(unsent, 1, n)) = n - 1 + 1
        BY <2>1, Part
      <3> QED
        BY <2>1, <3>1
    <2>4. SubSeq(unsent, 1, n) \in Seq(Byte) \ {<<>>}
      BY <2>1, <2>3
    <2>5. SubSeq(unsent, n + 1, Len(unsent)) \in Seq(Byte)
      BY <2>1, Part
    <2>6. link' \in Seq(Seq(Byte) \ {<<>>}) /\ Len(link') = Len(link) + 1
      BY <1>1, <2>2, <2>4, LastAdded DEF ChannelsOK
    <2>7. Len(link') <= MaxLink
      BY <1>1, <1>8, <2>6, Numbers DEF Deliver, ChannelsOK
    <2>8. VariablesOK' /\ ChannelsOK'
      BY <1>1, <1>8, <2>2, <2>5, <2>6, <2>7 DEF Deliver, VariablesOK, ChannelsOK, parser, session
    <2> QED
      BY <1>3, <2>8 DEF CommInv
  <1>9. CASE Expire
    <2>1. VariablesOK' /\ ChannelsOK'
      BY <1>1, <1>9 DEF Expire, VariablesOK, ChannelsOK, parser, session, hostVars
    <2> QED
      BY <1>3, <2>1 DEF CommInv
  <1> QED
    BY <1>4, <1>5, <1>6, <1>7, <1>8, <1>9 DEF Host

-----------------------------------------------------------------------------
\* The replies are bytes.
LEMMA Replies ==
  {COM_OK, COM_ERR_NOT_INIT, COM_END, COM_ERR_UNAVAILABLE, COM_BAD_KEY, COM_FRAM, COM_KEY, COM_PARAM, COM_VERSION} \subseteq Byte
  BY DEF Byte, COM_OK, COM_ERR_NOT_INIT, COM_END, COM_ERR_UNAVAILABLE, COM_BAD_KEY, COM_FRAM, COM_KEY, COM_PARAM, COM_VERSION

\* The running call at another place, with no more left than it had.
LEMMA Goes ==
  ASSUME CommInv, stack # <<>>, NEW place \in Places, NEW left \in Nat, left <= Top.left,
         NEW reply \in Byte, NEW next \in Nexts, Become(Now(place, left, reply, next)),
         place \in {"start", "aborted"} \/ (place \in Sends /\ next = "aborted") => left > 0,
         place = "loop" /\ com_state' = "ID" => left > 0,
         UNCHANGED <<asked, unsent, link, out>>, VariablesOK'
  PROVE  CommInv'
  <1> DEFINE c == Now(place, left, reply, next)
  <1>1. Top \in Calls /\ Top.left <= Len(Top.data) /\ StackOK
    BY TopCall DEF CommInv
  <1>2. /\ c \in Calls /\ c.left = left /\ c.data = Top.data /\ c.at = place /\ c.next = next
    BY <1>1 DEF Calls, Now
  <1>3. c.left <= Len(c.data)
    BY <1>1, <1>2 DEF Calls
  <1>4. Unpicked(c)
    BY <1>2 DEF Unpicked, Early
  <1>5. Become(c)
    OBVIOUS
  <1> HIDE DEF c
  <1>6. StackOK' /\ stack' # <<>> /\ Top' = c
    BY <1>1, <1>2, <1>3, <1>4, <1>5, BecomeKeeps
  <1>7. LoopOK'
    BY <1>2, <1>6 DEF LoopOK, At
  <1>8. ChannelsOK'
    BY DEF CommInv, ChannelsOK
  <1> QED
    BY <1>6, <1>7, <1>8 DEF CommInv

\* The running call, when only its place changes.
LEMMA Place ==
  ASSUME CommInv, stack # <<>>, NEW place \in Places, Goto(place),
         place \in {"start", "aborted"} \/ (place \in Sends /\ Top.next = "aborted") => Top.left > 0,
         place = "loop" /\ com_state' = "ID" => Top.left > 0,
         UNCHANGED <<asked, unsent, link, out>>, VariablesOK'
  PROVE  CommInv'
  <1>1. Top \in Calls /\ StackOK
    BY TopCall DEF CommInv
  <1>2. Top.left \in Nat /\ Top.reply \in Byte /\ Top.next \in Nexts
    BY <1>1 DEF Calls
  <1>3. Become(Now(place, Top.left, Top.reply, Top.next))
    BY <1>1, CallChanged DEF Goto
  <1> DEFINE left == Top.left
  <1> DEFINE reply == Top.reply
  <1> DEFINE next == Top.next
  <1>4. left \in Nat /\ reply \in Byte /\ next \in Nexts /\ left <= Top.left /\ Become(Now(place, left, reply, next))
    BY <1>2, <1>3
  <1>5. /\ place \in {"start", "aborted"} \/ (place \in Sends /\ next = "aborted") => left > 0
        /\ place = "loop" /\ com_state' = "ID" => left > 0
    OBVIOUS
  <1> HIDE DEF left, reply, next
  <1> QED
    BY <1>4, <1>5, Goes

\* A byte picked from the packet.
LEMMA Pick ==
  ASSUME CommInv, At("loop"), Top.left > 0, Picked, com_state' # "ID",
         UNCHANGED <<asked, unsent, link, out>>, VariablesOK'
  PROVE  CommInv'
  <1> DEFINE c == [at |-> "loop", data |-> Tail(Top.data), left |-> Top.left - 1, reply |-> Top.reply, next |-> Top.next]
  <1>1. Top \in Calls /\ Top.left <= Len(Top.data) /\ StackOK /\ stack # <<>>
    BY TopCall DEF CommInv, At
  <1>2. Top.data \in Seq(Byte) /\ Top.data # <<>> /\ Top.left \in Nat /\ Top.reply \in Byte /\ Top.next \in Nexts
    BY <1>1 DEF Calls
  <1>3. Tail(Top.data) \in Seq(Byte) /\ Len(Tail(Top.data)) = Len(Top.data) - 1
    BY <1>2, FirstRemoved
  <1>4. Become(c)
    BY DEF Picked
  <1>5. c \in Calls /\ c.at = "loop" /\ c.left = Top.left - 1 /\ c.data = Tail(Top.data)
    BY <1>2, <1>3 DEF Calls, Places
  <1>6. c.left <= Len(c.data)
    BY <1>1, <1>2, <1>3, <1>5
  <1>7. Unpicked(c)
    BY <1>5 DEF Unpicked, Early, Sends
  <1> HIDE DEF c
  <1>8. StackOK'
    BY <1>1, <1>4, <1>5, <1>6, <1>7, BecomeKeeps
  <1>9. LoopOK' /\ ChannelsOK'
    BY DEF CommInv, ChannelsOK, LoopOK
  <1> QED
    BY <1>8, <1>9 DEF CommInv

\* What a byte adds to a number that comes byte after byte.
LEMMA ShiftedByte ==
  ASSUME NEW b \in Byte, NEW n \in {0, 1, 2}
  PROVE  Shifted(b, n) \in Nat
  <1>1. <<1, 256, 65536>>[n + 1] \in {1, 256, 65536}
    <2>1. CASE n = 0
      BY <2>1
    <2>2. CASE n = 1
      BY <2>2
    <2>3. CASE n = 2
      BY <2>3
    <2> QED
      BY <2>1, <2>2, <2>3
  <1>2. b \in Nat
    BY DEF Byte
  <1> DEFINE m == <<1, 256, 65536>>[n + 1]
  <1> HIDE DEF m
  <1>3. m \in {1, 256, 65536}
    BY <1>1 DEF m
  <1>4. b * m \in Nat
    BY <1>2, <1>3
  <1> QED
    BY <1>4 DEF Shifted, m
-----------------------------------------------------------------------------
\* CDC_Task, from a loop of the code or after a send.
LEMMA PollComm ==
  ASSUME CommInv, Poll
  PROVE  CommInv'
  <1>1. VariablesOK /\ ChannelsOK /\ StackOK /\ LoopOK
    BY DEF CommInv
  <1>2. link # <<>> /\ link' = Tail(link) /\ stack' = Append(stack, Call(Head(link)))
    BY DEF Poll, Take
  <1> DEFINE p == Head(link)
  <1>3. p \in Seq(Byte) \ {<<>>} /\ Tail(link) \in Seq(Seq(Byte) \ {<<>>}) /\ Len(Tail(link)) <= MaxLink
    BY <1>1, <1>2, TakeKeeps
  <1>4. stack = <<>> \/ Top.at \notin {"start", "loop"}
    BY DEF Poll, At
  <1>5. stack' = Append(stack, Call(p))
    BY <1>2
  <1> HIDE DEF p
  <1>6. StackOK' /\ Top' = Call(p)
    BY <1>1, <1>3, <1>4, <1>5, CallKeeps
  <1>7. LoopOK'
    BY <1>3, <1>6, NewCall DEF LoopOK, At
  <1>8. VariablesOK'
    BY <1>1, <1>2, <1>3 DEF Poll, VariablesOK, hostVars, parser, session
  <1>9. ChannelsOK'
    BY <1>1, <1>2, <1>3 DEF Poll, ChannelsOK, hostVars
  <1> QED
    BY <1>6, <1>7, <1>8, <1>9 DEF CommInv

\* Both sends of a reply.
LEMMA SendComm ==
  ASSUME CommInv, SendId \/ SendRest
  PROVE  CommInv'
  <1>1. VariablesOK /\ ChannelsOK /\ StackOK /\ LoopOK /\ stack # <<>> /\ Top.at \in Sends
    BY DEF CommInv, SendId, SendRest, At, Sends
  <1>2. Top \in Calls
    BY <1>1, TopCall
  <1>3. PICK place \in {"send_rest"} \cup Nexts : Sent(place) /\ (place = "aborted" => Top.next = "aborted")
    <2>1. CASE SendId
      BY <2>1 DEF SendId
    <2>2. CASE SendRest
      BY <1>2, <2>2 DEF SendRest, Calls
    <2> QED
      BY <2>1, <2>2
  <1>4. /\ StackOK' /\ link' \in Seq(Seq(Byte) \ {<<>>}) /\ Len(link') <= MaxLink
        /\ \/ link = <<>> /\ Len(stack') = Len(stack) /\ Top' = Now(place, Top.left, Top.reply, Top.next)
           \/ link # <<>> /\ Top' = Call(Head(link))
    <2>1. /\ StackOK' /\ link' \in Seq(Seq(Byte) \ {<<>>}) /\ Len(link') <= MaxLink
          /\ stack'[Len(stack)] = Now(place, Top.left, Top.reply, Top.next)
          /\ \/ link = <<>> /\ link' = link /\ Len(stack') = Len(stack) /\ Top' = stack'[Len(stack)]
             \/ /\ link # <<>> /\ link' = Tail(link) /\ Len(stack') = Len(stack) + 1
                /\ stack'[Len(stack) + 1] = Call(Head(link)) /\ Top' = Call(Head(link))
      BY <1>1, <1>3, SentKeeps
    <2> QED
      BY <2>1
  <1>5. LoopOK'
    <2>1. Now(place, Top.left, Top.reply, Top.next).at # "loop"
      BY <1>3 DEF Now, Nexts
    <2>2. link # <<>> => Call(Head(link)).at # "loop"
      BY DEF Call
    <2> QED
      BY <1>4, <2>1, <2>2 DEF LoopOK, At
  <1>6. UNCHANGED <<hostVars, parser, session, timeout>>
    BY DEF SendId, SendRest
  <1>7. VariablesOK'
    BY <1>1, <1>4, <1>6 DEF VariablesOK, hostVars, parser, session
  <1>8. out' \in Seq(Parts)
    <2>1. [reply |-> Top.reply, part |-> "id"] \in Parts /\ [reply |-> Top.reply, part |-> "rest"] \in Parts
      BY <1>2 DEF Parts, Calls
    <2>2. out \in Seq(Parts)
      BY <1>1 DEF ChannelsOK
    <2>3. \E r \in Parts : out' = out \/ out' = Append(out, r)
      BY <2>1 DEF SendId, SendRest, Out
    <2> QED
      BY <2>2, <2>3
  <1>9. ChannelsOK'
    BY <1>1, <1>4, <1>6, <1>8 DEF ChannelsOK, hostVars
  <1> QED
    BY <1>4, <1>5, <1>7, <1>9 DEF CommInv

\* The timeout, the return of com_abort and the loop of com_process_data.
LEMMA LoopStepComm ==
  ASSUME CommInv, Start \/ Aborted \/ ReadId \/ ReadSize \/ SizeMissing \/ After
  PROVE  CommInv'
  <1>1. VariablesOK /\ ChannelsOK /\ StackOK /\ LoopOK
    BY DEF CommInv
  <1>2. stack # <<>> /\ Top \in Calls /\ Top.left <= Len(Top.data) /\ Unpicked(Top)
    BY <1>1, TopCall DEF Start, Aborted, ReadId, ReadSize, SizeMissing, After, At
  <1>3. Top.left \in Nat /\ Top.reply \in Byte /\ Top.next \in Nexts /\ Top.data \in Seq(Byte)
    BY <1>2 DEF Calls
  <1>4. UNCHANGED <<asked, unsent, link, out>>
    BY DEF Start, Aborted, ReadId, ReadSize, SizeMissing, After, hostVars
  <1>5. CASE Start
    <2>1. VariablesOK' /\ Top.left > 0
      BY <1>1, <1>2, <1>5 DEF Start, VariablesOK, Unpicked, Early, At, hostVars, parser, session
    <2>2. CASE timeout /\ com_state # "ID"
      <3> DEFINE left == Top.left
      <3>1. Become(Now("send_id", left, COM_END, "aborted")) /\ left \in Nat /\ left > 0 /\ left <= Top.left
        BY <1>3, <1>5, <2>1, <2>2 DEF Start, Send
      <3> HIDE DEF left
      <3>2. COM_END \in Byte /\ "aborted" \in Nexts /\ "send_id" \in Places
        BY Replies DEF Nexts, Places
      <3> QED
        BY <1>2, <1>4, <2>1, <3>1, <3>2, Goes
    <2>3. CASE ~(timeout /\ com_state # "ID")
      <3>1. Goto("loop")
        BY <1>5, <2>3 DEF Start
      <3> QED
        BY <1>2, <1>4, <2>1, <3>1, Place DEF Places
    <2> QED
      BY <2>2, <2>3
  <1>6. CASE Aborted
    <2>1. VariablesOK'
      BY <1>1, <1>6 DEF Aborted, Cleared, VariablesOK, hostVars
    <2>2. Goto("loop") /\ Top.left > 0
      BY <1>2, <1>6 DEF Aborted, At, Unpicked, Early
    <2> QED
      BY <1>2, <1>4, <2>1, <2>2, Place DEF Places
  <1>7. CASE ReadId
    <2>1. Top.left > 0 /\ Picked /\ At("loop") /\ com_state' # "ID"
      BY <1>1, <1>7 DEF ReadId, LoopOK
    <2>2. Head(Top.data) \in Byte
      BY <1>2, <1>3, <2>1, FirstRemoved
    <2>3. VariablesOK'
      BY <1>1, <1>7, <2>2, Numbers DEF ReadId, VariablesOK, hostVars, session, Byte
    <2> QED
      BY <1>4, <2>1, <2>3, Pick
  <1>8. CASE ReadSize
    <2>1. Top.left > 0 /\ Picked /\ At("loop") /\ com_state = "SIZE"
      BY <1>8 DEF ReadSize
    <2>2. Head(Top.data) \in Byte
      BY <1>2, <1>3, <2>1, FirstRemoved
    <2>3. sized \in Nat /\ sized < SIZE_BYTES /\ sized \in {0, 1, 2} /\ totalSize \in Nat
      BY <1>1, <2>1, Numbers DEF VariablesOK
    <2>4. Shifted(Head(Top.data), sized) \in Nat /\ Head(Top.data) \in Nat
      BY <2>2, <2>3, ShiftedByte DEF Byte
    <2>5. totalSize' \in Nat
      BY <1>8, <2>3, <2>4 DEF ReadSize
    <2>6. /\ sized' = sized + 1 /\ sized' \in 0..SIZE_BYTES
          /\ \/ sized' = SIZE_BYTES /\ com_state' = "DATA" /\ com_bytes_processed' = 0
             \/ sized' < SIZE_BYTES /\ com_state' = "SIZE" /\ com_bytes_processed' = com_bytes_processed
      BY <1>8, <2>1, <2>3, Numbers DEF ReadSize
    <2>7. VariablesOK'
      BY <1>1, <1>8, <2>5, <2>6 DEF ReadSize, VariablesOK, hostVars, session
    <2>8. com_state' # "ID"
      BY <2>6
    <2> QED
      BY <1>4, <2>1, <2>7, <2>8, Pick
  <1>9. Return /\ UNCHANGED <<hostVars, parser, session, timeout>> => CommInv'
    <2> SUFFICES ASSUME Return, UNCHANGED <<hostVars, parser, session, timeout>> PROVE CommInv'
      OBVIOUS
    <2>1. StackOK' /\ \A k \in 1..Len(stack') : stack'[k].at \notin {"start", "loop"}
      BY <1>1, <1>2, ReturnKeeps
    <2>2. LoopOK'
      <3>1. stack' # <<>> => Len(stack') \in 1..Len(stack')
        BY <2>1 DEF StackOK
      <3> QED
        BY <2>1, <3>1 DEF LoopOK, At, Top
    <2>3. VariablesOK' /\ ChannelsOK'
      BY <1>1, <1>4 DEF VariablesOK, ChannelsOK, hostVars, parser, session
    <2> QED
      BY <2>1, <2>2, <2>3 DEF CommInv
  <1>10. CASE SizeMissing
    BY <1>9, <1>10 DEF SizeMissing
  <1>11. CASE After
    <2>1. CASE Top.left > 0
      <3>1. Goto("loop")
        BY <1>11, <2>1 DEF After
      <3>2. VariablesOK'
        BY <1>1, <1>11 DEF After, VariablesOK, hostVars, parser, session
      <3> QED
        BY <1>2, <1>4, <2>1, <3>1, <3>2, Place DEF Places
    <2>2. CASE ~(Top.left > 0)
      BY <1>9, <1>11, <2>2 DEF After
    <2> QED
      BY <2>1, <2>2
  <1> QED
    BY <1>5, <1>6, <1>7, <1>8, <1>10, <1>11
-----------------------------------------------------------------------------
SessionTypes ==
  /\ FLAG_COM \in BOOLEAN /\ KEY_ENTERED \in BOOLEAN
  /\ KEY \in [1..Len(RightKey) -> 0..255]
  /\ fram \in [0..(FRAM_BYTE_SIZE - 1) -> 0..255]
  /\ COM_POS \in Nat /\ COM_PARAMETER \in Nat

\* com_exec takes what it needs of the packet ...
LEMMA TakenComm ==
  ASSUME CommInv, Taken, SessionTypes'
  PROVE  /\ VariablesOK' /\ UNCHANGED <<asked, unsent, link, out>>
         /\ stack # <<>> /\ Top \in Calls /\ Top.left - Available \in Nat /\ Top.left - Available <= Top.left
         /\ com_state' = "ID" => Available = Missing
         /\ Top.left \in Nat /\ Available \in Nat
  <1>1. VariablesOK /\ StackOK /\ At("loop") /\ com_state = "DATA"
    BY DEF CommInv, Taken
  <1>2. /\ Missing \in Nat /\ Available \in Nat /\ Available <= Top.left /\ Available <= Missing
        /\ ~(Top.left < Missing) => Available = Missing
        /\ com_bytes_processed + Available <= totalSize
        /\ com_bytes_processed + Available \in Nat
    BY <1>1, GivenData
  <1>3. stack # <<>> /\ Top \in Calls /\ Top.left \in Nat
    BY <1>1, TopCall DEF At, Calls
  <1>4. VariablesOK'
    BY <1>1, <1>2 DEF Taken, VariablesOK, SessionTypes, hostVars
  <1>5. Top.left - Available \in Nat /\ Top.left - Available <= Top.left
    BY <1>2, <1>3
  <1>6. UNCHANGED <<asked, unsent, link, out>> /\ (com_state' = "ID" => Available = Missing)
    BY <1>2 DEF Taken, hostVars
  <1> QED
    BY <1>2, <1>3, <1>4, <1>5, <1>6

\* ... and answers ...
LEMMA AnswerComm ==
  ASSUME CommInv, Taken, SessionTypes', NEW reply \in Byte, NEW next \in Nexts \ {"aborted"}, Answer(reply, next)
  PROVE  CommInv'
  <1> DEFINE left == Top.left - Available
  <1>1. /\ VariablesOK' /\ UNCHANGED <<asked, unsent, link, out>> /\ stack # <<>>
        /\ left \in Nat /\ left <= Top.left /\ Become(Now("send_id", left, reply, next))
    BY TakenComm DEF Answer
  <1> HIDE DEF left
  <1>2. "send_id" \in Places
    BY DEF Places
  <1> QED
    BY <1>1, <1>2, Goes

\* ... or goes on with the user or the next packet.
LEMMA RestComm ==
  ASSUME CommInv, Taken, SessionTypes', NEW place \in {"confirm", "after"}, Become(Rest(place))
  PROVE  CommInv'
  <1> DEFINE left == Top.left - Available
  <1> DEFINE reply == Top.reply
  <1> DEFINE next == Top.next
  <1>1. /\ VariablesOK' /\ UNCHANGED <<asked, unsent, link, out>> /\ stack # <<>> /\ Top \in Calls
        /\ left \in Nat /\ left <= Top.left /\ Become(Now(place, left, reply, next))
    BY TakenComm DEF Rest
  <1>2. reply \in Byte /\ next \in Nexts
    BY <1>1 DEF Calls
  <1> HIDE DEF left, reply, next
  <1>3. place \in Places /\ place # "loop" /\ place \notin {"start", "aborted"} \cup Sends
    BY DEF Places, Sends
  <1> QED
    BY <1>1, <1>2, <1>3, Goes

\* command_set_key: the bytes that come go to their place in the key.
LEMMA SetKeyTypes ==
  ASSUME CommInv, ExecSetKey
  PROVE  SessionTypes'
  <1>1. VariablesOK /\ StackOK /\ At("loop") /\ com_state = "DATA"
    BY DEF CommInv, ExecSetKey, Taken
  <1>2. Available \in Nat /\ Given \in Seq(Byte) /\ Len(Given) = Available
    BY <1>1, GivenData
  <1> DEFINE key == [i \in DOMAIN KEY |-> IF i - COM_POS \in 1..Available THEN Given[i - COM_POS] ELSE KEY[i]]
  <1>3. KEY \in [1..Len(RightKey) -> Byte] /\ COM_POS \in Nat
    BY <1>1 DEF VariablesOK, Byte
  <1>4. \A j \in 1..Available : Given[j] \in Byte
    BY <1>2
  <1>5. key \in [1..Len(RightKey) -> Byte]
    BY <1>3, <1>4
  <1>6. KEY' = key /\ COM_POS' \in {0, COM_POS + Available} /\ UNCHANGED <<FLAG_COM, fram, COM_PARAMETER>>
    BY DEF ExecSetKey
  <1>7. KEY_ENTERED' \in BOOLEAN
    <2>1. \E b \in BOOLEAN : KEY_ENTERED' = (KEY_ENTERED \/ b)
      <3>1. KEY_ENTERED' = (KEY_ENTERED \/ (COM_POS + Available = totalSize /\ key = RightKey))
        BY DEF ExecSetKey
      <3> QED
        BY <3>1
    <2> QED
      BY <1>1, <2>1 DEF VariablesOK
  <1>8. COM_POS' \in Nat
    BY <1>2, <1>3, <1>6
  <1>9. KEY' \in [1..Len(RightKey) -> 0..255]
    BY <1>5, <1>6 DEF Byte
  <1> HIDE DEF key
  <1> QED
    BY <1>1, <1>6, <1>7, <1>8, <1>9 DEF SessionTypes, VariablesOK

\* command_set_fram: first the bytes of the address, then those of the memory.
LEMMA SetFramTypes ==
  ASSUME CommInv, ExecSetFram
  PROVE  SessionTypes'
  <1>1. VariablesOK /\ StackOK /\ At("loop") /\ com_state = "DATA"
    BY DEF CommInv, ExecSetFram, Taken
  <1>2. Available \in Nat /\ Given \in Seq(Byte) /\ Len(Given) = Available
    BY <1>1, GivenData
  <1> DEFINE lacking == IF COM_POS < ADDRESS_BYTES THEN ADDRESS_BYTES - COM_POS ELSE 0
  <1> DEFINE n == IF Available < lacking THEN Available ELSE lacking
  <1> DEFINE gathered(k) == IF k <= n THEN Shifted(Given[k], COM_POS + k - 1) ELSE 0
  <1> DEFINE parameter == COM_PARAMETER + gathered(1) + gathered(2) + gathered(3)
  <1> DEFINE start == parameter + COM_POS + n - ADDRESS_BYTES
  <1> DEFINE written ==
        [a \in DOMAIN fram |-> IF a - start + 1 \in 1..(Available - n) THEN Given[n + a - start + 1] ELSE fram[a]]
  <1>3. COM_POS \in Nat /\ COM_PARAMETER \in Nat /\ fram \in [0..(FRAM_BYTE_SIZE - 1) -> Byte]
    BY <1>1 DEF VariablesOK, Byte
  <1>4. /\ n \in Nat /\ n <= Available
        /\ \A k \in {1, 2, 3} : k <= n => COM_POS + k - 1 \in {0, 1, 2}
    BY <1>2, <1>3, Numbers
  <1>5. \A j \in 1..Available : Given[j] \in Byte
    BY <1>2
  <1>6. fram' = (IF COM_POS + n < ADDRESS_BYTES THEN fram ELSE written)
    BY DEF ExecSetFram
  <1>7. COM_PARAMETER' \in {0, parameter} /\ COM_POS' \in {0, COM_POS + Available}
        /\ UNCHANGED <<FLAG_COM, KEY_ENTERED, KEY>>
    BY DEF ExecSetFram
  <1> HIDE DEF lacking, n
  <1>8. \A k \in {1, 2, 3} : gathered(k) \in Nat
    <2> SUFFICES ASSUME NEW k \in {1, 2, 3} PROVE gathered(k) \in Nat
      OBVIOUS
    <2>1. CASE k <= n
      <3> DEFINE b == Given[k]
      <3> DEFINE m == COM_POS + k - 1
      <3>1. b \in Byte /\ m \in {0, 1, 2}
        BY <1>2, <1>4, <1>5, <2>1
      <3> HIDE DEF b, m
      <3>2. Shifted(b, m) \in Nat
        BY <3>1, ShiftedByte
      <3> QED
        BY <2>1, <3>2 DEF b, m
    <2>2. CASE ~(k <= n)
      BY <2>2
    <2> QED
      BY <2>1, <2>2
  <1>9. gathered(1) \in Nat /\ gathered(2) \in Nat /\ gathered(3) \in Nat
    BY <1>8
  <1> HIDE DEF gathered
  <1>10. parameter \in Nat
    BY <1>3, <1>9
  <1> HIDE DEF parameter
  <1>11. start \in Int
    BY <1>3, <1>4, <1>10, Numbers
  <1> HIDE DEF start
  <1>12. written \in [0..(FRAM_BYTE_SIZE - 1) -> Byte]
    <2>1. DOMAIN fram = 0..(FRAM_BYTE_SIZE - 1)
      BY <1>3
    <2> SUFFICES ASSUME NEW a \in 0..(FRAM_BYTE_SIZE - 1)
                 PROVE (IF a - start + 1 \in 1..(Available - n) THEN Given[n + a - start + 1] ELSE fram[a]) \in Byte
      BY <2>1
    <2>2. CASE a - start + 1 \in 1..(Available - n)
      <3>1. a \in Int /\ n + a - start + 1 \in 1..Available
        BY <1>2, <1>4, <1>11, <2>2, Numbers
      <3> QED
        BY <1>5, <2>2, <3>1
    <2>3. CASE a - start + 1 \notin 1..(Available - n)
      BY <1>3, <2>3
    <2> QED
      BY <2>2, <2>3
  <1> HIDE DEF written
  <1>13. fram' \in [0..(FRAM_BYTE_SIZE - 1) -> 0..255]
    BY <1>3, <1>6, <1>12 DEF Byte
  <1>14. COM_POS' \in Nat /\ COM_PARAMETER' \in Nat
    BY <1>2, <1>3, <1>7, <1>10
  <1> QED
    BY <1>1, <1>7, <1>13, <1>14 DEF SessionTypes, VariablesOK
\* Every command.
LEMMA ExecComm ==
  ASSUME CommInv, Exec
  PROVE  CommInv'
  <1>1. VariablesOK /\ Taken
    BY DEF CommInv, Exec, ExecVersion, ExecRefused, ExecInit, ExecEnd, ExecGet, ExecSetFram, ExecSetKey, ExecUnknown, ExecReset
  <1>2. UNCHANGED session => SessionTypes'
    BY <1>1 DEF VariablesOK, SessionTypes, session
  <1>3. \A reply \in Byte, next \in Nexts \ {"aborted"} : SessionTypes' /\ Answer(reply, next) => CommInv'
    BY <1>1, AnswerComm
  <1>4. \A place \in {"confirm", "after"} : SessionTypes' /\ Become(Rest(place)) => CommInv'
    BY <1>1, RestComm
  <1>5. {"after", "init_aborted", "unknown_aborted", "reset"} \subseteq Nexts \ {"aborted"}
    BY DEF Nexts
  <1>6. CASE ExecVersion
    BY <1>2, <1>3, <1>5, <1>6, Replies DEF ExecVersion
  <1>7. CASE ExecRefused
    BY <1>2, <1>3, <1>5, <1>7, Replies DEF ExecRefused
  <1>8. CASE ExecInit
    BY <1>2, <1>3, <1>4, <1>5, <1>8, Replies DEF ExecInit
  <1>9. CASE ExecEnd
    <2>1. SessionTypes'
      BY <1>1, <1>9 DEF ExecEnd, VariablesOK, SessionTypes
    <2> QED
      BY <1>3, <1>5, <1>9, <2>1, Replies DEF ExecEnd
  <1>10. CASE ExecGet
    <2>1. \E reply \in Byte : Answer(reply, "after")
      BY <1>10, Replies DEF ExecGet
    <2> QED
      BY <1>2, <1>3, <1>5, <1>10, <2>1 DEF ExecGet
  <1>11. CASE ExecSetFram
    <2>1. Answer(COM_OK, "after") \/ Become(Rest("after"))
      BY <1>11 DEF ExecSetFram
    <2> QED
      BY <1>3, <1>4, <1>5, <1>11, <2>1, SetFramTypes, Replies
  <1>12. CASE ExecSetKey
    <2>1. Answer(COM_OK, "after") \/ Answer(COM_BAD_KEY, "after") \/ Become(Rest("after"))
      BY <1>12 DEF ExecSetKey
    <2> QED
      BY <1>3, <1>4, <1>5, <1>12, <2>1, SetKeyTypes, Replies
  <1>13. CASE ExecUnknown
    BY <1>2, <1>3, <1>5, <1>13, Replies DEF ExecUnknown
  <1>14. CASE ExecReset
    BY <1>2, <1>3, <1>5, <1>14, Replies DEF ExecReset
  <1> QED
    BY <1>6, <1>7, <1>8, <1>9, <1>10, <1>11, <1>12, <1>13, <1>14 DEF Exec

\* The user's answer, and the return of com_abort to a command.
LEMMA CommandStepComm ==
  ASSUME CommInv, ConfirmYes \/ ConfirmNo \/ InitAborted \/ UnknownAborted
  PROVE  CommInv'
  <1>1. VariablesOK /\ StackOK /\ stack # <<>> /\ Top \in Calls
    BY TopCall DEF CommInv, ConfirmYes, ConfirmNo, InitAborted, UnknownAborted, At
  <1>2. UNCHANGED <<asked, unsent, link, out>>
    BY DEF ConfirmYes, ConfirmNo, InitAborted, UnknownAborted, hostVars
  <1>3. VariablesOK'
    <2>1. /\ host' = host /\ link' = link /\ timeout' = timeout /\ UNCHANGED parser
          /\ KEY' = KEY /\ fram' = fram /\ KEY_ENTERED' = KEY_ENTERED
      <3>1. CASE ConfirmYes
        BY <3>1 DEF ConfirmYes, hostVars
      <3>2. CASE ConfirmNo
        BY <3>2 DEF ConfirmNo, hostVars, session
      <3>3. CASE InitAborted \/ UnknownAborted
        BY <3>3 DEF InitAborted, UnknownAborted, Cleared, hostVars
      <3> QED
        BY <3>1, <3>2, <3>3
    <2>2. COM_POS' \in {0, COM_POS} /\ COM_PARAMETER' \in {0, COM_PARAMETER}
      BY DEF ConfirmYes, ConfirmNo, InitAborted, UnknownAborted, Cleared, session
    <2>3. FLAG_COM' = TRUE \/ FLAG_COM' = FALSE \/ FLAG_COM' = FLAG_COM
      BY DEF ConfirmYes, ConfirmNo, InitAborted, UnknownAborted, Cleared, session
    <2>4. FLAG_COM' \in BOOLEAN
      BY <1>1, <2>3 DEF VariablesOK
    <2>5. COM_POS' \in Nat /\ COM_PARAMETER' \in Nat
      BY <1>1, <2>2 DEF VariablesOK
    <2> QED
      BY <1>1, <2>1, <2>4, <2>5 DEF VariablesOK, parser
  <1>4. CASE ConfirmYes \/ ConfirmNo
    <2> DEFINE left == Top.left
    <2>1. PICK reply \in Byte : Become(Now("send_id", left, reply, "after"))
      BY <1>4, Replies DEF ConfirmYes, ConfirmNo, Send
    <2>2. left \in Nat /\ left <= Top.left
      BY <1>1 DEF Calls
    <2> HIDE DEF left
    <2>3. "after" \in Nexts /\ "send_id" \in Places
      BY DEF Nexts, Places
    <2> QED
      BY <1>1, <1>2, <1>3, <2>1, <2>2, <2>3, Goes
  <1>5. CASE InitAborted \/ UnknownAborted
    <2>1. PICK place \in {"confirm", "after"} : Goto(place)
      BY <1>5 DEF InitAborted, UnknownAborted
    <2>2. place \in Places /\ place # "loop" /\ place \notin {"start", "aborted"} \cup Sends
      BY DEF Places, Sends
    <2> QED
      BY <1>1, <1>2, <1>3, <2>1, <2>2, Place
  <1> QED
    BY <1>4, <1>5

\* The wallet starts afresh.
LEMMA ResetComm ==
  ASSUME CommInv, Reset
  PROVE  CommInv'
  <1>1. /\ KEY' \in [1..Len(RightKey) -> 0..255]
        /\ fram' \in [0..(FRAM_BYTE_SIZE - 1) -> 0..255]
    BY DEF Reset, CommInv, VariablesOK
  <1>2. Len(link') <= MaxLink /\ sized' \in 0..SIZE_BYTES
    BY Numbers DEF Reset
  <1>3. VariablesOK'
    <2>1. /\ host' = "closed" /\ timeout' \in BOOLEAN /\ FLAG_COM' \in BOOLEAN /\ KEY_ENTERED' \in BOOLEAN
          /\ COM_POS' = 0 /\ COM_PARAMETER' = 0
          /\ com_state' = "ID" /\ id' = 0 /\ totalSize' = 0 /\ com_bytes_processed' = 0
      BY DEF Reset
    <2>2. /\ host' \in {"closed", "opening", "open", "busy"} /\ com_state' \in {"ID", "SIZE", "DATA"}
          /\ COM_POS' \in Nat /\ COM_PARAMETER' \in Nat /\ id' \in 0..255
          /\ totalSize' \in Nat /\ com_bytes_processed' \in Nat
          /\ com_state' # "SIZE" /\ com_state' # "DATA"
      BY <2>1
    <2> QED
      BY <1>1, <1>2, <2>1, <2>2, Zenon DEF VariablesOK
  <1>4. /\ <<>> \in Seq(Byte) /\ <<>> \in Seq(Parts) /\ <<>> \in Seq(Seq(Byte) \ {<<>>})
        /\ <<>> \in Seq(Calls) /\ Len(<<>>) = 0
    OBVIOUS
  <1>5. ChannelsOK'
    BY <1>4 DEF Reset, CommInv, ChannelsOK
  <1>6. StackOK' /\ LoopOK'
    BY <1>4 DEF Reset, StackOK, LoopOK, At
  <1> QED
    BY <1>3, <1>5, <1>6 DEF CommInv

\* Nothing happens.
LEMMA CommStutters ==
  ASSUME CommInv, UNCHANGED vars
  PROVE  CommInv'
  <1>1. VariablesOK' /\ ChannelsOK'
    BY DEF CommInv, VariablesOK, ChannelsOK, vars, hostVars, parser, session
  <1>2. StackOK' /\ LoopOK'
    BY CallsUntouched DEF CommInv, vars, parser
  <1> QED
    BY <1>1, <1>2 DEF CommInv

\* The parser never picks a byte beyond its packet, however the calls of
\* com_process_data nest (Process.c 10-72), never takes more of a command's data
\* than the size its header announced, and every suspended call waits at a place
\* where its packet is well formed.
THEOREM CommInvariant == Spec => []CommInv
  <1>1. CommInv /\ [Next]_vars => CommInv'
    <2> SUFFICES ASSUME CommInv, [Next]_vars PROVE CommInv'
      OBVIOUS
    <2>1. CASE Poll
      BY <2>1, PollComm
    <2>2. CASE SendId \/ SendRest
      BY <2>2, SendComm
    <2>3. CASE Start \/ Aborted \/ ReadId \/ ReadSize \/ SizeMissing \/ After
      BY <2>3, LoopStepComm
    <2>4. CASE Exec
      BY <2>4, ExecComm
    <2>5. CASE ConfirmYes \/ ConfirmNo \/ InitAborted \/ UnknownAborted
      BY <2>5, CommandStepComm
    <2>6. CASE Reset
      BY <2>6, ResetComm
    <2>7. CASE Host \/ Deliver \/ Expire
      BY <2>7, HostStepComm
    <2>8. CASE UNCHANGED vars
      BY <2>8, CommStutters
    <2> QED
      BY <2>1, <2>2, <2>3, <2>4, <2>5, <2>6, <2>7, <2>8 DEF Next, Device, User
  <1> QED
    BY <1>1, InitComm, PTL DEF Spec

\* TypeOK, the run's type invariant, for packets, headers, memories, commands and
\* a nesting of calls of any size.
THEOREM CommTypes == Spec => []TypeOK
  <1>1. CommInv => TypeOK
    <2> SUFFICES ASSUME CommInv PROVE TypeOK
      OBVIOUS
    <2>1. \A k \in 1..Len(stack) : stack[k] \in Calls /\ stack[k].left <= Len(stack[k].data)
      BY DEF CommInv, StackOK
    <2>2. \A k \in 1..Len(stack) : stack[k].at \in Places /\ stack[k].left \in 0..Len(stack[k].data)
      BY <2>1 DEF Calls
    <2> QED
      BY <2>2 DEF CommInv, TypeOK, LoopOK
  <1> QED
    BY <1>1, CommInvariant, PTL
-----------------------------------------------------------------------------
\* The steps of the running call that send nothing keep what the host is told.
LEMMA Onward ==
  ASSUME CommInv, SessionInv, stack # <<>>, Top.at \notin Sends,
         NEW c \in Calls, Become(c), Told(c), c.at \notin Clearing, out' = out, host' = host
  PROVE  /\ Len(stack) \in Nat /\ Len(stack) > 0 /\ Len(stack') = Len(stack) /\ stack'[Len(stack)] = c
         /\ stack[Len(stack)] = Top /\ stack \in Seq(Calls)
         /\ \A k \in 1..Len(stack) : k = Len(stack) \/ (k \in 1..Len(stack) - 1 /\ stack'[k] = stack[k])
         /\ TellsEnd' /\ ClearsTold' /\ (ClosingComing => ClosingComing') /\ (Closes(c) => ClosingComing')
  <1>1. stack \in Seq(Calls) /\ Len(stack) \in Nat /\ Len(stack) > 0
    BY TopCall DEF CommInv, StackOK
  <1>2. /\ Len(stack') = Len(stack) /\ stack'[Len(stack)] = c
        /\ \A k \in 1..Len(stack) - 1 : stack'[k] = stack[k]
    BY <1>1, LastReplaced DEF Become
  <1>3. \A k \in 1..Len(stack) : k = Len(stack) \/ (k \in 1..Len(stack) - 1 /\ stack'[k] = stack[k])
    BY <1>1, <1>2
  <1>4. stack[Len(stack)] = Top /\ ~Closes(Top) /\ Len(stack) \in 1..Len(stack)
    BY <1>1 DEF Top, Closes
  <1>5. TellsEnd'
    BY <1>2, <1>3 DEF SessionInv, TellsEnd, Told
  <1>6. ClosingSent' = ClosingSent
    BY DEF ClosingSent
  <1>7. ClearsTold'
    BY <1>2, <1>3, <1>6 DEF SessionInv, ClearsTold
  <1>8. ClosingComing => ClosingComing'
    BY <1>2, <1>3, <1>4, <1>6 DEF ClosingComing, Closes
  <1>9. Closes(c) => ClosingComing'
    BY <1>2, <1>4 DEF ClosingComing, Closes
  <1> QED
    BY <1>1, <1>2, <1>3, <1>4, <1>5, <1>7, <1>8, <1>9

\* What is left to show of a step that does not change the host.
LEMMA SessionKept ==
  ASSUME SessionInv, host' = host, TellsEnd', ClearsTold', ClosingComing => ClosingComing' \/ host = "closed",
         FLAG_COM /\ ~FLAG_COM' => ClosingComing' \/ host = "closed",
         Calm /\ Calm' /\ OnlyAsked => OnlyAsked'
  PROVE  SessionInv'
  <1>1. OpenOrTold'
    BY DEF SessionInv, OpenOrTold
  <1>2. Calm' => Calm
    BY DEF Calm
  <1>3. Quiet'
    BY <1>2 DEF SessionInv, Quiet
  <1> QED
    BY <1>1, <1>3 DEF SessionInv
\* The wallet goes on reading the host's request.
LEMMA AskedOnward ==
  ASSUME CommInv, SessionInv, OnlyAsked, stack # <<>>, Top.at \notin Sends,
         NEW c \in Calls, Become(c), c.at \notin Clearing \cup Sends, c.data \in Seq(InitBytes),
         UNCHANGED <<host, unsent, link, out>>, com_state' = "ID" \/ id' \in InitBytes
  PROVE  OnlyAsked'
  <1>1. Told(c)
    BY DEF Told
  <1>2. /\ Len(stack) \in Nat /\ Len(stack) > 0 /\ Len(stack') = Len(stack) /\ stack'[Len(stack)] = c
        /\ \A k \in 1..Len(stack) : k = Len(stack) \/ (k \in 1..Len(stack) - 1 /\ stack'[k] = stack[k])
    BY <1>1, Onward
  <1>3. \A k \in 1..Len(stack') : stack'[k].at \notin Sends
    BY <1>2 DEF OnlyAsked
  <1>4. \A k \in 1..Len(stack') : Asks(k)'
    BY <1>2 DEF OnlyAsked, Asks
  <1> QED
    BY <1>3, <1>4 DEF OnlyAsked

\* The same, when the call only goes to another place, with what is left.
LEMMA AskedGoes ==
  ASSUME CommInv, SessionInv, OnlyAsked, stack # <<>>, Top.at \notin Sends,
         NEW place \in Places \ (Clearing \cup Sends), NEW left \in Nat,
         Become(Now(place, left, Top.reply, Top.next)), Top.data \in Seq(InitBytes),
         UNCHANGED <<host, unsent, link, out>>, com_state' = "ID" \/ id' \in InitBytes
  PROVE  OnlyAsked'
  <1> DEFINE c == Now(place, left, Top.reply, Top.next)
  <1>1. c \in Calls /\ c.at = place /\ c.data = Top.data /\ Become(c)
    BY TopCall DEF CommInv, Calls, Now
  <1> HIDE DEF c
  <1> QED
    BY <1>1, AskedOnward

\* What the running call reads of the request.
LEMMA TopAsks ==
  ASSUME CommInv, OnlyAsked, stack # <<>>, Top.at # "confirm"
  PROVE  /\ Top.data \in Seq(InitBytes)
         /\ Top.at # "start" => com_state = "ID" \/ id \in InitBytes
  <1>1. Len(stack) \in 1..Len(stack) /\ Top = stack[Len(stack)]
    BY TopCall DEF CommInv, Top
  <1> QED
    BY <1>1 DEF OnlyAsked, Asks

\* The running call at another place: what the host is told.
LEMMA GoesTold ==
  ASSUME CommInv, SessionInv, stack # <<>>, Top.at \notin Sends,
         NEW place \in Places \ Clearing, NEW left \in Nat, NEW reply \in Byte, NEW next \in Nexts,
         Become(Now(place, left, reply, next)), place \in Sends /\ next \in Clearing => reply = COM_END,
         out' = out, host' = host
  PROVE  /\ TellsEnd' /\ ClearsTold' /\ (ClosingComing => ClosingComing')
         /\ place \in Sends /\ reply \in Closing => ClosingComing'
  <1> DEFINE c == Now(place, left, reply, next)
  <1>1. c \in Calls /\ c.at = place /\ c.reply = reply /\ c.next = next /\ Become(c)
    BY TopCall DEF CommInv, Calls, Now
  <1> HIDE DEF c
  <1>2. Told(c) /\ c.at \notin Clearing /\ (place \in Sends /\ reply \in Closing => Closes(c))
    BY <1>1 DEF Told, Closes
  <1>3. TellsEnd' /\ ClearsTold' /\ (ClosingComing => ClosingComing') /\ (Closes(c) => ClosingComing')
    BY <1>1, <1>2, Onward
  <1> QED
    BY <1>2, <1>3

\* ... with the same reply and the same place to go on.
LEMMA PlaceTold ==
  ASSUME CommInv, SessionInv, stack # <<>>, Top.at \notin Sends, NEW place \in Places \ (Clearing \cup Sends),
         NEW left \in Nat, Become(Now(place, left, Top.reply, Top.next)), out' = out, host' = host
  PROVE  TellsEnd' /\ ClearsTold' /\ (ClosingComing => ClosingComing')
  <1>1. Top \in Calls
    BY TopCall DEF CommInv
  <1> DEFINE reply == Top.reply
  <1> DEFINE next == Top.next
  <1>2. reply \in Byte /\ next \in Nexts /\ Become(Now(place, left, reply, next))
        /\ place \in Places \ Clearing /\ ~(place \in Sends /\ next \in Clearing)
    BY <1>1 DEF Calls
  <1> HIDE DEF reply, next
  <1> QED
    BY <1>2, GoesTold
\* A call that goes on in com_process_data, and changes nothing of the session.
LEMMA LoopSession ==
  ASSUME CommInv, SessionInv, stack # <<>>, Top.at \notin Sends, Top.at \notin {"confirm", "start"},
         NEW place \in Places \ (Clearing \cup Sends), Goto(place),
         UNCHANGED <<host, unsent, link, out, FLAG_COM, com_state, id>>
  PROVE  SessionInv'
  <1>1. StackOK /\ Top \in Calls
    BY TopCall DEF CommInv
  <1> DEFINE left == Top.left
  <1>2. left \in Nat /\ Become(Now(place, left, Top.reply, Top.next))
    BY <1>1, CallChanged DEF Calls, Goto
  <1> HIDE DEF left
  <1>3. TellsEnd' /\ ClearsTold' /\ (ClosingComing => ClosingComing')
    BY <1>2, PlaceTold
  <1>4. OnlyAsked => OnlyAsked'
    <2> SUFFICES ASSUME OnlyAsked PROVE OnlyAsked'
      OBVIOUS
    <2>1. Top.data \in Seq(InitBytes) /\ (com_state = "ID" \/ id \in InitBytes)
      BY TopAsks
    <2> QED
      BY <1>2, <2>1, AskedGoes
  <1> QED
    BY <1>3, <1>4, SessionKept

\* The start of a call, which may abort the command before it.
LEMMA StartSession ==
  ASSUME CommInv, SessionInv, Start
  PROVE  SessionInv'
  <1>1. stack # <<>> /\ Top.at = "start" /\ Top.at \notin Sends /\ StackOK
    BY DEF Start, At, Sends, CommInv
  <1>2. Top \in Calls
    BY <1>1, TopCall
  <1>3. UNCHANGED <<host, unsent, link, out, FLAG_COM, com_state, id>>
    BY DEF Start, hostVars, parser, session
  <1> DEFINE left == Top.left
  <1>4. left \in Nat
    BY <1>2 DEF Calls
  <1>5. CASE timeout /\ com_state # "ID"
    <2>1. Become(Now("send_id", left, COM_END, "aborted"))
      BY <1>5 DEF Start, Send
    <2> HIDE DEF left
    <2>2. /\ "send_id" \in Places \ Clearing /\ "send_id" \in Sends /\ COM_END \in Byte /\ COM_END \in Closing
          /\ "aborted" \in Nexts
      BY Replies DEF Places, Clearing, Sends, Closing, Nexts
    <2>3. TellsEnd' /\ ClearsTold' /\ (ClosingComing => ClosingComing') /\ ClosingComing'
      BY <1>1, <1>3, <1>4, <2>1, <2>2, GoesTold
    <2>4. ~Calm'
      BY <2>3 DEF Calm
    <2> QED
      BY <1>3, <2>3, <2>4, SessionKept
  <1>6. CASE ~(timeout /\ com_state # "ID")
    <2>1. Become(Now("loop", left, Top.reply, Top.next))
      BY <1>1, <1>6, CallChanged DEF Start, Goto
    <2> HIDE DEF left
    <2>2. "loop" \in Places \ (Clearing \cup Sends)
      BY DEF Places, Clearing, Sends
    <2>3. TellsEnd' /\ ClearsTold' /\ (ClosingComing => ClosingComing')
      BY <1>1, <1>3, <1>4, <2>1, <2>2, PlaceTold
    <2>4. OnlyAsked => OnlyAsked'
      <3> SUFFICES ASSUME OnlyAsked PROVE OnlyAsked'
        OBVIOUS
      <3>1. Top.data \in Seq(InitBytes)
        BY <1>1, TopAsks
      <3>2. com_state = "ID" \/ id \in InitBytes
        BY <1>6 DEF OnlyAsked
      <3> QED
        BY <1>1, <1>3, <1>4, <2>1, <2>2, <3>1, <3>2, AskedGoes
    <2> QED
      BY <1>3, <2>3, <2>4, SessionKept
  <1> QED
    BY <1>5, <1>6

\* com_abort clears the session; its host was told, or is gone.
LEMMA AbortSession ==
  ASSUME CommInv, SessionInv, Aborted \/ InitAborted \/ UnknownAborted
  PROVE  SessionInv'
  <1>1. stack # <<>> /\ Top.at \in Clearing /\ Top.at \notin Sends /\ StackOK
    BY DEF Aborted, InitAborted, UnknownAborted, At, Clearing, Sends, CommInv
  <1>2. Top \in Calls /\ Len(stack) \in 1..Len(stack) /\ Top = stack[Len(stack)]
    BY <1>1, TopCall DEF Top
  <1>3. UNCHANGED <<host, unsent, link, out>>
    BY DEF Aborted, InitAborted, UnknownAborted, hostVars
  <1>4. host = "closed" \/ ClosingComing
    BY <1>1, <1>2 DEF SessionInv, ClearsTold, ClosingComing
  <1> DEFINE left == Top.left
  <1>5. PICK place \in {"loop", "confirm", "after"} : Goto(place)
    BY DEF Aborted, InitAborted, UnknownAborted
  <1>6. left \in Nat /\ Become(Now(place, left, Top.reply, Top.next)) /\ place \in Places \ (Clearing \cup Sends)
    BY <1>1, <1>2, <1>5, CallChanged DEF Calls, Goto, Places, Clearing, Sends
  <1> HIDE DEF left
  <1>7. TellsEnd' /\ ClearsTold' /\ (ClosingComing => ClosingComing')
    BY <1>1, <1>3, <1>6, PlaceTold
  <1>8. ~Calm'
    BY <1>3, <1>4, <1>7 DEF Calm
  <1> QED
    BY <1>3, <1>4, <1>7, <1>8, SessionKept

\* A byte of a header.
LEMMA HeaderSession ==
  ASSUME CommInv, SessionInv, ReadId \/ ReadSize
  PROVE  SessionInv'
  <1>1. stack # <<>> /\ Top.at = "loop" /\ Top.at \notin Sends /\ StackOK /\ LoopOK /\ Picked
    BY DEF ReadId, ReadSize, At, Sends, CommInv
  <1>2. Top \in Calls /\ Top.left <= Len(Top.data)
    BY <1>1, TopCall
  <1>3. Top.left > 0 /\ Top.left \in Nat /\ Top.data \in Seq(Byte) /\ Top.data # <<>>
    <2>1. Top.left > 0
      BY <1>1 DEF ReadId, ReadSize, LoopOK
    <2> QED
      BY <1>2, <2>1 DEF Calls
  <1>4. UNCHANGED <<host, unsent, link, out, FLAG_COM>>
    BY DEF ReadId, ReadSize, hostVars, session
  <1> DEFINE c == [at |-> "loop", data |-> Tail(Top.data), left |-> Top.left - 1, reply |-> Top.reply, next |-> Top.next]
  <1>5. Become(c)
    BY <1>1 DEF Picked
  <1>6. c \in Calls /\ c.at = "loop" /\ c.data = Tail(Top.data)
    BY <1>2, <1>3, FirstRemoved DEF Calls, Places
  <1> HIDE DEF c
  <1>7. Told(c) /\ c.at \notin Clearing \cup Sends
    BY <1>6 DEF Told, Sends, Clearing
  <1>8. TellsEnd' /\ ClearsTold' /\ (ClosingComing => ClosingComing')
    BY <1>1, <1>4, <1>5, <1>6, <1>7, Onward
  <1>9. OnlyAsked => OnlyAsked'
    <2> SUFFICES ASSUME OnlyAsked PROVE OnlyAsked'
      OBVIOUS
    <2>1. Top.data \in Seq(InitBytes) /\ (com_state = "ID" \/ id \in InitBytes)
      BY <1>1, TopAsks
    <2>2. Head(Top.data) \in InitBytes /\ c.data \in Seq(InitBytes)
      BY <1>3, <1>6, <2>1, FirstRemoved
    <2>3. com_state' = "ID" \/ id' \in InitBytes
      BY <2>1, <2>2 DEF ReadId, ReadSize
    <2> QED
      BY <1>1, <1>4, <1>5, <1>6, <1>7, <2>2, <2>3, AskedOnward
  <1> QED
    BY <1>4, <1>8, <1>9, SessionKept

\* The end of a call.
LEMMA ReturnSession ==
  ASSUME CommInv, SessionInv, stack # <<>>, Top.at \in {"loop", "after"}, Return,
         UNCHANGED <<host, unsent, link, out, FLAG_COM, com_state, id, timeout>>
  PROVE  SessionInv'
  <1>1. /\ Len(stack') = Len(stack) - 1 /\ Len(stack) \in Nat /\ Len(stack) > 0
        /\ \A k \in 1..Len(stack') : stack'[k] = stack[k]
    BY ReturnKeeps, TopCall DEF CommInv
  <1>2. /\ \A k \in 1..Len(stack') : k \in 1..Len(stack)
        /\ \A k \in 1..Len(stack) : k = Len(stack) \/ k \in 1..Len(stack')
        /\ stack[Len(stack)].at \in {"loop", "after"}
    BY <1>1 DEF Top
  <1>3. ClosingSent' = ClosingSent
    BY DEF ClosingSent
  <1>4. TellsEnd' /\ ClearsTold'
    BY <1>1, <1>2, <1>3 DEF SessionInv, TellsEnd, ClearsTold, Told
  <1>5. ClosingComing => ClosingComing'
    BY <1>1, <1>2, <1>3 DEF ClosingComing, Closes, Sends
  <1>6. OnlyAsked => OnlyAsked'
    BY <1>1, <1>2 DEF OnlyAsked, Asks
  <1> QED
    BY <1>4, <1>5, <1>6, SessionKept
-----------------------------------------------------------------------------
\* CDC_Task from a loop of the code.
LEMMA PollSession ==
  ASSUME CommInv, SessionInv, Poll
  PROVE  SessionInv'
  <1>1. StackOK /\ ChannelsOK /\ VariablesOK /\ link # <<>> /\ link' = Tail(link)
    BY DEF CommInv, Poll, Take
  <1> DEFINE p == Head(link)
  <1>2. p \in Seq(Byte) \ {<<>>}
    BY <1>1, TakeKeeps
  <1>3. (stack = <<>> \/ Top.at \notin {"start", "loop"}) /\ stack' = Append(stack, Call(p))
    BY DEF Poll, At, Take
  <1>4. OnlyAsked => p \in Seq(InitBytes) /\ Tail(link) \in Seq(Seq(InitBytes))
    BY <1>1, FirstRemoved DEF OnlyAsked
  <1> HIDE DEF p
  <1>5. /\ Len(stack') = Len(stack) + 1 /\ Top' = Call(p) /\ stack' # <<>> /\ Len(stack) \in Nat
        /\ \A k \in 1..Len(stack) : stack'[k] = stack[k]
    BY <1>1, <1>2, <1>3, CallKeeps DEF StackOK
  <1>6. /\ \A k \in 1..Len(stack') : k = Len(stack') \/ k \in 1..Len(stack)
        /\ \A k \in 1..Len(stack) : k \in 1..Len(stack')
        /\ stack'[Len(stack')].at = "start" /\ stack'[Len(stack')].data = p
    BY <1>2, <1>5, NewCall DEF Top
  <1>7. UNCHANGED <<host, unsent, out, FLAG_COM, com_state, id, timeout>>
    BY DEF Poll, hostVars, parser, session
  <1>8. ClosingSent' = ClosingSent
    BY <1>7 DEF ClosingSent
  <1>9. TellsEnd' /\ ClearsTold'
    BY <1>5, <1>6, <1>7, <1>8 DEF SessionInv, TellsEnd, ClearsTold, Told, Sends, Clearing
  <1>10. ClosingComing => ClosingComing'
    BY <1>5, <1>6, <1>8 DEF ClosingComing, Closes
  <1>11. OnlyAsked => OnlyAsked'
    <2> SUFFICES ASSUME OnlyAsked PROVE OnlyAsked'
      OBVIOUS
    <2>1. link' \in Seq(Seq(InitBytes)) /\ p \in Seq(InitBytes)
      BY <1>1, <1>4
    <2>2. \A k \in 1..Len(stack') : stack'[k].at \notin Sends /\ Asks(k)'
      BY <1>5, <1>6, <2>1 DEF OnlyAsked, Asks, Sends
    <2> QED
      BY <1>5, <1>6, <1>7, <2>1, <2>2 DEF OnlyAsked
  <1> QED
    BY <1>7, <1>9, <1>10, <1>11, SessionKept

\* The two sends of a reply.
LEMMA SendSession ==
  ASSUME CommInv, SessionInv, SendId \/ SendRest
  PROVE  SessionInv'
  <1>1. VariablesOK /\ ChannelsOK /\ StackOK /\ stack # <<>> /\ Top.at \in Sends
    BY DEF CommInv, SendId, SendRest, At, Sends
  <1>2. Top \in Calls /\ Len(stack) \in Nat /\ Len(stack) > 0 /\ stack[Len(stack)] = Top /\ Len(stack) \in 1..Len(stack)
    BY <1>1, TopCall DEF Top
  <1>3. PICK place \in {"send_rest"} \cup Nexts :
          /\ Sent(place) /\ (place = "aborted" => Top.next = "aborted")
          /\ place = "send_rest" \/ place = Top.next
    <2>1. CASE SendId
      BY <2>1 DEF SendId
    <2>2. CASE SendRest
      BY <1>2, <2>2 DEF SendRest, Calls
    <2> QED
      BY <2>1, <2>2
  <1>4. UNCHANGED <<host, FLAG_COM>>
    BY DEF SendId, SendRest, hostVars, session
  <1>5. PICK part \in {"id", "rest"} : Out(part)
    BY DEF SendId, SendRest
  <1> DEFINE c == Now(place, Top.left, Top.reply, Top.next)
  <1>6. /\ \A k \in 1..Len(stack) - 1 : stack'[k] = stack[k]
        /\ stack'[Len(stack)] = c
        /\ \/ Len(stack') = Len(stack)
           \/ Len(stack') = Len(stack) + 1 /\ stack'[Len(stack) + 1] = Call(Head(link))
    BY <1>1, <1>3, SentKeeps
  <1>7. c.at = place /\ c.reply = Top.reply /\ c.next = Top.next /\ Call(Head(link)).at = "start"
    BY DEF Now, Call
  <1> HIDE DEF c
  <1>8. Told(c)
    <2>1. Told(Top)
      BY <1>2 DEF SessionInv, TellsEnd
    <2>2. c.at \in Sends => place = "send_rest"
      BY <1>3, <1>7 DEF Sends, Nexts
    <2> QED
      BY <1>1, <1>7, <2>1, <2>2 DEF Told
  <1>9. \A k \in 1..Len(stack') :
          \/ k \in 1..Len(stack) - 1 /\ k \in 1..Len(stack) /\ stack'[k] = stack[k]
          \/ k = Len(stack) /\ stack'[k] = c
          \/ stack'[k].at = "start"
    BY <1>2, <1>6, <1>7
  <1>10. /\ host # "closed" /\ ClosingSent => ClosingSent'
         /\ host # "closed" /\ Top.reply \in Closing => ClosingSent'
    <2> SUFFICES ASSUME host # "closed"
                 PROVE  (ClosingSent => ClosingSent') /\ (Top.reply \in Closing => ClosingSent')
      OBVIOUS
    <2> DEFINE r == [reply |-> Top.reply, part |-> part]
    <2>1. out' = Append(out, r) /\ r.reply = Top.reply /\ r \in Parts /\ out \in Seq(Parts)
      BY <1>1, <1>2, <1>5 DEF Out, ChannelsOK, Parts, Calls
    <2> HIDE DEF r
    <2>2. /\ Len(out') = Len(out) + 1 /\ out'[Len(out) + 1] = r /\ Len(out) \in Nat
          /\ \A k \in 1..Len(out) : out'[k] = out[k] /\ k \in 1..Len(out')
      BY <2>1
    <2> QED
      BY <2>1, <2>2 DEF ClosingSent
  <1>11. TellsEnd'
    BY <1>8, <1>9 DEF SessionInv, TellsEnd, Told, Sends
  <1>12. ClearsTold'
    <2> SUFFICES ASSUME host # "closed", NEW k \in 1..Len(stack'), stack'[k].at \in Clearing
                 PROVE  ClosingSent'
      BY <1>4 DEF ClearsTold
    <2>1. CASE k \in 1..Len(stack) - 1 /\ k \in 1..Len(stack) /\ stack'[k] = stack[k]
      BY <1>10, <2>1 DEF SessionInv, ClearsTold
    <2>2. CASE k = Len(stack) /\ stack'[k] = c
      <3>1. Top.next \in Clearing
        BY <1>3, <1>7, <2>2 DEF Clearing
      <3>2. Top.reply = COM_END
        BY <1>1, <1>2, <3>1 DEF SessionInv, TellsEnd, Told
      <3> QED
        BY <1>10, <3>2 DEF Closing
    <2> QED
      BY <1>9, <2>1, <2>2 DEF Clearing
  <1>13. ClosingComing => ClosingComing' \/ host = "closed"
    <2> SUFFICES ASSUME host # "closed", ClosingComing PROVE ClosingComing'
      OBVIOUS
    <2>1. CASE ClosingSent
      BY <1>10, <2>1 DEF ClosingComing
    <2>2. ASSUME NEW k \in 1..Len(stack), Closes(stack[k]) PROVE ClosingComing'
      <3>1. CASE k = Len(stack)
        <4>1. Top.reply \in Closing
          BY <1>2, <2>2, <3>1 DEF Closes
        <4> QED
          BY <1>10, <4>1 DEF ClosingComing
      <3>2. CASE k # Len(stack)
        <4>1. k \in 1..Len(stack) - 1 /\ stack'[k] = stack[k] /\ k \in 1..Len(stack')
          BY <1>2, <1>6, <3>2
        <4> QED
          BY <2>2, <4>1 DEF ClosingComing, Closes
      <3> QED
        BY <3>1, <3>2
    <2> QED
      BY <2>1, <2>2 DEF ClosingComing
  <1>14. ~OnlyAsked
    BY <1>1, <1>2 DEF OnlyAsked
  <1> QED
    BY <1>4, <1>11, <1>12, <1>13, <1>14, SessionKept
-----------------------------------------------------------------------------
\* A reply to a command, or a call that goes on without one.
LEMMA RepliesSession ==
  ASSUME CommInv, SessionInv, stack # <<>>, Top.at \in {"loop", "confirm"}, NEW left \in Nat,
         NEW reply \in Byte, NEW next \in Nexts, Become(Now("send_id", left, reply, next)),
         next \in Clearing => reply = COM_END,
         UNCHANGED <<host, unsent, link, out>>,
         FLAG_COM' \/ reply \in Closing,
         FLAG_COM /\ ~FLAG_COM' => reply \in Closing
  PROVE  SessionInv'
  <1>1. Top.at \notin Sends /\ "send_id" \in Places \ Clearing /\ "send_id" \in Sends
    BY DEF Sends, Places, Clearing
  <1>2. /\ TellsEnd' /\ ClearsTold' /\ (ClosingComing => ClosingComing')
        /\ reply \in Closing => ClosingComing'
    BY <1>1, GoesTold
  <1>3. ~Calm'
    BY <1>2 DEF Calm
  <1> QED
    BY <1>2, <1>3, SessionKept

\* The commands.
LEMMA ExecSession ==
  ASSUME CommInv, SessionInv, Exec
  PROVE  SessionInv'
  <1>1. VariablesOK /\ StackOK /\ Taken
    BY DEF CommInv, Exec, ExecVersion, ExecRefused, ExecInit, ExecEnd, ExecGet, ExecSetFram, ExecSetKey, ExecUnknown, ExecReset
  <1>2. stack # <<>> /\ Top.at = "loop" /\ Top \in Calls /\ Top.at \notin Sends
    BY <1>1, TopCall DEF Taken, At, Sends
  <1>3. UNCHANGED <<host, unsent, link, out, id>>
    BY <1>1 DEF Taken, hostVars
  <1> DEFINE left == Top.left - Available
  <1>4. left \in Nat
    <2>1. Available \in Nat /\ Available <= Top.left
      BY <1>1, GivenData DEF Taken
    <2> QED
      BY <1>2, <2>1 DEF Calls
  <1>5. \A reply, next : Answer(reply, next) = Become(Now("send_id", left, reply, next))
    BY DEF Answer
  <1>6. \A place : Rest(place) = Now(place, left, Top.reply, Top.next)
    BY DEF Rest
  <1> HIDE DEF left
  <1>7. /\ {"after", "init_aborted", "unknown_aborted", "reset"} \subseteq Nexts
        /\ {"after", "reset"} \cap Clearing = {} /\ COM_END \in Closing /\ COM_ERR_NOT_INIT \in Closing
    BY DEF Nexts, Clearing, Closing
  <1>8. ASSUME NEW reply \in Byte, NEW next \in Nexts, Answer(reply, next), next \in Clearing => reply = COM_END,
               FLAG_COM' \/ reply \in Closing, FLAG_COM /\ ~FLAG_COM' => reply \in Closing
        PROVE  SessionInv'
    <2>1. Become(Now("send_id", left, reply, next))
      BY <1>5, <1>8
    <2> QED
      BY <1>2, <1>3, <1>4, <1>8, <2>1, RepliesSession
  <1>9. ASSUME NEW place \in {"after", "confirm"}, Become(Rest(place)), FLAG_COM' = FLAG_COM,
               OnlyAsked => com_state' = "ID" \/ id \in InitBytes
        PROVE  SessionInv'
    <2>1. Become(Now(place, left, Top.reply, Top.next)) /\ place \in Places \ (Clearing \cup Sends)
      BY <1>6, <1>9 DEF Places, Clearing, Sends
    <2>2. TellsEnd' /\ ClearsTold' /\ (ClosingComing => ClosingComing')
      BY <1>2, <1>3, <1>4, <2>1, PlaceTold
    <2>3. OnlyAsked => OnlyAsked'
      BY <1>2, <1>3, <1>4, <1>9, <2>1, TopAsks, AskedGoes
    <2> QED
      BY <1>3, <1>9, <2>2, <2>3, SessionKept
  <1>10. OnlyAsked => id \in InitBytes
    BY <1>1, <1>2, TopAsks DEF Taken
  <1>11. CASE ExecVersion
    \* In answer to a request that is all that the wallet reads there is no version.
    <2>1. Become(Now("send_id", left, COM_VERSION, "after")) /\ FLAG_COM' = FLAG_COM
      BY <1>5, <1>11 DEF ExecVersion, session
    <2>2. "send_id" \in Places \ Clearing /\ COM_VERSION \in Byte /\ "after" \in Nexts /\ "after" \notin Clearing
      BY <1>7, Replies DEF Places, Clearing
    <2>3. TellsEnd' /\ ClearsTold' /\ (ClosingComing => ClosingComing')
      BY <1>2, <1>3, <1>4, <2>1, <2>2, GoesTold
    <2>4. ~OnlyAsked
      BY <1>10, <1>11 DEF ExecVersion, InitBytes, COM_INIT, COM_GET_VERSION
    <2> QED
      BY <1>3, <2>1, <2>3, <2>4, SessionKept
  <1>12. CASE ExecRefused
    BY <1>7, <1>8, <1>12, Replies DEF ExecRefused, session
  <1>13. CASE ExecInit
    <2>1. FLAG_COM' = FLAG_COM
      BY <1>13 DEF ExecInit, session
    <2>2. CASE FLAG_COM
      BY <1>7, <1>8, <1>13, <2>1, <2>2, Replies DEF ExecInit
    <2>3. CASE ~FLAG_COM
      <3>1. Become(Rest("confirm"))
        BY <1>13, <2>3 DEF ExecInit
      <3> QED
        BY <1>9, <1>10, <2>1, <3>1
    <2> QED
      BY <2>2, <2>3
  <1>14. CASE ExecEnd
    BY <1>7, <1>8, <1>14, Replies DEF ExecEnd
  <1>15. CASE ExecGet
    <2>1. \E reply \in Byte : Answer(reply, "after")
      BY <1>15, Replies DEF ExecGet
    <2>2. FLAG_COM /\ FLAG_COM' = FLAG_COM
      BY <1>15 DEF ExecGet, session
    <2> QED
      BY <1>7, <1>8, <2>1, <2>2
  <1>16. CASE ExecSetFram \/ ExecSetKey
    <2>1. (\E reply \in Byte : Answer(reply, "after")) \/ Become(Rest("after"))
      BY <1>16, Replies DEF ExecSetFram, ExecSetKey
    <2>2. FLAG_COM /\ FLAG_COM' = FLAG_COM
      BY <1>16 DEF ExecSetFram, ExecSetKey
    <2> QED
      BY <1>7, <1>8, <1>9, <1>10, <2>1, <2>2
  <1>17. CASE ExecUnknown
    BY <1>7, <1>8, <1>17, Replies DEF ExecUnknown, session
  <1>18. CASE ExecReset
    <2>1. Answer(COM_OK, "reset") /\ FLAG_COM /\ FLAG_COM' = FLAG_COM
      BY <1>18 DEF ExecReset, session
    <2> QED
      BY <1>7, <1>8, <2>1, Replies
  <1> QED
    BY <1>11, <1>12, <1>13, <1>14, <1>15, <1>16, <1>17, <1>18 DEF Exec

\* The user's answer.
LEMMA ConfirmSession ==
  ASSUME CommInv, SessionInv, ConfirmYes \/ ConfirmNo
  PROVE  SessionInv'
  <1>1. stack # <<>> /\ Top.at = "confirm" /\ Top \in Calls
    BY TopCall DEF CommInv, ConfirmYes, ConfirmNo, At
  <1> DEFINE left == Top.left
  <1>2. left \in Nat /\ UNCHANGED <<host, unsent, link, out>>
    BY <1>1 DEF Calls, ConfirmYes, ConfirmNo, hostVars
  <1>3. /\ "after" \in Nexts /\ "after" \notin Clearing /\ COM_OK \in Byte /\ COM_END \in Byte /\ COM_END \in Closing
    BY Replies DEF Nexts, Clearing, Closing
  <1>4. CASE ConfirmYes
    <2>1. Become(Now("send_id", left, COM_OK, "after")) /\ FLAG_COM'
      BY <1>4 DEF ConfirmYes, Send
    <2> HIDE DEF left
    <2> QED
      BY <1>1, <1>2, <1>3, <2>1, RepliesSession
  <1>5. CASE ConfirmNo
    <2>1. Become(Now("send_id", left, COM_END, "after"))
      BY <1>5 DEF ConfirmNo, Send
    <2> HIDE DEF left
    <2> QED
      BY <1>1, <1>2, <1>3, <2>1, RepliesSession
  <1> QED
    BY <1>4, <1>5
\* The wallet starts afresh.
LEMMA ResetSession ==
  ASSUME Reset
  PROVE  SessionInv'
  <1>1. host' = "closed" /\ stack' = <<>> /\ Len(<<>>) = 0
    BY DEF Reset
  <1> QED
    BY <1>1 DEF SessionInv, TellsEnd, ClearsTold, OpenOrTold, Quiet, Calm

\* The host comes back when the wallet waits for nothing, or for its user: no
\* older packet is on its way.
LEMMA ConnectSession ==
  ASSUME CommInv, SessionInv, Connect, MaxDepth <= 2
  PROVE  SessionInv'
  <1>1. /\ host' = "opening" /\ unsent' = Init_ /\ out' = <<>> /\ link' = <<>> /\ timeout'
        /\ stack' = stack /\ FLAG_COM' = FLAG_COM /\ Len(<<>>) = 0
    BY DEF Connect, session
  <1>2. \A k \in 1..Len(stack) : k = 1 /\ stack[k].at = "confirm"
    <2>1. stack = <<>> \/ (Len(stack) = 1 /\ stack[1].at = "confirm")
      <3>1. CASE stack = <<>>
        BY <3>1
      <3>2. CASE At("confirm")
        <4>1. Len(stack) \in Nat /\ Len(stack) > 0
          BY <3>2, TopCall DEF At, CommInv
        <4>2. Len(stack) < MaxDepth /\ MaxDepth \in Nat /\ MaxDepth <= 2
          BY Numbers DEF Connect
        <4> DEFINE d == Len(stack)
        <4>3. d \in Nat /\ d > 0 /\ d < MaxDepth /\ MaxDepth \in Nat /\ MaxDepth <= 2
          BY <4>1, <4>2
        <4> HIDE DEF d
        <4>4. d = 1
          BY <4>3
        <4> QED
          BY <3>2, <4>4 DEF At, Top, d
      <3> QED
        BY <3>1, <3>2 DEF Connect
    <2> SUFFICES ASSUME NEW k \in 1..Len(stack) PROVE k = 1 /\ stack[k].at = "confirm"
      OBVIOUS
    <2>2. stack # <<>>
      BY Len(<<>>) = 0
    <2> DEFINE d == Len(stack)
    <2>3. d = 1 /\ k \in 1..d
      BY <2>1, <2>2
    <2> HIDE DEF d
    <2>4. k = 1
      BY <2>3
    <2> QED
      BY <2>1, <2>2, <2>4
  <1>3. TellsEnd' /\ ClearsTold' /\ OpenOrTold'
    BY <1>1, <1>2 DEF TellsEnd, ClearsTold, OpenOrTold, Told, Sends, Clearing
  <1>4. OnlyAsked'
    <2>1. Init_ \in Seq(InitBytes) /\ <<>> \in Seq(Seq(InitBytes))
      BY Request
    <2>2. \A k \in 1..Len(stack') : stack'[k].at \notin Sends /\ Asks(k)' /\ stack'[k].at \in {"start", "confirm"}
      BY <1>1, <1>2 DEF Sends, Asks
    <2> QED
      BY <1>1, <2>1, <2>2 DEF OnlyAsked
  <1> QED
    BY <1>3, <1>4 DEF SessionInv, Quiet

\* What the host reads and sends.
LEMMA HostSession ==
  ASSUME CommInv, SessionInv, Command \/ Deliver \/ ReadReply \/ GiveUp \/ Expire
  PROVE  SessionInv'
  <1>1. stack' = stack /\ FLAG_COM' = FLAG_COM /\ com_state' = com_state /\ id' = id
    BY DEF Command, Deliver, ReadReply, GiveUp, Expire, parser, session
  <1>2. TellsEnd'
    BY <1>1 DEF SessionInv, TellsEnd
  <1>3. CASE host' = "closed"
    BY <1>2, <1>3 DEF SessionInv, ClearsTold, OpenOrTold, Quiet, Calm
  <1>4. CASE Command
    <2>1. host = "open" /\ host' = "busy" /\ out' = out
      BY <1>4 DEF Command
    <2>2. ClosingComing' = ClosingComing /\ ClosingSent' = ClosingSent
      BY <1>1, <2>1 DEF ClosingComing, ClosingSent
    <2> QED
      BY <1>1, <1>2, <2>1, <2>2 DEF SessionInv, ClearsTold, OpenOrTold, Quiet, Calm
  <1>5. CASE Deliver \/ Expire
    <2>1. host' = host /\ out' = out
      BY <1>5 DEF Deliver, Expire, hostVars
    <2>2. ClosingComing' = ClosingComing /\ ClosingSent' = ClosingSent
      BY <1>1, <2>1 DEF ClosingComing, ClosingSent
    <2>3. ClearsTold'
      BY <1>1, <2>1, <2>2 DEF SessionInv, ClearsTold
    <2>4. OnlyAsked => OnlyAsked'
      <3> SUFFICES ASSUME OnlyAsked PROVE OnlyAsked'
        OBVIOUS
      <3>1. unsent' \in Seq(InitBytes) /\ link' \in Seq(Seq(InitBytes))
        <4>1. CASE Expire
          BY <4>1 DEF Expire, hostVars, OnlyAsked
        <4>2. CASE Deliver
          <5> DEFINE n == IF Len(unsent) < CDC_TXRX_EPSIZE THEN Len(unsent) ELSE CDC_TXRX_EPSIZE
          <5>1. unsent \in Seq(InitBytes) /\ link \in Seq(Seq(InitBytes))
            BY DEF OnlyAsked
          <5>2. n \in Nat /\ n >= 1 /\ n <= Len(unsent) /\ Len(unsent) \in Nat
            BY <4>2, <5>1, Numbers DEF Deliver
          <5>3. link' = Append(link, SubSeq(unsent, 1, n)) /\ unsent' = SubSeq(unsent, n + 1, Len(unsent))
            BY <4>2 DEF Deliver
          <5> HIDE DEF n
          <5>4. SubSeq(unsent, 1, n) \in Seq(InitBytes) /\ SubSeq(unsent, n + 1, Len(unsent)) \in Seq(InitBytes)
            BY <5>1, <5>2, Part
          <5> QED
            BY <5>1, <5>3, <5>4
        <4> QED
          BY <1>5, <4>1, <4>2
      <3>2. timeout => timeout'
        BY <1>5 DEF Deliver, Expire
      <3> QED
        BY <1>1, <2>1, <3>1, <3>2 DEF OnlyAsked, Asks
    <2> QED
      BY <1>1, <1>2, <2>1, <2>2, <2>3, <2>4, SessionKept
  <1>6. CASE ReadReply /\ host' # "closed"
    <2>1. /\ host # "closed" /\ host' = "open" /\ Whole(1) /\ out[1].reply \notin Closing
          /\ out' = SubSeq(out, 3, Len(out))
      BY <1>6 DEF ReadReply, Closing
    <2>2. out \in Seq(Parts) /\ Len(out) \in Nat /\ Len(out) > 1 /\ out # <<>> /\ out[2].reply \notin Closing
      BY <2>1 DEF Whole, CommInv, ChannelsOK
    <2>3. ClosingSent => ClosingSent'
      <3> SUFFICES ASSUME NEW k \in 1..Len(out), out[k].reply \in Closing PROVE ClosingSent'
        BY DEF ClosingSent
      <3>1. k >= 3 /\ k - 2 \in 1..Len(out')
        <4>1. k # 1 /\ k # 2
          BY <2>1, <2>2
        <4>2. 3 <= Len(out) /\ k >= 3
          BY <2>2, <4>1
        <4>3. Len(SubSeq(out, 3, Len(out))) = Len(out) - 3 + 1
          BY <2>2, <4>2, Part, 3 \in Nat, 1 <= 3
        <4>4. Len(out') = Len(out) - 2
          BY <2>1, <2>2, <4>3
        <4> QED
          BY <2>2, <4>2, <4>4
      <3>2. \A j \in 1..Len(SubSeq(out, 3, Len(out))) : SubSeq(out, 3, Len(out))[j] = out[3 + j - 1]
        BY <2>2, Part, 3 \in Nat, 1 <= 3
      <3>3. out'[k - 2] = out[3 + (k - 2) - 1] /\ 3 + (k - 2) - 1 = k
        BY <2>1, <3>1, <3>2
      <3> QED
        BY <3>1, <3>3 DEF ClosingSent
    <2>4. ClosingComing => ClosingComing'
      BY <1>1, <2>3 DEF ClosingComing
    <2>5. ClearsTold'
      BY <1>1, <2>1, <2>3 DEF SessionInv, ClearsTold
    <2>6. host = "opening" \/ host \in {"open", "busy"}
      BY <2>1 DEF CommInv, VariablesOK
    <2>7. ~FLAG_COM => ClosingComing
      BY <2>2, <2>6 DEF SessionInv, OpenOrTold, Quiet, Calm, OnlyAsked
    <2>8. OpenOrTold' /\ Quiet'
      BY <1>1, <2>1, <2>4, <2>7 DEF OpenOrTold, Quiet, Calm
    <2> QED
      BY <1>2, <2>5, <2>8 DEF SessionInv
  <1> QED
    BY <1>3, <1>4, <1>5, <1>6 DEF GiveUp

\* A host that believes its session open is right once nothing is on its way:
\* every clearing of EVENT_FLAG_COM follows a reply that says so (com_abort,
\* command_end), whatever the packets' sizes and whatever the timer does.  The
\* host comes back only while at most one confirmation waits: with more, COM_OK
\* may answer an older request.
THEOREM SessionInvariant ==
  ASSUME MaxDepth <= 2
  PROVE  Spec => []SessionInv
  <1>1. Init => SessionInv
    <2> SUFFICES ASSUME Init PROVE SessionInv
      OBVIOUS
    <2>1. host = "closed" /\ stack = <<>> /\ Len(<<>>) = 0
      BY DEF Init
    <2> QED
      BY <2>1 DEF SessionInv, TellsEnd, ClearsTold, OpenOrTold, Quiet, Calm
  <1>2. CommInv /\ SessionInv /\ [Next]_vars => SessionInv'
    <2> SUFFICES ASSUME CommInv, SessionInv, [Next]_vars PROVE SessionInv'
      OBVIOUS
    <2>1. CASE Poll
      BY <2>1, PollSession
    <2>2. CASE SendId \/ SendRest
      BY <2>2, SendSession
    <2>3. CASE Start
      BY <2>3, StartSession
    <2>4. CASE Aborted \/ InitAborted \/ UnknownAborted
      BY <2>4, AbortSession
    <2>5. CASE ReadId \/ ReadSize
      BY <2>5, HeaderSession
    <2>6. CASE SizeMissing \/ After
      <3>1. /\ stack # <<>> /\ Top.at \in {"loop", "after"} /\ Top.at \notin Sends
            /\ UNCHANGED <<host, unsent, link, out, FLAG_COM, com_state, id, timeout>>
        BY <2>6 DEF SizeMissing, After, At, Sends, hostVars, parser, session
      <3>2. CASE Return
        BY <3>1, <3>2, ReturnSession
      <3>3. CASE ~Return
        <4>1. Goto("loop") /\ "loop" \in Places \ (Clearing \cup Sends) /\ Top.at = "after"
          BY <2>6, <3>3 DEF SizeMissing, After, At, Places, Clearing, Sends
        <4> QED
          BY <3>1, <4>1, LoopSession
      <3> QED
        BY <3>2, <3>3
    <2>7. CASE Exec
      BY <2>7, ExecSession
    <2>8. CASE ConfirmYes \/ ConfirmNo
      BY <2>8, ConfirmSession
    <2>9. CASE Reset
      BY <2>9, ResetSession
    <2>10. CASE Connect
      BY <2>10, ConnectSession
    <2>11. CASE Command \/ Deliver \/ ReadReply \/ GiveUp \/ Expire
      BY <2>11, HostSession
    <2>12. CASE UNCHANGED vars
      <3>1. UNCHANGED <<host, unsent, link, out, FLAG_COM, com_state, id, timeout, stack>>
        BY <2>12 DEF vars, hostVars, parser, session
      <3> QED
        BY <3>1 DEF SessionInv, TellsEnd, ClearsTold, OpenOrTold, Quiet, Calm, OnlyAsked, Asks,
                    ClosingComing, ClosingSent
    <2> QED
      BY <2>1, <2>2, <2>3, <2>4, <2>5, <2>6, <2>7, <2>8, <2>9, <2>10, <2>11, <2>12 DEF Next, Device, User, Host
  <1> QED
    BY <1>1, <1>2, CommInvariant, PTL DEF Spec

\* SessionAgreed, for any packets, headers and commands.
THEOREM SessionsAgree ==
  ASSUME MaxDepth <= 2
  PROVE  Spec => []SessionAgreed
  <1>1. SessionInv => SessionAgreed
    <2> SUFFICES ASSUME SessionInv, stack = <<>>, out = <<>>, host \in {"open", "busy"} PROVE FLAG_COM
      BY DEF SessionAgreed
    <2>1. ~ClosingComing
      BY Len(<<>>) = 0 DEF ClosingComing, ClosingSent
    <2> QED
      BY <2>1 DEF SessionInv, OpenOrTold
  <1> QED
    BY <1>1, SessionInvariant, PTL
-----------------------------------------------------------------------------
\* What the running call reads while the host waits for its session.
LEMMA TopRequested ==
  ASSUME CommInv, Requested, stack # <<>>, host = "opening"
  PROVE  /\ Top.data \in Seq(InitBytes)
         /\ ~Early(Top) => com_state = "ID" \/ id \in InitBytes
  <1>1. Len(stack) \in 1..Len(stack) /\ Top = stack[Len(stack)]
    BY TopCall DEF CommInv, Top
  <1> QED
    BY <1>1 DEF Requested

\* The running call goes on.
LEMMA RequestedOnward ==
  ASSUME CommInv, Requested, stack # <<>>, NEW c \in Calls, Become(c), UNCHANGED <<host, unsent, link>>,
         host = "opening" =>
           /\ c.data \in Seq(InitBytes)
           /\ com_state' = "ID" \/ id' \in InitBytes
              \/ (timeout' /\ Early(c) /\ \A k \in 1..Len(stack) : Early(stack[k]))
  PROVE  Requested'
  <1>1. /\ Len(stack) \in Nat /\ Len(stack) > 0 /\ Len(stack') = Len(stack) /\ stack'[Len(stack)] = c
        /\ \A k \in 1..Len(stack) - 1 : stack'[k] = stack[k]
    <2>1. stack \in Seq(Calls) /\ Len(stack) \in Nat /\ Len(stack) > 0
      BY TopCall DEF CommInv, StackOK
    <2> QED
      BY <2>1, LastReplaced DEF Become
  <1>2. \A k \in 1..Len(stack') : (k \in 1..Len(stack) /\ stack'[k] = stack[k]) \/ stack'[k] = c
    BY <1>1
  <1> SUFFICES ASSUME host = "opening"
               PROVE  /\ unsent' \in Seq(InitBytes) /\ link' \in Seq(Seq(InitBytes))
                      /\ \A k \in 1..Len(stack') : stack'[k].data \in Seq(InitBytes)
                      /\ com_state' = "ID" \/ id' \in InitBytes
                         \/ (timeout' /\ \A k \in 1..Len(stack') : Early(stack'[k]))
    BY DEF Requested, Early
  <1>3. \A k \in 1..Len(stack') : stack'[k].data \in Seq(InitBytes)
    BY <1>2 DEF Requested
  <1>4. (\A k \in 1..Len(stack) : Early(stack[k])) /\ Early(c) => \A k \in 1..Len(stack') : Early(stack'[k])
    BY <1>2 DEF Early
  <1> QED
    BY <1>3, <1>4 DEF Requested

\* ... to another place, and picks nothing but the data of its command.
LEMMA RequestedGoes ==
  ASSUME CommInv, Requested, stack # <<>>, ~Early(Top),
         NEW place \in Places, NEW left \in Nat, NEW reply \in Byte, NEW next \in Nexts,
         Become(Now(place, left, reply, next)), UNCHANGED <<host, unsent, link, id>>,
         com_state' = "ID" \/ com_state' = com_state
  PROVE  Requested'
  <1> DEFINE c == Now(place, left, reply, next)
  <1>1. c \in Calls /\ c.data = Top.data /\ Become(c)
    BY TopCall DEF CommInv, Calls, Now
  <1> HIDE DEF c
  <1>2. host = "opening" =>
          Top.data \in Seq(InitBytes) /\ (com_state = "ID" \/ id \in InitBytes)
    BY TopRequested
  <1> QED
    BY <1>1, <1>2, RequestedOnward

\* The start of a call.
LEMMA StartRequested ==
  ASSUME CommInv, Requested, Start
  PROVE  Requested'
  <1>1. stack # <<>> /\ Top.at = "start" /\ StackOK
    BY DEF Start, At, CommInv
  <1>2. Top \in Calls
    BY <1>1, TopCall
  <1>3. UNCHANGED <<host, unsent, link, com_state, id>>
    BY DEF Start, hostVars, parser
  <1>4. PICK c \in Calls :
          /\ Become(c) /\ c.data = Top.data
          /\ \/ timeout' = timeout /\ Early(c)
             \/ com_state = "ID" \/ ~timeout
    <2>1. CASE timeout /\ com_state # "ID"
      <3> DEFINE c == Now("send_id", Top.left, COM_END, "aborted")
      <3>1. Become(c) /\ timeout' = timeout
        BY <2>1 DEF Start, Send
      <3>2. c \in Calls /\ c.data = Top.data /\ Early(c)
        BY <1>2, Replies DEF Calls, Now, Places, Nexts, Early, Sends
      <3> QED
        BY <3>1, <3>2
    <2>2. CASE ~(timeout /\ com_state # "ID")
      <3> DEFINE c == Now("loop", Top.left, Top.reply, Top.next)
      <3>1. Become(c)
        BY <1>1, <2>2, CallChanged DEF Start, Goto
      <3>2. c \in Calls /\ c.data = Top.data
        BY <1>2 DEF Calls, Now, Places
      <3> QED
        BY <2>2, <3>1, <3>2
    <2> QED
      BY <2>1, <2>2
  <1>5. host = "opening" =>
          /\ Top.data \in Seq(InitBytes)
          /\ com_state = "ID" \/ id \in InitBytes \/ (timeout /\ \A k \in 1..Len(stack) : Early(stack[k]))
    BY <1>1, TopRequested DEF Requested
  <1> QED
    BY <1>1, <1>3, <1>4, <1>5, RequestedOnward

\* A byte of the header.
LEMMA HeaderRequested ==
  ASSUME CommInv, Requested, ReadId \/ ReadSize
  PROVE  Requested'
  <1>1. stack # <<>> /\ Top.at = "loop" /\ StackOK /\ LoopOK /\ Picked
    BY DEF ReadId, ReadSize, At, CommInv
  <1>2. Top \in Calls /\ Top.left <= Len(Top.data)
    BY <1>1, TopCall
  <1>3. Top.left > 0 /\ Top.left \in Nat /\ Top.data \in Seq(Byte) /\ Top.data # <<>>
    <2>1. Top.left > 0
      BY <1>1 DEF ReadId, ReadSize, LoopOK
    <2> QED
      BY <1>2, <2>1 DEF Calls
  <1>4. UNCHANGED <<host, unsent, link>>
    BY DEF ReadId, ReadSize, hostVars
  <1> DEFINE c == [at |-> "loop", data |-> Tail(Top.data), left |-> Top.left - 1, reply |-> Top.reply, next |-> Top.next]
  <1>5. Become(c)
    BY <1>1 DEF Picked
  <1>6. c \in Calls /\ c.data = Tail(Top.data)
    BY <1>2, <1>3, FirstRemoved DEF Calls, Places
  <1> HIDE DEF c
  <1>7. ASSUME host = "opening"
        PROVE  c.data \in Seq(InitBytes) /\ (com_state' = "ID" \/ id' \in InitBytes)
    <2>1. Top.data \in Seq(InitBytes) /\ (com_state = "ID" \/ id \in InitBytes)
      BY <1>1, <1>7, TopRequested DEF Early, Sends
    <2>2. Head(Top.data) \in InitBytes /\ c.data \in Seq(InitBytes)
      BY <1>3, <1>6, <2>1, FirstRemoved
    <2> QED
      BY <2>1, <2>2 DEF ReadId, ReadSize
  <1> QED
    BY <1>1, <1>4, <1>5, <1>6, <1>7, RequestedOnward

\* The return of com_abort, and of a call.
LEMMA AfterRequested ==
  ASSUME CommInv, Requested, Aborted \/ InitAborted \/ UnknownAborted \/ SizeMissing \/ After
  PROVE  Requested'
  <1>1. stack # <<>> /\ StackOK /\ UNCHANGED <<host, unsent, link>>
    BY DEF Aborted, InitAborted, UnknownAborted, SizeMissing, After, At, CommInv, hostVars
  <1>2. Top \in Calls /\ Len(stack) \in Nat /\ Len(stack) > 0
    BY <1>1, TopCall
  <1>3. ASSUME NEW place \in Places, Goto(place),
               com_state' = "ID" \/ (~Early(Top) /\ UNCHANGED <<id, com_state>>)
        PROVE  Requested'
    <2> DEFINE c == Now(place, Top.left, Top.reply, Top.next)
    <2>1. Become(c)
      BY <1>1, <1>3, CallChanged DEF Goto
    <2>2. c \in Calls /\ c.data = Top.data
      BY <1>2 DEF Calls, Now
    <2> HIDE DEF c
    <2>3. host = "opening" => Top.data \in Seq(InitBytes) /\ (com_state' = "ID" \/ id' \in InitBytes)
      BY <1>1, <1>3, TopRequested
    <2> QED
      BY <1>1, <2>1, <2>2, <2>3, RequestedOnward
  <1>4. ASSUME Return, ~Early(Top), UNCHANGED <<id, com_state, timeout>>
        PROVE  Requested'
    <2>1. Len(stack') = Len(stack) - 1 /\ \A k \in 1..Len(stack') : stack'[k] = stack[k]
      BY <1>1, <1>4, ReturnKeeps
    <2>2. \A k \in 1..Len(stack') : k \in 1..Len(stack)
      BY <1>2, <2>1
    <2>3. Len(stack) \in 1..Len(stack) /\ ~Early(stack[Len(stack)])
      BY <1>2, <1>4 DEF Top
    <2>4. host = "opening" => com_state = "ID" \/ id \in InitBytes
      BY <1>1, <1>4, TopRequested
    <2> QED
      BY <1>1, <1>4, <2>1, <2>2, <2>4 DEF Requested
  <1>5. CASE Aborted
    BY <1>3, <1>5 DEF Aborted, Places
  <1>6. CASE InitAborted \/ UnknownAborted
    BY <1>3, <1>6 DEF InitAborted, UnknownAborted, Places, Early, Sends, At, parser
  <1>7. CASE SizeMissing \/ After
    BY <1>3, <1>4, <1>7 DEF SizeMissing, After, Places, Early, Sends, At, parser
  <1> QED
    BY <1>5, <1>6, <1>7
\* CDC_Task takes a packet, from a loop or after a send.
LEMMA TakeRequested ==
  ASSUME CommInv, Requested, Poll \/ SendId \/ SendRest
  PROVE  Requested'
  <1>1. VariablesOK /\ ChannelsOK /\ StackOK
    BY DEF CommInv
  <1>2. UNCHANGED <<host, unsent, com_state, id, timeout>>
    BY DEF Poll, SendId, SendRest, hostVars, parser
  <1>3. link # <<>> => Call(Head(link)).data = Head(link) /\ Call(Head(link)).at = "start"
    BY DEF Call
  <1>4. host = "opening" /\ link # <<>> => Head(link) \in Seq(InitBytes) /\ Tail(link) \in Seq(Seq(InitBytes))
    BY FirstRemoved DEF Requested
  <1>5. (link' = link \/ (link # <<>> /\ link' = Tail(link)))
        /\ \A k \in 1..Len(stack') :
             \/ k \in 1..Len(stack) /\ stack'[k].data = stack[k].data /\ (Early(stack[k]) => Early(stack'[k]))
             \/ link # <<>> /\ stack'[k] = Call(Head(link))
    <2>1. CASE Poll
      <3> DEFINE p == Head(link)
      <3>1. /\ link # <<>> /\ link' = Tail(link) /\ p \in Seq(Byte) \ {<<>>}
            /\ stack = <<>> \/ Top.at \notin {"start", "loop"}
            /\ stack' = Append(stack, Call(p))
        BY <1>1, <2>1, TakeKeeps DEF Poll, Take, At
      <3>2. p = Head(link)
        OBVIOUS
      <3> HIDE DEF p
      <3>3. /\ Len(stack') = Len(stack) + 1 /\ Top' = Call(p) /\ stack' # <<>> /\ Len(stack) \in Nat
            /\ \A k \in 1..Len(stack) : stack'[k] = stack[k]
        BY <1>1, <3>1, CallKeeps DEF StackOK
      <3> QED
        BY <3>1, <3>2, <3>3 DEF Top
    <2>2. CASE SendId \/ SendRest
      <3>1. stack # <<>> /\ Top.at \in Sends /\ Top \in Calls
        BY <1>1, <2>2, TopCall DEF SendId, SendRest, At, Sends
      <3>2. PICK place \in {"send_rest"} \cup Nexts :
              /\ Sent(place) /\ (place = "aborted" => Top.next = "aborted")
              /\ place = "send_rest" \/ place = Top.next
        BY <2>2, <3>1 DEF SendId, SendRest, Calls
      <3> DEFINE c == Now(place, Top.left, Top.reply, Top.next)
      <3>3. /\ Len(stack) \in Nat /\ Len(stack) > 0
            /\ \A k \in 1..Len(stack) - 1 : stack'[k] = stack[k]
            /\ stack'[Len(stack)] = c
            /\ \/ link' = link /\ Len(stack') = Len(stack)
               \/ link # <<>> /\ link' = Tail(link) /\ Len(stack') = Len(stack) + 1
                  /\ stack'[Len(stack) + 1] = Call(Head(link))
        BY <1>1, <3>1, <3>2, SentKeeps
      <3>4. c.data = Top.data /\ c.at = place /\ c.next = Top.next
        BY DEF Now
      <3> HIDE DEF c
      <3>5. Early(Top) => Early(c)
        BY <3>1, <3>2, <3>4 DEF Early, Sends
      <3>6. Top = stack[Len(stack)]
        BY DEF Top
      <3>7. \A k \in 1..Len(stack') :
              \/ k \in 1..Len(stack) - 1 /\ k \in 1..Len(stack)
              \/ k = Len(stack) /\ k \in 1..Len(stack)
              \/ k = Len(stack) + 1 /\ Len(stack') = Len(stack) + 1
        BY <3>3
      <3> QED
        BY <3>3, <3>4, <3>5, <3>6, <3>7
    <2> QED
      BY <2>1, <2>2
  <1> SUFFICES ASSUME host = "opening"
               PROVE  /\ unsent' \in Seq(InitBytes) /\ link' \in Seq(Seq(InitBytes))
                      /\ \A k \in 1..Len(stack') : stack'[k].data \in Seq(InitBytes)
                      /\ com_state' = "ID" \/ id' \in InitBytes
                         \/ (timeout' /\ \A k \in 1..Len(stack') : Early(stack'[k]))
    BY <1>2 DEF Requested, Early
  <1>6. link' \in Seq(Seq(InitBytes))
    BY <1>4, <1>5 DEF Requested
  <1>7. \A k \in 1..Len(stack') : stack'[k].data \in Seq(InitBytes)
    BY <1>3, <1>4, <1>5 DEF Requested
  <1>8. (\A k \in 1..Len(stack) : Early(stack[k])) => \A k \in 1..Len(stack') : Early(stack'[k])
    <2>1. link # <<>> => Early(Call(Head(link)))
      BY <1>3 DEF Early
    <2> QED
      BY <1>5, <2>1
  <1> QED
    BY <1>2, <1>6, <1>7, <1>8 DEF Requested

\* The commands, and the user's answer.
LEMMA CommandRequested ==
  ASSUME CommInv, Requested, Exec \/ ConfirmYes \/ ConfirmNo
  PROVE  Requested'
  <1>1. StackOK /\ stack # <<>> /\ Top.at \in {"loop", "confirm"}
    BY DEF CommInv, Exec, ExecVersion, ExecRefused, ExecInit, ExecEnd, ExecGet, ExecSetFram, ExecSetKey, ExecUnknown,
           ExecReset, Taken, ConfirmYes, ConfirmNo, At
  <1>2. Top \in Calls /\ ~Early(Top)
    BY <1>1, TopCall DEF Early, Sends
  <1>3. Top.left \in Nat /\ Top.reply \in Byte /\ Top.next \in Nexts
    BY <1>2 DEF Calls
  <1>4. /\ {"after", "init_aborted", "unknown_aborted", "reset"} \subseteq Nexts
        /\ {"send_id", "after", "confirm"} \subseteq Places
    BY DEF Nexts, Places
  <1>5. CASE Exec
    <2>1. Taken
      BY <1>5 DEF Exec, ExecVersion, ExecRefused, ExecInit, ExecEnd, ExecGet, ExecSetFram, ExecSetKey, ExecUnknown, ExecReset
    <2>2. UNCHANGED <<host, unsent, link, id>> /\ (com_state' = "ID" \/ com_state' = com_state)
      BY <2>1 DEF Taken, hostVars
    <2> DEFINE left == Top.left - Available
    <2>3. left \in Nat
      <3>1. Available \in Nat /\ Available <= Top.left
        BY <2>1, GivenData DEF Taken, CommInv
      <3> QED
        BY <1>3, <3>1
    <2>4. /\ \A reply, next : Answer(reply, next) = Become(Now("send_id", left, reply, next))
          /\ \A place : Rest(place) = Now(place, left, Top.reply, Top.next)
      BY DEF Answer, Rest
    <2> HIDE DEF left
    <2>5. \/ \E reply \in Byte, next \in Nexts : Become(Now("send_id", left, reply, next))
          \/ \E place \in {"confirm", "after"} : Become(Now(place, left, Top.reply, Top.next))
      <3>1. \/ \E reply \in Byte, next \in Nexts : Answer(reply, next)
            \/ \E place \in {"confirm", "after"} : Become(Rest(place))
        <4>1. CASE ExecVersion
          BY <1>4, <4>1, Replies DEF ExecVersion
        <4>2. CASE ExecRefused
          BY <1>4, <4>2, Replies DEF ExecRefused
        <4>3. CASE ExecInit
          BY <1>4, <4>3, Replies DEF ExecInit
        <4>4. CASE ExecEnd
          BY <1>4, <4>4, Replies DEF ExecEnd
        <4>5. CASE ExecGet
          <5>1. \E reply \in Byte : Answer(reply, "after")
            BY <4>5, Replies DEF ExecGet
          <5> QED
            BY <1>4, <5>1
        <4>6. CASE ExecSetFram
          BY <1>4, <4>6, Replies DEF ExecSetFram
        <4>7. CASE ExecSetKey
          <5>1. Answer(COM_OK, "after") \/ Answer(COM_BAD_KEY, "after") \/ Become(Rest("after"))
            BY <4>7 DEF ExecSetKey
          <5> QED
            BY <1>4, <5>1, Replies
        <4>8. CASE ExecUnknown
          BY <1>4, <4>8, Replies DEF ExecUnknown
        <4>9. CASE ExecReset
          BY <1>4, <4>9, Replies DEF ExecReset
        <4> QED
          BY <1>5, <4>1, <4>2, <4>3, <4>4, <4>5, <4>6, <4>7, <4>8, <4>9 DEF Exec
      <3> QED
        BY <2>4, <3>1
    <2>6. \A place \in Places, reply \in Byte, next \in Nexts : Become(Now(place, left, reply, next)) => Requested'
      BY <1>1, <1>2, <2>2, <2>3, RequestedGoes
    <2> QED
      BY <1>3, <1>4, <2>5, <2>6
  <1>6. CASE ConfirmYes \/ ConfirmNo
    <2> DEFINE left == Top.left
    <2>1. left \in Nat /\ UNCHANGED <<host, unsent, link, id, com_state>>
      BY <1>3, <1>6 DEF ConfirmYes, ConfirmNo, hostVars, parser
    <2>2. PICK reply \in Byte : Become(Now("send_id", left, reply, "after"))
      BY <1>6, Replies DEF ConfirmYes, ConfirmNo, Send
    <2> HIDE DEF left
    <2>3. "send_id" \in Places /\ "after" \in Nexts
      BY <1>4
    <2> QED
      BY <1>1, <1>2, <2>1, <2>2, <2>3, RequestedGoes
  <1> QED
    BY <1>5, <1>6

\* The host, the line and the timer; the host comes back to a wallet that waits
\* for nothing.
LEMMA HostRequested ==
  ASSUME CommInv, Requested, Host \/ Deliver \/ Expire, MaxDepth = 1
  PROVE  Requested'
  <1>1. CASE host' # "opening"
    BY <1>1 DEF Requested
  <1>2. CASE Connect
    <2> DEFINE d == Len(stack)
    <2>1. d < 1 /\ (stack # <<>> => d \in Nat /\ d > 0)
      BY <1>2, TopCall DEF Connect, CommInv
    <2>2. stack # <<>> => FALSE
      <3> HIDE DEF d
      <3> QED
        BY <2>1
    <2>3. stack' = <<>> /\ unsent' = Init_ /\ link' = <<>> /\ timeout'
      BY <1>2, <2>2 DEF Connect
    <2>4. Init_ \in Seq(InitBytes) /\ <<>> \in Seq(Seq(InitBytes)) /\ Len(<<>>) = 0
      BY Request
    <2> QED
      BY <2>3, <2>4 DEF Requested
  <1>3. CASE Expire
    BY <1>3 DEF Expire, Requested, hostVars, parser
  <1>4. CASE Deliver
    <2>1. UNCHANGED <<host, stack, com_state, id, timeout>>
      BY <1>4 DEF Deliver, parser
    <2>2. host = "opening" => unsent' \in Seq(InitBytes) /\ link' \in Seq(Seq(InitBytes))
      <3> SUFFICES ASSUME host = "opening" PROVE unsent' \in Seq(InitBytes) /\ link' \in Seq(Seq(InitBytes))
        OBVIOUS
      <3> DEFINE n == IF Len(unsent) < CDC_TXRX_EPSIZE THEN Len(unsent) ELSE CDC_TXRX_EPSIZE
      <3>1. unsent \in Seq(InitBytes) /\ link \in Seq(Seq(InitBytes))
        BY DEF Requested
      <3>2. n \in Nat /\ n >= 1 /\ n <= Len(unsent) /\ Len(unsent) \in Nat
        BY <1>4, <3>1, Numbers DEF Deliver
      <3>3. link' = Append(link, SubSeq(unsent, 1, n)) /\ unsent' = SubSeq(unsent, n + 1, Len(unsent))
        BY <1>4 DEF Deliver
      <3> HIDE DEF n
      <3>4. SubSeq(unsent, 1, n) \in Seq(InitBytes) /\ SubSeq(unsent, n + 1, Len(unsent)) \in Seq(InitBytes)
        BY <3>1, <3>2, Part
      <3> QED
        BY <3>1, <3>3, <3>4
    <2> QED
      BY <2>1, <2>2 DEF Requested
  <1> QED
    BY <1>1, <1>2, <1>3, <1>4 DEF Host, Command, ReadReply, GiveUp
-----------------------------------------------------------------------------
\* Where a command's data ends.
LEMMA TakenEnds ==
  ASSUME CommInv, Taken
  PROVE  /\ com_state = "DATA" /\ UNCHANGED <<id, totalSize>>
         /\ Available \in Nat /\ com_bytes_processed \in Nat /\ totalSize \in Nat
         /\ com_bytes_processed' = com_bytes_processed + Available
         /\ com_state' = "DATA" \/ com_state' = "ID"
         /\ com_state' = "ID" <=> com_bytes_processed' = totalSize
  <1>1. VariablesOK /\ StackOK /\ At("loop") /\ com_state = "DATA"
    BY DEF CommInv, Taken
  <1>2. Missing \in Nat /\ Available \in Nat /\ Available <= Missing /\ Missing = totalSize - com_bytes_processed
        /\ (Top.left < Missing => Available = Top.left) /\ (~(Top.left < Missing) => Available = Missing)
    BY <1>1, GivenData DEF Missing
  <1>3. com_bytes_processed \in Nat /\ totalSize \in Nat
    BY <1>1 DEF VariablesOK
  <1>4. /\ com_bytes_processed' = com_bytes_processed + Available /\ UNCHANGED <<id, totalSize>>
        /\ com_state' = IF Top.left < Missing THEN "DATA" ELSE "ID"
    BY DEF Taken
  <1>5. Available = Missing <=> com_bytes_processed' = totalSize
    BY <1>2, <1>3, <1>4
  <1>6. Top.left < Missing <=> Available # Missing
    <2>1. Top.left \in Nat
      BY <1>1, TopCall DEF At, Calls
    <2> QED
      BY <1>2, <2>1
  <1>7. com_state' = "ID" <=> ~(Top.left < Missing)
    BY <1>4
  <1> QED
    BY <1>1, <1>2, <1>3, <1>4, <1>5, <1>6, <1>7

\* A command with a data part leaves its position where its bytes end, and clears
\* it with the last of them.
LEMMA PartedGathers ==
  ASSUME CommInv, Gathering, ExecSetFram \/ ExecSetKey
  PROVE  Gathering'
  <1>1. Taken /\ FLAG_COM /\ FLAG_COM' = FLAG_COM /\ id \in Parted
    BY DEF ExecSetFram, ExecSetKey, Parted
  <1>2. /\ com_state = "DATA" /\ UNCHANGED <<id, totalSize>>
        /\ Available \in Nat /\ com_bytes_processed \in Nat /\ totalSize \in Nat
        /\ com_bytes_processed' = com_bytes_processed + Available
        /\ com_state' = "DATA" \/ com_state' = "ID"
        /\ com_state' = "ID" <=> com_bytes_processed' = totalSize
    BY <1>1, TakenEnds
  <1>3. COM_POS = com_bytes_processed
    BY <1>1, <1>2 DEF Gathering
  <1>4. COM_POS' = IF com_state' = "ID" THEN 0 ELSE com_bytes_processed'
    BY <1>2, <1>3 DEF ExecSetFram, ExecSetKey
  <1>5. COM_PARAMETER' # 0 => id = COM_SET_FRAM /\ COM_POS' # 0
    <2>1. CASE ExecSetKey
      <3>1. COM_PARAMETER' = COM_PARAMETER /\ id = COM_SET_KEY
        BY <2>1 DEF ExecSetKey
      <3>2. COM_PARAMETER = 0
        BY <3>1 DEF Gathering, COM_SET_KEY, COM_SET_FRAM
      <3> QED
        BY <3>1, <3>2
    <2>2. CASE ExecSetFram
      <3> DEFINE lacking == IF COM_POS < ADDRESS_BYTES THEN ADDRESS_BYTES - COM_POS ELSE 0
      <3> DEFINE n == IF Available < lacking THEN Available ELSE lacking
      <3> DEFINE gathered(k) == IF k <= n THEN Shifted(Given[k], COM_POS + k - 1) ELSE 0
      <3> DEFINE parameter == COM_PARAMETER + gathered(1) + gathered(2) + gathered(3)
      <3>1. COM_PARAMETER' = IF COM_POS + Available = totalSize THEN 0 ELSE parameter
        BY <2>2 DEF ExecSetFram
      <3>2. id = COM_SET_FRAM
        BY <2>2 DEF ExecSetFram
      <3> SUFFICES ASSUME COM_PARAMETER' # 0, COM_POS' = 0 PROVE FALSE
        BY <3>2
      <3>3. com_state' # "ID" /\ COM_POS + Available # totalSize
        BY <1>2, <1>3, <3>1
      <3>4. COM_POS = 0 /\ Available = 0
        BY <1>2, <1>3, <1>4, <3>3
      <3>5. COM_PARAMETER = 0
        BY <3>4 DEF Gathering
      <3>6. n = 0
        BY <3>4, Numbers
      <3> HIDE DEF n
      <3>7. gathered(1) = 0 /\ gathered(2) = 0 /\ gathered(3) = 0
        BY <3>6
      <3> QED
        BY <3>1, <3>3, <3>5, <3>7
    <2> QED
      BY <2>1, <2>2
  <1>6. COM_POS' # 0 => com_state' = "DATA"
    BY <1>2, <1>4
  <1>7. id' \in Parted /\ id' = id /\ FLAG_COM'
    BY <1>1, <1>2
  <1>8. com_state' = "DATA" => COM_POS' = com_bytes_processed'
    BY <1>4
  <1> QED
    BY <1>5, <1>6, <1>7, <1>8 DEF Gathering

\* The other commands find nothing gathered.
LEMMA OthersGather ==
  ASSUME CommInv, Gathering, Taken, id \notin Parted \/ ~FLAG_COM, FLAG_COM' => FLAG_COM,
         UNCHANGED <<COM_POS, COM_PARAMETER>>
  PROVE  Gathering'
  <1>1. COM_POS = 0 /\ COM_PARAMETER = 0
    BY DEF Gathering
  <1>2. id' = id
    BY DEF Taken
  <1> QED
    BY <1>1, <1>2 DEF Gathering

\* com_exec: what is gathered of a command stays its own.
LEMMA ExecGathers ==
  ASSUME CommInv, Gathering, Exec
  PROVE  Gathering'
  <1>1. CASE ExecSetFram \/ ExecSetKey
    BY <1>1, PartedGathers
  <1>2. CASE ~(ExecSetFram \/ ExecSetKey)
    <2>1. Taken /\ UNCHANGED <<COM_POS, COM_PARAMETER>> /\ (FLAG_COM' => FLAG_COM)
      BY <1>2 DEF Exec, ExecVersion, ExecRefused, ExecInit, ExecEnd, ExecGet, ExecUnknown, ExecReset, session
    <2>2. \/ ~FLAG_COM
          \/ id \in {COM_GET_VERSION, COM_INIT, COM_END, COM_GET_FRAM, COM_GET_PARAM, COM_GET_KEY, COM_RESET}
          \/ id \notin Known
      BY <1>2 DEF Exec, ExecVersion, ExecRefused, ExecInit, ExecEnd, ExecGet, ExecUnknown, ExecReset
    <2>3. id \notin Parted \/ ~FLAG_COM
      BY <2>2 DEF Parted, Known, COM_GET_VERSION, COM_INIT, COM_END, COM_GET_FRAM, COM_GET_PARAM, COM_GET_KEY,
                  COM_RESET, COM_SET_FRAM, COM_SET_KEY
    <2> QED
      BY <2>1, <2>3, OthersGather
  <1> QED
    BY <1>1, <1>2

\* Every other step.
LEMMA StepGathers ==
  ASSUME CommInv, FreshInv, Next \/ UNCHANGED vars
  PROVE  Gathering'
  <1>1. Gathering /\ Requested
    BY DEF FreshInv
  <1>2. CASE Exec
    BY <1>1, <1>2, ExecGathers
  <1>3. ASSUME UNCHANGED <<COM_POS, COM_PARAMETER, FLAG_COM, com_state, id, com_bytes_processed>>
        PROVE  Gathering'
    BY <1>1, <1>3 DEF Gathering
  <1>4. CASE Poll \/ SendId \/ SendRest \/ Start \/ SizeMissing \/ After \/ ConfirmNo \/ Host \/ Deliver \/ Expire
             \/ UNCHANGED vars
    <2>1. UNCHANGED <<session, parser>>
      BY <1>4 DEF Poll, SendId, SendRest, Start, SizeMissing, After, ConfirmNo, Host, Connect, Command, ReadReply,
                  GiveUp, Deliver, Expire, vars
    <2> QED
      BY <1>3, <2>1 DEF session, parser
  <1>5. CASE Aborted \/ InitAborted \/ UnknownAborted \/ Reset
    BY <1>5 DEF Aborted, InitAborted, UnknownAborted, Reset, Cleared, Gathering
  <1>6. CASE ReadId
    BY <1>1, <1>6 DEF ReadId, Gathering, session
  <1>7. CASE ReadSize
    <2>1. COM_POS = 0 /\ COM_PARAMETER = 0 /\ com_state = "SIZE"
      BY <1>1, <1>7 DEF ReadSize, Gathering
    <2>2. COM_POS' = 0 /\ COM_PARAMETER' = 0 /\ (com_state' = "DATA" => com_bytes_processed' = 0)
      BY <1>7, <2>1 DEF ReadSize, session
    <2> QED
      BY <2>2 DEF Gathering
  <1>8. CASE ConfirmYes
    <2>1. stack # <<>> /\ ~Early(Top) /\ host = "opening"
      BY <1>8 DEF ConfirmYes, At, Early, Sends
    <2>2. com_state = "ID" \/ id \in InitBytes
      BY <1>1, <2>1, TopRequested
    <2>3. ~(com_state = "DATA" /\ id \in Parted)
      BY <2>2 DEF InitBytes, Parted, COM_INIT, COM_SET_FRAM, COM_SET_KEY
    <2>4. UNCHANGED <<COM_POS, COM_PARAMETER, com_state, id, com_bytes_processed>>
      BY <1>8 DEF ConfirmYes, parser
    <2> QED
      BY <1>1, <2>3, <2>4 DEF Gathering
  <1> QED
    BY <1>2, <1>4, <1>5, <1>6, <1>7, <1>8 DEF Next, Device, User

\* Every step keeps what is known of a request for a session.
LEMMA StepRequested ==
  ASSUME CommInv, Requested, Next \/ UNCHANGED vars, MaxDepth = 1
  PROVE  Requested'
  <1>1. CASE Poll \/ SendId \/ SendRest
    BY <1>1, TakeRequested
  <1>2. CASE Start
    BY <1>2, StartRequested
  <1>3. CASE ReadId \/ ReadSize
    BY <1>3, HeaderRequested
  <1>4. CASE Aborted \/ InitAborted \/ UnknownAborted \/ SizeMissing \/ After
    BY <1>4, AfterRequested
  <1>5. CASE Exec \/ ConfirmYes \/ ConfirmNo
    BY <1>5, CommandRequested
  <1>6. CASE Reset
    BY <1>6 DEF Reset, Requested
  <1>7. CASE Host \/ Deliver \/ Expire
    BY <1>7, HostRequested
  <1>8. CASE UNCHANGED vars
    BY <1>8 DEF vars, hostVars, parser, Requested
  <1> QED
    BY <1>1, <1>2, <1>3, <1>4, <1>5, <1>6, <1>7, <1>8 DEF Next, Device, User

\* Between two commands nothing is left in COM_POS and COM_PARAMETER, though they
\* are cleared in other places than the parser's state (com_abort, command_set_fram,
\* command_set_key); and a session is only opened over a parser that is at the
\* request for it.  Without a nested confirmation.
THEOREM FreshInvariant ==
  ASSUME MaxDepth = 1
  PROVE  Spec => []FreshInv
  <1>1. Init => FreshInv
    BY DEF Init, FreshInv, Requested, Gathering
  <1>2. CommInv /\ FreshInv /\ [Next]_vars => FreshInv'
    <2> SUFFICES ASSUME CommInv, FreshInv, Next \/ UNCHANGED vars PROVE FreshInv'
      OBVIOUS
    <2> QED
      BY StepGathers, StepRequested DEF FreshInv
  <1> QED
    BY <1>1, <1>2, CommInvariant, PTL DEF Spec

\* Fresh: a command starts with nothing left from an earlier one.
THEOREM CommandsAreFresh ==
  ASSUME MaxDepth = 1
  PROVE  Spec => []Fresh
  <1>1. FreshInv => Fresh
    BY DEF FreshInv, Gathering, Fresh
  <1> QED
    BY <1>1, FreshInvariant, PTL
-----------------------------------------------------------------------------
\* What the host has asked for, between its request and the wallet's answer.

\* The packet is what the host asked for between two places.
Holds(packet, from, to) ==
  Len(packet) = to - from /\ \A k \in 1..Len(packet) : packet[k] = asked[from + k]

\* The packets on their way begin t bytes after the start of the command, and
\* the bytes not yet sent follow them.
OnWire(cut) ==
  /\ \A k \in 1..Len(link) : cut[k] < cut[k + 1] /\ Holds(link[k], cut[k], cut[k + 1])
  /\ \A k \in 2..Len(link) + 1 : cut[k] = Len(asked) \/ cut[k] >= CDC_TXRX_EPSIZE
  /\ host # "closed" => Holds(unsent, cut[Len(link) + 1], Len(asked))

Wired(t) == \E cut \in [1..Len(link) + 1 -> 0..Len(asked)] : cut[1] = t /\ OnWire(cut)

AllEarly == \A k \in 1..Len(stack) : Early(stack[k])
Alone == Len(stack) = 1
Unread == IF stack = <<>> THEN 0 ELSE Top.left

ClosesFirst == out # <<>> /\ out[1].reply \in Closing
\* Half a reply, and a reply, that the host has not read.
Half(reply) == <<[reply |-> reply, part |-> "id"]>>
Full(reply) == <<[reply |-> reply, part |-> "id"], [reply |-> reply, part |-> "rest"]>>

\* The parser waits for a command that was cut off and will be aborted by the
\* call that goes on.
Cut == timeout /\ com_state # "ID" /\ AllEarly
-----------------------------------------------------------------------------
\* While the last thing the host asked for is a session.

HoldsFirst(t) ==
  /\ Holds(stack[1].data, 0, Len(stack[1].data)) /\ Len(stack[1].data) <= t
  /\ \/ Early(stack[1]) /\ (stack[1].at = "start" => com_state = "ID" \/ timeout)
     \/ stack[1].at = "loop" /\ com_state = "ID" /\ Alone

InitAhead(t) ==
  /\ Len(stack) <= 1 /\ (stack # <<>> => Top.at \in {"start", "loop"})
  /\ com_state = "SIZE" => Unread + (Len(asked) - t) + sized <= SIZE_BYTES /\ (sized > 0 => totalSize = 0)
  /\ com_state = "DATA" => At("loop") /\ Top.left = 0 /\ t = Len(asked) /\ totalSize = 0 /\ com_bytes_processed = 0

Confirms(call) == call.at \in {"confirm", "init_aborted"} \/ (call.at \in Sends /\ call.next = "init_aborted")

Accepted(t) ==
  /\ FLAG_COM /\ t = Len(asked) /\ com_state = "ID" /\ Len(stack) <= 1
  /\ stack # <<>> => /\ Top.left = 0 /\ Top.next = "after" /\ Top.at \in {"send_id", "send_rest", "after"}
                     /\ Top.at \in Sends => Top.reply = COM_OK
  /\ host = "open" => out = <<>> /\ (stack = <<>> \/ Top.at = "after")
  /\ host = "opening" =>
       \/ ClosesFirst
       \/ At("send_id") /\ out = <<>>
       \/ At("send_rest") /\ out = Half(COM_OK)
       \/ (stack = <<>> \/ At("after")) /\ out = Full(COM_OK)

Unheard ==
  /\ host # "open" /\ (out = <<>> \/ ClosesFirst)
  /\ \A k \in 1..Len(stack) : stack[k].at \in Sends => stack[k].reply \in Closing

Opening(t) ==
  /\ Wired(t)
  /\ t = 0 => stack = <<>> /\ (com_state = "ID" \/ timeout)
  /\ \A k \in 1..Len(stack) : stack[k].data \in Seq({0}) \/ (k = 1 /\ HoldsFirst(t))
  /\ com_state = "ID" \/ id = 0 \/ Cut \/ (id = COM_INIT /\ InitAhead(t))
  /\ \A k \in 1..Len(stack) : Confirms(stack[k]) => Alone /\ t = Len(asked) /\ com_state = "ID" /\ Top.left = 0
  /\ Unheard \/ Accepted(t)
-----------------------------------------------------------------------------
\* While it is another command, in an open session.

Data(p) == p - 1 - SIZE_BYTES

ParserAt(p) ==
  /\ p = 0 => com_state = "ID"
  /\ p \in 1..SIZE_BYTES =>
       /\ com_state = "SIZE" /\ sized = p - 1 /\ id = asked[1]
       /\ sized > 0 => totalSize = Number(asked, 1, sized)
  /\ p > SIZE_BYTES =>
       /\ com_state = "DATA" /\ id = asked[1] /\ totalSize = Number(asked, 1, SIZE_BYTES)
       /\ com_bytes_processed = Data(p)

\* The first q bytes of the data of COM_SET_FRAM are dealt with.
Address(q) == Number(asked, 1 + SIZE_BYTES, IF q < ADDRESS_BYTES THEN q ELSE ADDRESS_BYTES)
Written(q) == q > ADDRESS_BYTES => \A a \in DOMAIN fram : a - AskedAddress + 1 \in 1..(q - ADDRESS_BYTES) => fram[a] = AskedAt(a)
FramAt(q) == asked[1] = COM_SET_FRAM => COM_PARAMETER = Address(q) /\ Written(q)

\* The call that has picked p of the t bytes taken from the line.
Calling(p, t) ==
  /\ p > SIZE_BYTES /\ p = Len(asked) => At("loop")
  /\ \/ stack = <<>> /\ p = t
     \/ Alone /\ Top.left = 0 /\ p = t /\ (Top.at = "after" \/ (Top.at = "reset" /\ p = 0))
     \/ Alone /\ Top.at \in {"start", "loop"} /\ Holds(Top.data, p, t) /\ Top.left = t - p

Reading(p, t) ==
  /\ p <= t /\ Wired(t) /\ (t = 0 \/ t = Len(asked) \/ t >= CDC_TXRX_EPSIZE)
  /\ ParserAt(p) /\ (p > SIZE_BYTES => FramAt(Data(p)))
  /\ Calling(p, t)
  /\ host # "open" /\ out = <<>>

Answering ==
  /\ Wired(Len(asked)) /\ com_state = "ID" /\ (asked[1] = COM_SET_FRAM => Written(Data(Len(asked))))
  /\ Len(stack) <= 1
  /\ stack # <<>> => Top.left = 0 /\ Top.at \in {"send_id", "send_rest", "after", "reset", "init_aborted", "unknown_aborted"}
  /\ host = "open" => out = <<>> /\ (stack = <<>> \/ Top.at \in {"after", "reset"})
  /\ host = "busy" =>
       \/ ClosesFirst
       \/ At("send_id") /\ out = <<>>
       \/ At("send_rest") /\ out = Half(Top.reply)
       \/ (stack = <<>> \/ Top.at \in {"after", "reset"}) /\ \E r \in Byte : out = Full(r)

\* A command that is cut off.
Broken ==
  /\ Cut /\ host # "open"
  /\ out = <<>> \/ ClosesFirst
  /\ host = "busy" /\ (\E k \in 1..Len(stack) : stack[k].at \in {"send_rest", "aborted"}) => ClosesFirst

Serving == Broken \/ Answering \/ \E t \in 0..Len(asked) : \E p \in 0..t : Reading(p, t)

Refusing == host = "busy" /\ (ClosesFirst \/ (out = <<>> /\ Alone /\ Top.at = "send_id" /\ Top.reply \in Closing))

Served == (FLAG_COM => Serving) /\ (~FLAG_COM => host = "closed" \/ Refusing)

\* The inductive invariant under WritesAsAsked and OkMeansWritten: what the host last
\* asked for, the packets on the line, the one in com_process_data and the parser
\* (Process.c 10-72) fit together byte by byte, until the answer is read.
AskedInv ==
  /\ asked \in Commands \cup {Init_, <<>>}
  /\ host = "closed" => unsent = <<>> /\ out = <<>>
  /\ host = "opening" => asked = Init_
  /\ host = "busy" => asked \in Commands
  /\ asked = <<>> => host = "closed" /\ ~FLAG_COM /\ link = <<>> /\ stack = <<>>
  /\ asked = Init_ => \E t \in 0..Len(asked) : Opening(t)
  /\ asked \in Commands => Served
-----------------------------------------------------------------------------
\* The bytes of COM_INIT.
LEMMA InitBytesAre ==
  /\ Len(Init_) = 1 + SIZE_BYTES /\ Init_[1] = COM_INIT
  /\ \A k \in 2..Len(Init_) : Init_[k] = 0
  <1> DEFINE zeros == [k \in 1..SIZE_BYTES |-> 0]
  <1>1. zeros \in Seq(Byte) /\ Len(zeros) = SIZE_BYTES /\ \A k \in 1..SIZE_BYTES : zeros[k] = 0
    BY Numbers DEF Byte
  <1>2. <<COM_INIT>> \in Seq(Byte) /\ Len(<<COM_INIT>>) = 1 /\ <<COM_INIT>>[1] = COM_INIT
    BY DEF Byte, COM_INIT
  <1> HIDE DEF zeros
  <1>3. /\ Len(<<COM_INIT>> \o zeros) = 1 + SIZE_BYTES
        /\ (<<COM_INIT>> \o zeros)[1] = COM_INIT
        /\ \A k \in 2..1 + SIZE_BYTES : (<<COM_INIT>> \o zeros)[k] = zeros[k - 1]
    BY <1>1, <1>2, Numbers
  <1>4. \A k \in 2..1 + SIZE_BYTES : k - 1 \in 1..SIZE_BYTES
    BY Numbers
  <1> QED
    BY <1>1, <1>3, <1>4 DEF Init_, zeros

\* What the host may have asked for.
LEMMA AskedBytes ==
  ASSUME CommInv, AskedInv
  PROVE  /\ asked \in Seq(Byte) /\ Len(asked) \in Nat
         /\ \A k \in 1..Len(asked) : asked[k] \in Byte
         /\ asked = Init_ => Len(asked) = 1 + SIZE_BYTES /\ asked[1] = COM_INIT /\ \A k \in 2..Len(asked) : asked[k] = 0
         /\ asked \in Commands => WellFormed(asked) /\ Len(asked) > SIZE_BYTES /\ asked[1] # COM_INIT
         /\ asked \in Commands => asked # Init_
  <1>1. asked \in Seq(Byte)
    BY DEF CommInv, ChannelsOK
  <1>2. asked \in Commands => WellFormed(asked)
    BY WellFormedAssumption
  <1> QED
    BY <1>1, <1>2, InitBytesAre DEF WellFormed

\* A packet of that length with those bytes is what the host asked for there.
LEMMA HeldBytes ==
  ASSUME NEW packet, NEW from, NEW to, Len(packet) = to - from,
         \A k \in 1..Len(packet) : packet[k] = asked[from + k]
  PROVE  Holds(packet, from, to)
  BY DEF Holds

\* CDC_Task takes the next packet of the command ...
LEMMA WireTaken ==
  ASSUME CommInv, NEW t \in 0..Len(asked), Wired(t), link # <<>>, link' = Tail(link),
         UNCHANGED <<host, asked, unsent>>
  PROVE  \E u \in 0..Len(asked) :
           /\ t < u /\ Holds(Head(link), t, u) /\ Wired(u)' /\ (u = Len(asked) \/ u >= CDC_TXRX_EPSIZE)
  <1> DEFINE n == Len(link)
  <1>1. /\ n \in Nat /\ n > 0 /\ Head(link) = link[1] /\ Len(Tail(link)) = n - 1
        /\ \A k \in 1..n - 1 : Tail(link)[k] = link[k + 1]
        /\ Len(asked) \in Nat
    BY FirstRemoved DEF CommInv, ChannelsOK
  <1>2. PICK cut \in [1..n + 1 -> 0..Len(asked)] : cut[1] = t /\ OnWire(cut)
    BY DEF Wired
  <1>3. \A k \in 1..n : k + 1 \in 1..n + 1 /\ cut[k + 1] \in 0..Len(asked)
    BY <1>1, <1>2
  <1>4. PICK next \in [1..n -> 0..Len(asked)] : \A k \in 1..n : next[k] = cut[k + 1]
    <2>1. [k \in 1..n |-> cut[k + 1]] \in [1..n -> 0..Len(asked)]
      BY <1>3
    <2> QED
      BY <2>1
  <1>5. /\ \A k \in 1..n : cut[k] < cut[k + 1] /\ Holds(link[k], cut[k], cut[k + 1])
        /\ \A k \in 2..n + 1 : cut[k] = Len(asked) \/ cut[k] >= CDC_TXRX_EPSIZE
        /\ host # "closed" => Holds(unsent, cut[n + 1], Len(asked))
    BY <1>2 DEF OnWire
  <1>6. t < cut[2] /\ Holds(Head(link), t, cut[2]) /\ (cut[2] = Len(asked) \/ cut[2] >= CDC_TXRX_EPSIZE)
    <2>1. 1 \in 1..n /\ 2 \in 2..n + 1
      BY <1>1
    <2> QED
      BY <1>1, <1>2, <1>5, <2>1
  <1>7. /\ \A k \in 1..n - 1 : next[k] < next[k + 1] /\ Holds(link[k + 1], next[k], next[k + 1])
        /\ \A k \in 2..n : next[k] = Len(asked) \/ next[k] >= CDC_TXRX_EPSIZE
        /\ host # "closed" => Holds(unsent, next[n], Len(asked))
    <2>1. \A k \in 1..n - 1 : k \in 1..n /\ k + 1 \in 1..n
      BY <1>1
    <2>2. \A k \in 2..n : k \in 1..n /\ k + 1 \in 2..n + 1
      BY <1>1
    <2>3. n \in 1..n
      BY <1>1
    <2> QED
      BY <1>1, <1>4, <1>5, <2>1, <2>2, <2>3
  <1>8. OnWire(next)'
    <2>1. Len(link') = n - 1 /\ Len(link') + 1 = n
      BY <1>1
    <2> QED
      BY <1>1, <1>7, <2>1 DEF OnWire, Holds
  <1>9. Wired(cut[2])'
    <2>1. Len(link') + 1 = n /\ next[1] = cut[2]
      BY <1>1, <1>4
    <2> QED
      BY <1>4, <1>8, <2>1 DEF Wired
  <1> QED
    BY <1>1, <1>3, <1>6, <1>9

\* ... which the host cuts at the length of a packet ...
LEMMA WireDelivered ==
  ASSUME CommInv, NEW t \in 0..Len(asked), Wired(t), Deliver, host # "closed"
  PROVE  Wired(t)'
  <1> DEFINE n == Len(link)
             L == Len(asked)
             e == IF Len(unsent) < CDC_TXRX_EPSIZE THEN Len(unsent) ELSE CDC_TXRX_EPSIZE
             p == SubSeq(unsent, 1, e)
             q == SubSeq(unsent, e + 1, Len(unsent))
  <1>1. /\ n \in Nat /\ L \in Nat /\ Len(unsent) \in Nat /\ Len(unsent) > 0 /\ unsent \in Seq(Byte)
        /\ CDC_TXRX_EPSIZE \in Nat /\ CDC_TXRX_EPSIZE > 0
        /\ link \in Seq(Seq(Byte) \ {<<>>})
    BY Numbers DEF CommInv, ChannelsOK, Deliver
  <1>2. e \in Nat /\ e > 0 /\ e <= Len(unsent) /\ (e = Len(unsent) \/ e = CDC_TXRX_EPSIZE)
    BY <1>1
  <1>3. link' = Append(link, p) /\ unsent' = q /\ UNCHANGED <<host, asked>>
    BY DEF Deliver
  <1> HIDE DEF e
  <1>4. /\ p \in Seq(Byte) /\ Len(p) = e /\ \A k \in 1..e : p[k] = unsent[k]
        /\ Len(q) = Len(unsent) - e /\ \A k \in 1..Len(q) : q[k] = unsent[e + k]
    <2>1. /\ p \in Seq(Byte) /\ Len(p) = e - 1 + 1 /\ \A k \in 1..Len(p) : p[k] = unsent[1 + k - 1]
      BY <1>1, <1>2, Part
    <2>2. /\ e + 1 <= Len(unsent) => Len(q) = Len(unsent) - (e + 1) + 1
          /\ Len(unsent) < e + 1 => Len(q) = 0
          /\ \A k \in 1..Len(q) : q[k] = unsent[e + 1 + k - 1]
      <3>1. e + 1 \in Nat /\ 1 <= e + 1
        BY <1>2
      <3> QED
        BY <1>1, <3>1, Part
    <2>3. \A k \in Int : 1 + k - 1 = k /\ e + 1 + k - 1 = e + k
      BY <1>2
    <2> HIDE DEF p, q
    <2>4. Len(p) = e
      BY <1>2, <2>1
    <2>5. Len(q) = Len(unsent) - e
      BY <1>1, <1>2, <2>2
    <2>6. \A k \in 1..e : p[k] = unsent[k]
      <3> TAKE k \in 1..e
      <3>1. k \in Int /\ k \in 1..Len(p)
        BY <1>2, <2>4
      <3> QED
        BY <2>1, <2>3, <3>1
    <2>7. \A k \in 1..Len(q) : q[k] = unsent[e + k]
      <3> TAKE k \in 1..Len(q)
      <3>1. k \in Int
        OBVIOUS
      <3> QED
        BY <2>2, <2>3, <3>1
    <2> QED
      BY <2>1, <2>4, <2>5, <2>6, <2>7
  <1> HIDE DEF p, q
  <1>5. /\ Len(link') = n + 1 /\ link'[n + 1] = p /\ \A k \in 1..n : link'[k] = link[k]
    <2>1. p \in Seq(Byte) \ {<<>>}
      BY <1>2, <1>4
    <2> QED
      BY <1>1, <1>3, <2>1, LastAdded
  <1>6. PICK cut \in [1..n + 1 -> 0..L] : cut[1] = t /\ OnWire(cut)
    BY DEF Wired
  <1>7. /\ \A k \in 1..n : cut[k] < cut[k + 1] /\ Holds(link[k], cut[k], cut[k + 1])
        /\ \A k \in 2..n + 1 : cut[k] = L \/ cut[k] >= CDC_TXRX_EPSIZE
        /\ Holds(unsent, cut[n + 1], L)
    BY <1>6 DEF OnWire
  <1>m. PICK m : m = cut[n + 1]
    OBVIOUS
  <1>8. m \in 0..L /\ Len(unsent) = L - m /\ \A k \in 1..Len(unsent) : unsent[k] = asked[m + k]
    <2>1. n + 1 \in 1..n + 1
      BY <1>1
    <2> QED
      BY <1>6, <1>7, <1>m, <2>1 DEF Holds
  <1>9. m + e \in 0..L /\ m < m + e
    BY <1>1, <1>2, <1>8
  <1>10. PICK more \in [1..n + 2 -> 0..L] : more[n + 2] = m + e /\ \A k \in 1..n + 1 : more[k] = cut[k]
    <2> DEFINE f == [k \in 1..n + 2 |-> IF k = n + 2 THEN m + e ELSE cut[k]]
    <2>1. \A k \in 1..n + 2 : k = n + 2 \/ k \in 1..n + 1
      BY <1>1
    <2>2. n + 2 \in 1..n + 2 /\ \A k \in 1..n + 1 : k \in 1..n + 2 /\ k # n + 2
      BY <1>1
    <2>3. f \in [1..n + 2 -> 0..L] /\ f[n + 2] = m + e /\ \A k \in 1..n + 1 : f[k] = cut[k]
      BY <1>6, <1>9, <2>1, <2>2
    <2> QED
      BY <2>3
  <1>11. more[n + 1] = m /\ more[1] = t
    <2>1. n + 1 \in 1..n + 1 /\ 1 \in 1..n + 1
      BY <1>1
    <2> QED
      BY <1>6, <1>10, <1>m, <2>1
  <1>12. Holds(p, m, m + e) /\ Holds(q, m + e, L)
    <2>1. Holds(p, m, m + e)
      <3>1. \A k \in 1..e : k \in 1..Len(unsent)
        BY <1>1, <1>2
      <3>2. (m + e) - m = e
        BY <1>2, <1>8
      <3>3. \A k \in 1..e : p[k] = asked[m + k]
        BY <1>4, <1>8, <3>1
      <3>4. Len(p) = e
        BY <1>4
      <3>5. \A k \in 1..Len(p) : p[k] = asked[m + k]
        BY <3>3, <3>4
      <3>6. Len(p) = (m + e) - m
        BY <3>2, <3>4
      <3> QED
        BY <3>5, <3>6, HeldBytes
    <2>2. Holds(q, m + e, L)
      <3>1. \A k \in 1..Len(q) : e + k \in 1..Len(unsent) /\ m + (e + k) = m + e + k
        BY <1>1, <1>2, <1>4, <1>8
      <3>2. L - (m + e) = Len(q)
        BY <1>1, <1>2, <1>4, <1>8
      <3>3. \A k \in 1..Len(q) : q[k] = asked[m + e + k]
        <4> TAKE k \in 1..Len(q)
        <4>1. q[k] = unsent[e + k] /\ unsent[e + k] = asked[m + (e + k)]
          BY <1>4, <1>8, <3>1
        <4> QED
          BY <3>1, <4>1
      <3> QED
        BY <3>2, <3>3 DEF Holds
    <2> QED
      BY <2>1, <2>2
  <1>13. m + e = L \/ m + e >= CDC_TXRX_EPSIZE
    BY <1>1, <1>2, <1>8
  <1>14. \A k \in 1..n + 1 : more[k] < more[k + 1] /\ Holds(link'[k], more[k], more[k + 1])
    <2> SUFFICES ASSUME NEW k \in 1..n + 1 PROVE more[k] < more[k + 1] /\ Holds(link'[k], more[k], more[k + 1])
      OBVIOUS
    <2>1. CASE k = n + 1
      <3>1. k + 1 = n + 2
        BY <1>1, <2>1
      <3> QED
        BY <1>5, <1>9, <1>10, <1>11, <1>12, <2>1, <3>1
    <2>2. CASE k # n + 1
      <3>1. k \in 1..n /\ k \in 1..n + 1 /\ k + 1 \in 1..n + 1
        BY <1>1, <2>2
      <3> QED
        BY <1>5, <1>7, <1>10, <3>1
    <2> QED
      BY <2>1, <2>2
  <1>15. \A k \in 2..n + 2 : more[k] = L \/ more[k] >= CDC_TXRX_EPSIZE
    <2>1. \A k \in 2..n + 2 : k = n + 2 \/ (k \in 2..n + 1 /\ k \in 1..n + 1)
      BY <1>1
    <2> QED
      BY <1>7, <1>10, <1>13, <2>1
  <1>16. OnWire(more)'
    <2>1. Len(link') + 1 = n + 2 /\ Len(link') = n + 1
      BY <1>1, <1>5
    <2> QED
      BY <1>3, <1>10, <1>12, <1>14, <1>15, <2>1 DEF OnWire, Holds
  <1> QED
    <2>1. Len(link') + 1 = n + 2
      BY <1>1, <1>5
    <2> QED
      BY <1>3, <1>10, <1>11, <1>16, <2>1 DEF Wired

\* ... and gives up when it likes.
LEMMA WireKept ==
  ASSUME NEW t \in 0..Len(asked), Wired(t), UNCHANGED <<link, asked>>,
         host' = "closed" \/ (host # "closed" /\ unsent' = unsent)
  PROVE  Wired(t)'
  <1>1. PICK cut \in [1..Len(link) + 1 -> 0..Len(asked)] : cut[1] = t /\ OnWire(cut)
    BY DEF Wired
  <1>2. OnWire(cut)'
    BY <1>1 DEF OnWire, Holds
  <1> QED
    BY <1>1, <1>2 DEF Wired

\* What the host has just asked for is all still to be sent.
LEMMA WireStarts ==
  ASSUME link' = <<>>, unsent' = asked', asked' \in Seq(Byte)
  PROVE  Wired(0)'
  <1>1. Len(link') = 0 /\ Len(asked') \in Nat /\ Len(unsent') = Len(asked') - 0
    OBVIOUS
  <1>2. PICK cut \in [1..1 -> 0..Len(asked')] : cut[1] = 0
    <2> DEFINE f == [k \in 1..1 |-> 0]
    <2>1. f \in [1..1 -> 0..Len(asked')]
      BY <1>1
    <2>2. 1 \in 1..1 /\ f[1] = 0
      OBVIOUS
    <2> QED
      BY <2>1, <2>2
  <1>3. \A k \in 1..Len(unsent') : unsent'[k] = asked'[0 + k]
    OBVIOUS
  <1>4. OnWire(cut)'
    <2>1. \A k \in 1..Len(link') : FALSE
      BY <1>1
    <2>2. \A k \in 2..Len(link') + 1 : FALSE
      BY <1>1
    <2> QED
      BY <1>1, <1>2, <1>3, <2>1, <2>2 DEF OnWire, Holds
  <1> QED
    BY <1>2, <1>4 DEF Wired

\* Nothing follows the last byte.
LEMMA WireEnds ==
  ASSUME CommInv, Wired(Len(asked))
  PROVE  link = <<>> /\ (host # "closed" => unsent = <<>>)
  <1> DEFINE n == Len(link)
  <1>1. n \in Nat /\ Len(asked) \in Nat /\ unsent \in Seq(Byte) /\ link \in Seq(Seq(Byte) \ {<<>>})
    BY DEF CommInv, ChannelsOK
  <1>2. PICK cut \in [1..n + 1 -> 0..Len(asked)] : cut[1] = Len(asked) /\ OnWire(cut)
    BY DEF Wired
  <1>3. n = 0
    <2> SUFFICES ASSUME n # 0 PROVE FALSE
      BY <1>1
    <2>1. 1 \in 1..n /\ 2 \in 1..n + 1
      BY <1>1
    <2>2. cut[1] < cut[1 + 1] /\ cut[2] \in 0..Len(asked)
      BY <1>2, <2>1 DEF OnWire
    <2> QED
      BY <1>1, <1>2, <2>2
  <1>4. link = <<>>
    BY <1>1, <1>3
  <1>5. host # "closed" => Len(unsent) = Len(asked) - Len(asked)
    BY <1>2, <1>3 DEF OnWire, Holds
  <1> QED
    BY <1>1, <1>4, <1>5

\* What a header or an address amounts to, byte after byte.
LEMMA NextByte ==
  ASSUME NEW bytes \in Seq(Byte), NEW place \in Nat, NEW n \in {0, 1, 2}, place + n + 1 <= Len(bytes)
  PROVE  /\ Number(bytes, place, n + 1) = Number(bytes, place, n) + Shifted(bytes[place + n + 1], n)
         /\ Number(bytes, place, 1) = bytes[place + 1] /\ Number(bytes, place, 0) = 0
  <1>1. /\ place + 1 \in 1..Len(bytes) /\ bytes[place + 1] \in Nat
    <2>1. place + 1 \in 1..Len(bytes)
      OBVIOUS
    <2>2. bytes[place + 1] \in Byte
      BY <2>1
    <2>3. Byte \subseteq Nat
      BY DEF Byte
    <2> QED
      BY <2>1, <2>2, <2>3
  <1>2. /\ Shifted(bytes[place + 1], 0) = bytes[place + 1]
        /\ n > 0 => place + 2 \in 1..Len(bytes) /\ Shifted(bytes[place + 2], 1) \in Nat
        /\ n > 1 => place + 3 \in 1..Len(bytes) /\ Shifted(bytes[place + 3], 2) \in Nat
    <2>1. Shifted(bytes[place + 1], 0) = bytes[place + 1]
      BY <1>1 DEF Shifted
    <2>2. n > 0 => place + 2 \in 1..Len(bytes) /\ bytes[place + 2] \in Byte
      OBVIOUS
    <2>3. n > 1 => place + 3 \in 1..Len(bytes) /\ bytes[place + 3] \in Byte
      OBVIOUS
    <2> QED
      BY <2>1, <2>2, <2>3, ShiftedByte
  <1>3. /\ Number(bytes, place, 0) = 0
        /\ Number(bytes, place, 1) = Shifted(bytes[place + 1], 0)
        /\ n > 0 => Number(bytes, place, 2) = Shifted(bytes[place + 1], 0) + Shifted(bytes[place + 2], 1)
        /\ n > 1 => Number(bytes, place, 3) = Shifted(bytes[place + 1], 0) + Shifted(bytes[place + 2], 1) + Shifted(bytes[place + 3], 2)
    BY <1>1, <1>2 DEF Number
  <1>4. CASE n = 0
    BY <1>1, <1>2, <1>3, <1>4
  <1>5. CASE n = 1
    BY <1>1, <1>2, <1>3, <1>5
  <1>6. CASE n = 2
    BY <1>1, <1>2, <1>3, <1>6
  <1> QED
    BY <1>2, <1>3, <1>4, <1>5, <1>6

-----------------------------------------------------------------------------
\* The running call at another place.
LEMMA NowIs ==
  ASSUME StackOK, stack # <<>>, NEW place \in Places, NEW left \in Nat, NEW reply \in Byte, NEW next \in Nexts
  PROVE  LET call == Now(place, left, reply, next)
         IN call \in Calls /\ call.at = place /\ call.data = Top.data /\ call.left = left
            /\ call.reply = reply /\ call.next = next
  <1>1. Top \in Calls
    BY TopCall
  <1> QED
    BY <1>1 DEF Now, Calls

\* Of at most one call, the one that runs is alone.
LEMMA AloneIs ==
  ASSUME CommInv, stack # <<>>, Len(stack) <= 1
  PROVE  Alone
  <1>1. PICK n \in Nat : n = Len(stack)
    BY TopCall DEF CommInv
  <1>2. n > 0 /\ n <= 1
    BY <1>1, TopCall DEF CommInv
  <1>3. n = 1
    BY <1>2
  <1> QED
    BY <1>1, <1>3 DEF Alone

\* The call that runs while the wallet reads a request.
LEMMA OpeningTop ==
  ASSUME CommInv, NEW t \in 0..Len(asked), Opening(t), stack # <<>>
  PROVE  /\ t > 0 /\ Top \in Calls /\ Top = stack[Len(stack)] /\ Len(stack) \in Nat /\ Len(stack) > 0
         /\ \/ Top.data \in Seq({0})
            \/ /\ Alone /\ HoldsFirst(t) /\ stack[1] = Top
               /\ Top.at \in {"start", "aborted", "loop"} \/ (Top.at \in Sends /\ Top.next = "aborted")
         /\ Confirms(Top) => Alone /\ t = Len(asked) /\ com_state = "ID" /\ Top.left = 0
         /\ ~Early(Top) => ~Cut
         /\ Top.at \in Sends /\ Unheard => Top.reply \in Closing
  <1>1. /\ Top \in Calls /\ Top = stack[Len(stack)] /\ Len(stack) \in Nat /\ Len(stack) > 0
        /\ Len(stack) \in 1..Len(stack)
    BY TopCall DEF CommInv, Top
  <1>2. t > 0
    <2>1. t # 0 /\ Len(asked) \in Nat
      BY DEF Opening, CommInv, ChannelsOK
    <2> QED
      BY <2>1
  <1>3. Top.data \in Seq({0}) \/ (Len(stack) = 1 /\ HoldsFirst(t))
    BY <1>1 DEF Opening
  <1>4. ASSUME Len(stack) = 1, HoldsFirst(t)
        PROVE  /\ Alone /\ stack[1] = Top
               /\ Top.at \in {"start", "aborted", "loop"} \/ (Top.at \in Sends /\ Top.next = "aborted")
    BY <1>1, <1>4 DEF Alone, HoldsFirst, Early
  <1>5. Confirms(Top) => Alone /\ t = Len(asked) /\ com_state = "ID" /\ Top.left = 0
    BY <1>1 DEF Opening
  <1>6. ~Early(Top) => ~Cut
    BY <1>1 DEF Cut, AllEarly
  <1>7. Top.at \in Sends /\ Unheard => Top.reply \in Closing
    BY <1>1 DEF Unheard
  <1> QED
    BY <1>1, <1>2, <1>3, <1>4, <1>5, <1>6, <1>7

\* The running call goes on.
LEMMA OpeningBecomes ==
  ASSUME CommInv, NEW t \in 0..Len(asked), Opening(t), stack # <<>>,
         NEW c \in Calls, Become(c), UNCHANGED <<host, asked, unsent, link, out>>,
         c.data \in Seq({0}) \/ (Alone /\ HoldsFirst(t)'),
         com_state' = "ID" \/ id' = 0 \/ Cut' \/ (id' = COM_INIT /\ InitAhead(t)'),
         Confirms(c) => Alone /\ t = Len(asked) /\ com_state' = "ID" /\ c.left = 0,
         \/ Unheard /\ (c.at \in Sends => c.reply \in Closing)
         \/ Accepted(t)'
  PROVE  Opening(t)'
  <1>1. /\ stack \in Seq(Calls) /\ Len(stack) \in Nat /\ Len(stack) > 0
        /\ \A k \in 1..Len(stack) - 1 : stack[k].at # "start"
    BY DEF CommInv, StackOK
  <1>2. /\ Len(stack') = Len(stack) /\ stack'[Len(stack)] = c /\ stack' # <<>>
        /\ \A k \in 1..Len(stack) - 1 : stack'[k] = stack[k]
    BY <1>1, LastReplaced DEF Become
  <1>3. \A k \in 1..Len(stack') : k = Len(stack) \/ (k \in 1..Len(stack) - 1 /\ k \in 1..Len(stack))
    BY <1>1, <1>2
  <1>4. Wired(t)'
    <2>1. host' = "closed" \/ (host # "closed" /\ unsent' = unsent)
      OBVIOUS
    <2> QED
      BY <2>1, WireKept DEF Opening
  <1>5. t # 0
    BY OpeningTop
  <1>6. Top' = c
    BY <1>2 DEF Top
  <1>7. \A k \in 1..Len(stack') : stack'[k].data \in Seq({0}) \/ (k = 1 /\ HoldsFirst(t)')
    <2> SUFFICES ASSUME NEW k \in 1..Len(stack')
                 PROVE  stack'[k].data \in Seq({0}) \/ (k = 1 /\ HoldsFirst(t)')
      OBVIOUS
    <2>1. CASE k = Len(stack)
      BY <1>2, <2>1 DEF Alone
    <2>2. CASE k \in 1..Len(stack) - 1 /\ k \in 1..Len(stack)
      <3>1. stack'[k] = stack[k] /\ stack[k].at # "start"
        BY <1>1, <1>2, <2>2
      <3>2. CASE stack[k].data \in Seq({0})
        BY <3>1, <3>2
      <3>3. CASE k = 1 /\ HoldsFirst(t)
        <4>1. ~Alone
          <5>1. k = 1
            BY <3>3
          <5>2. 1 \in 1..Len(stack) - 1
            BY <2>2, <5>1
          <5>3. Len(stack) # 1
            <6> SUFFICES ASSUME Len(stack) = 1 PROVE 1 \notin 1..Len(stack) - 1
              BY <5>2
            <6>1. 1..Len(stack) - 1 = 1..0
              OBVIOUS
            <6> QED
              BY <6>1
          <5> QED
            BY <5>3 DEF Alone
        <4>2. stack'[1] = stack[1] /\ stack[1].at # "start" /\ Early(stack[1])
          BY <3>1, <3>3, <4>1 DEF HoldsFirst
        <4> QED
          BY <3>3, <4>2 DEF HoldsFirst, Holds, Early
      <3> QED
        BY <2>2, <3>2, <3>3 DEF Opening
    <2> QED
      BY <1>3, <2>1, <2>2
  <1>8. \A k \in 1..Len(stack') : Confirms(stack'[k]) => Alone' /\ t = Len(asked') /\ com_state' = "ID" /\ Top'.left = 0
    <2> SUFFICES ASSUME NEW k \in 1..Len(stack'), Confirms(stack'[k])
                 PROVE  Alone' /\ t = Len(asked') /\ com_state' = "ID" /\ Top'.left = 0
      OBVIOUS
    <2>1. CASE k = Len(stack)
      BY <1>2, <1>6, <2>1 DEF Alone
    <2>2. CASE k \in 1..Len(stack) - 1 /\ k \in 1..Len(stack)
      <3>1. Confirms(stack[k])
        BY <1>2, <2>2
      <3>2. Alone
        BY <2>2, <3>1 DEF Opening
      <3> QED
        BY <1>1, <2>2, <3>2 DEF Alone
    <2> QED
      BY <1>3, <2>1, <2>2
  <1>9. Unheard' \/ Accepted(t)'
    <2> SUFFICES ASSUME Unheard, c.at \in Sends => c.reply \in Closing
                 PROVE  Unheard'
      OBVIOUS
    <2>1. \A k \in 1..Len(stack') : stack'[k].at \in Sends => stack'[k].reply \in Closing
      BY <1>2, <1>3 DEF Unheard
    <2>2. out' = out /\ host' = host
      OBVIOUS
    <2> QED
      BY <2>1, <2>2 DEF Unheard, ClosesFirst
  <1> QED
    BY <1>4, <1>5, <1>7, <1>8, <1>9 DEF Opening, Confirms
-----------------------------------------------------------------------------
\* After its first byte the request holds nothing but zeros.
LEMMA LaterZeros ==
  ASSUME asked = Init_, NEW packet \in Seq(Byte), NEW t \in Nat, NEW u \in Nat, t # 0, u <= Len(asked),
         Holds(packet, t, u)
  PROVE  packet \in Seq({0})
  <1>1. Len(packet) = u - t /\ \A k \in 1..Len(packet) : packet[k] = asked[t + k]
    BY DEF Holds
  <1>2. Len(packet) \in Nat /\ Len(asked) \in Nat
    BY InitBytesAre, Numbers
  <1>3. \A k \in 1..Len(packet) : t + k \in 2..Len(Init_)
    BY <1>1, <1>2
  <1>4. \A k \in 1..Len(packet) : packet[k] = 0
    BY <1>1, <1>3, InitBytesAre
  <1> QED
    BY <1>4

\* The host, the line and the timer while the wallet reads a request.
LEMMA OpeningHost ==
  ASSUME CommInv, AskedInv, asked = Init_, NEW t \in 0..Len(asked), Opening(t),
         Deliver \/ ReadReply \/ GiveUp \/ Expire
  PROVE  Opening(t)'
  <1>1. /\ UNCHANGED <<asked, stack, com_state, id, sized, totalSize, com_bytes_processed, FLAG_COM>>
        /\ timeout => timeout'
    BY DEF Deliver, ReadReply, GiveUp, Expire, hostVars, parser, session
  <1>2. Wired(t)'
    <2>1. CASE Deliver
      <3>1. host # "closed"
        BY <2>1 DEF Deliver, AskedInv
      <3> QED
        BY <2>1, <3>1, WireDelivered DEF Opening
    <2>2. CASE ReadReply \/ GiveUp \/ Expire
      <3>1. UNCHANGED link /\ (host' = "closed" \/ (host # "closed" /\ unsent' = unsent) \/ (Expire /\ UNCHANGED <<host, unsent>>))
        BY <2>2 DEF ReadReply, GiveUp, Expire, hostVars
      <3>2. host = "closed" /\ UNCHANGED host => host' = "closed"
        OBVIOUS
      <3> QED
        BY <1>1, <3>1, <3>2, WireKept DEF Opening
    <2> QED
      BY <2>1, <2>2
  <1>3. t = 0 => stack' = <<>> /\ (com_state' = "ID" \/ timeout')
    BY <1>1 DEF Opening
  <1>4. \A k \in 1..Len(stack') : stack'[k].data \in Seq({0}) \/ (k = 1 /\ HoldsFirst(t)')
    BY <1>1 DEF Opening, HoldsFirst, Holds, Early, Alone
  <1>5. com_state' = "ID" \/ id' = 0 \/ Cut' \/ (id' = COM_INIT /\ InitAhead(t)')
    BY <1>1 DEF Opening, Cut, AllEarly, Early, InitAhead, Unread, Top, At
  <1>6. \A k \in 1..Len(stack') : Confirms(stack'[k]) => Alone' /\ t = Len(asked') /\ com_state' = "ID" /\ Top'.left = 0
    BY <1>1 DEF Opening, Alone, Top
  <1>7. Unheard' \/ Accepted(t)'
    <2>1. CASE Deliver \/ Expire
      <3>1. UNCHANGED <<host, out>>
        BY <2>1 DEF Deliver, Expire, hostVars
      <3>2. (Unheard => Unheard') /\ (Accepted(t) => Accepted(t)')
        BY <1>1, <3>1 DEF Unheard, Accepted, ClosesFirst, Top, At
      <3> QED
        BY <3>2 DEF Opening
    <2>2. CASE GiveUp
      <3>1. host' = "closed" /\ out' = <<>>
        BY <2>2 DEF GiveUp
      <3>2. (Unheard => Unheard') /\ (Accepted(t) => Accepted(t)')
        BY <1>1, <3>1 DEF Unheard, Accepted, Top
      <3> QED
        BY <3>2 DEF Opening
    <2>3. CASE ReadReply
      <3>1. Whole(1) /\ host # "closed" /\ out \in Seq(Parts)
        BY <2>3 DEF ReadReply, CommInv, ChannelsOK
      <3>2. out # <<>> /\ Len(out) > 1 /\ out[2] = [reply |-> out[1].reply, part |-> "rest"]
        BY <3>1 DEF Whole
      <3>3. ASSUME ClosesFirst
            PROVE  host' = "closed" /\ out' = <<>>
        BY <2>3, <3>3 DEF ReadReply, ClosesFirst, Closing
      <3>4. CASE Unheard
        <4>1. host' = "closed" /\ out' = <<>>
          BY <3>2, <3>3, <3>4 DEF Unheard
        <4> QED
          BY <1>1, <3>4, <4>1 DEF Unheard
      <3>5. CASE Accepted(t)
        <4>1. CASE ClosesFirst
          BY <1>1, <3>3, <3>5, <4>1 DEF Accepted, Top
        <4>2. CASE ~ClosesFirst
          <5>1. host = "opening"
            <6>1. host \in {"closed", "opening", "open"}
              <7>1. host \in {"closed", "opening", "open", "busy"}
                BY DEF CommInv, VariablesOK
              <7>2. host # "busy"
                BY AskedBytes DEF AskedInv
              <7> QED
                BY <7>1, <7>2
            <6> QED
              BY <3>1, <3>2, <3>5, <6>1 DEF Accepted
          <5>2. (stack = <<>> \/ At("after")) /\ out = Full(COM_OK)
            BY <3>2, <3>5, <4>2, <5>1 DEF Accepted, Half
          <5>3. host' = "open" /\ out' = <<>>
            <6>1. out[1].reply = COM_OK /\ Len(out) = 2
              BY <5>2 DEF Full
            <6>2. host' = "open"
              BY <2>3, <6>1 DEF ReadReply, COM_OK, COM_END, COM_ERR_NOT_INIT
            <6>3. SubSeq(out, 3, Len(out)) = <<>>
              BY <3>1, <6>1
            <6> QED
              BY <2>3, <6>2, <6>3 DEF ReadReply
          <5> QED
            BY <1>1, <3>5, <5>2, <5>3 DEF Accepted, At, Top
        <4> QED
          BY <4>1, <4>2
      <3> QED
        BY <3>4, <3>5 DEF Opening
    <2> QED
      BY <2>1, <2>2, <2>3
  <1> QED
    BY <1>2, <1>3, <1>4, <1>5, <1>6, <1>7 DEF Opening

\* CDC_Task takes a packet of the request, from the main loop ...
LEMMA OpeningTakes ==
  ASSUME CommInv, AskedInv, asked = Init_, NEW t \in 0..Len(asked), Opening(t), Poll
  PROVE  \E u \in 0..Len(asked) : Opening(u)'
  <1>1. /\ link # <<>> /\ link' = Tail(link) /\ stack' = Append(stack, Call(Head(link)))
        /\ UNCHANGED <<host, asked, unsent, out, com_state, sized, id, totalSize, com_bytes_processed, FLAG_COM, timeout>>
    BY DEF Poll, Take, hostVars, parser, session
  <1>2. PICK u \in 0..Len(asked) : t < u /\ Holds(Head(link), t, u) /\ Wired(u)'
    BY <1>1, WireTaken DEF Opening
  <1>3. Len(asked) \in Nat /\ t \in Nat /\ u \in Nat /\ u <= Len(asked) /\ t # Len(asked)
    BY <1>2 DEF CommInv, ChannelsOK
  <1>4. stack = <<>>
    <2>1. At("confirm") => Confirms(Top) /\ stack # <<>>
      BY DEF At, Confirms
    <2> QED
      BY <1>3, <2>1, OpeningTop DEF Poll
  <1>5. PICK p \in Seq(Byte) \ {<<>>} : p = Head(link)
    BY <1>1, TakeKeeps DEF CommInv
  <1>6. /\ stack' = <<Call(p)>> /\ Len(stack') = 1 /\ stack'[1] = Call(p) /\ stack' # <<>>
    BY <1>1, <1>4, <1>5
  <1>7. /\ Call(p).at = "start" /\ Call(p).data = p /\ Call(p).left = Len(p)
        /\ Len(p) = u - t /\ \A k \in 1..Len(p) : p[k] = asked[t + k]
    BY <1>2, <1>5 DEF Call, Holds
  <1>8. stack'[1].data \in Seq({0}) \/ HoldsFirst(u)'
    <2>1. CASE t = 0
      <3>1. Holds(p, 0, Len(p))' /\ Len(p) <= u
        BY <1>1, <1>3, <1>7, <2>1 DEF Holds
      <3>2. com_state' = "ID" \/ timeout'
        BY <1>1, <2>1 DEF Opening
      <3> QED
        BY <1>6, <1>7, <3>1, <3>2 DEF HoldsFirst, Early
    <2>2. CASE t # 0
      <3>1. p \in Seq({0})
        BY <1>2, <1>3, <1>5, <2>2, LaterZeros
      <3> QED
        BY <1>6, <1>7, <3>1
    <2> QED
      BY <2>1, <2>2
  <1>9. com_state' = "ID" \/ id' = 0 \/ Cut' \/ (id' = COM_INIT /\ InitAhead(u)')
    <2>1. \A k \in 1..Len(stack') : Early(stack'[k])
      BY <1>6, <1>7 DEF Early
    <2>2. CASE Cut
      BY <1>1, <2>1, <2>2 DEF Cut, AllEarly
    <2>3. CASE id = COM_INIT /\ InitAhead(t)
      <3>1. Top' = Call(p)
        BY <1>6 DEF Top
      <3>2. Unread = 0 /\ Unread' = u - t
        BY <1>4, <1>6, <1>7, <3>1 DEF Unread
      <3>3. com_state # "DATA"
        BY <1>4, <2>3 DEF InitAhead, At
      <3>4. com_state = "SIZE" => 0 + (Len(asked) - t) + sized <= SIZE_BYTES /\ (sized > 0 => totalSize = 0)
        BY <2>3, <3>2 DEF InitAhead
      <3>5. sized \in Nat
        BY Numbers DEF CommInv, VariablesOK
      <3>6. com_state' = "SIZE" => Unread' + (Len(asked') - u) + sized' <= SIZE_BYTES /\ (sized' > 0 => totalSize' = 0)
        BY <1>1, <1>3, <3>2, <3>4, <3>5, Numbers
      <3>7. Len(stack') <= 1 /\ Top'.at = "start"
        BY <1>6, <1>7, <3>1
      <3> QED
        BY <1>1, <2>3, <3>3, <3>6, <3>7 DEF InitAhead
    <2> QED
      BY <1>1, <2>2, <2>3 DEF Opening
  <1>10. \A k \in 1..Len(stack') : k = 1
    BY <1>6
  <1>11. \A k \in 1..Len(stack') : ~Confirms(stack'[k]) /\ stack'[k].at \notin Sends
    BY <1>6, <1>7, <1>10 DEF Confirms, Sends
  <1>12. Unheard'
    <2>1. ~Accepted(t)
      BY <1>3 DEF Accepted
    <2>2. Unheard
      BY <2>1 DEF Opening
    <2> QED
      BY <1>1, <1>11, <2>2 DEF Unheard, ClosesFirst
  <1>13. u # 0
    BY <1>2, <1>3
  <1> QED
    BY <1>2, <1>8, <1>9, <1>10, <1>11, <1>12, <1>13 DEF Opening
-----------------------------------------------------------------------------
\* A reply of two parts.
LEMMA PairBuilt ==
  ASSUME NEW x, NEW y
  PROVE  Append(<<x>>, y) = <<x, y>>
  <1> DEFINE S == {x, y}
  <1>1. x \in S /\ y \in S
    OBVIOUS
  <1> HIDE DEF S
  <1>2. <<x>> \in Seq(S) /\ Len(<<x>>) = 1 /\ <<x>>[1] = x
    BY <1>1
  <1>3. PICK s : s = Append(<<x>>, y)
    OBVIOUS
  <1>4. s \in Seq(S) /\ Len(s) = 2 /\ s[1] = x /\ s[2] = y
    BY <1>1, <1>2, <1>3
  <1>5. DOMAIN s = 1..2
    BY <1>4
  <1>6. s = [k \in 1..2 |-> s[k]]
    BY <1>4, <1>5
  <1>7. <<x, y>> = [k \in 1..2 |-> s[k]]
    BY <1>4
  <1> QED
    BY <1>3, <1>6, <1>7

\* What a send adds to what the host has not read.
LEMMA OutGrows ==
  ASSUME CommInv, NEW part, Out(part), UNCHANGED host
  PROVE  /\ host = "closed" => out' = out
         /\ host # "closed" => out' # <<>>
         /\ host # "closed" /\ out = <<>> => out' = <<[reply |-> Top.reply, part |-> part]>>
         /\ \A first : host # "closed" /\ out = <<first>> => out' = <<first, [reply |-> Top.reply, part |-> part]>>
         /\ ClosesFirst => ClosesFirst'
         /\ host # "closed" /\ (out = <<>> \/ ClosesFirst) /\ Top.reply \in Closing => ClosesFirst'
  <1> DEFINE e == [reply |-> Top.reply, part |-> part]
  <1>1. out \in Seq(Parts)
    BY DEF CommInv, ChannelsOK
  <1>2. out' = IF host = "closed" THEN out ELSE Append(out, e)
    BY DEF Out
  <1>3. e.reply = Top.reply
    OBVIOUS
  <1> HIDE DEF e
  <1>4. CASE host = "closed"
    BY <1>2, <1>4 DEF ClosesFirst
  <1>5. CASE host # "closed"
    <2>1. out' = Append(out, e) /\ out' # <<>>
      BY <1>1, <1>2, <1>5
    <2>2. out = <<>> => out' = <<e>> /\ out'[1] = e
      BY <2>1
    <2>3. \A first : out = <<first>> => out' = <<first, e>>
      BY <2>1, PairBuilt
    <2>4. out # <<>> => out'[1] = out[1]
      BY <1>1, <2>1
    <2> QED
      BY <1>3, <1>5, <2>1, <2>2, <2>3, <2>4 DEF ClosesFirst, e
  <1> QED
    BY <1>4, <1>5

\* The two sends of a reply, and where they lead.
LEMMA Sending ==
  ASSUME CommInv, SendId \/ SendRest
  PROVE  \E place \in {"send_rest"} \cup Nexts, part \in {"id", "rest"} :
           /\ stack # <<>> /\ Top.at \in Sends /\ Out(part)
           /\ \/ Top.at = "send_id" /\ place = "send_rest" /\ part = "id"
              \/ Top.at = "send_rest" /\ place = Top.next /\ part = "rest"
           /\ place = "aborted" => Top.next = "aborted"
           /\ Sent(place)
           /\ UNCHANGED <<host, asked, unsent, com_state, sized, id, totalSize, com_bytes_processed, FLAG_COM, fram, COM_PARAMETER, timeout>>
  <1>1. CASE SendId
    <2>1. At("send_id") /\ Out("id") /\ Sent("send_rest") /\ UNCHANGED <<hostVars, parser, session, timeout>>
      BY <1>1 DEF SendId
    <2> QED
      BY <2>1 DEF At, Sends, hostVars, parser, session
  <1>2. CASE SendRest
    <2>1. At("send_rest") /\ Out("rest") /\ Sent(Top.next) /\ UNCHANGED <<hostVars, parser, session, timeout>>
      BY <1>2 DEF SendRest
    <2>2. stack # <<>> /\ Top \in Calls
      BY <2>1, TopCall DEF At, CommInv
    <2>3. Top.next \in Nexts
      BY <2>2 DEF Calls
    <2> QED
      BY <2>1, <2>3 DEF At, Sends, hostVars, parser, session
  <1> QED
    BY <1>1, <1>2

\* Calls that have still to pick a byte, or to abort first, stay so.
LEMMA EarlySends ==
  ASSUME CommInv, AllEarly, SendId \/ SendRest
  PROVE  AllEarly'
  <1>1. PICK place \in {"send_rest"} \cup Nexts, part \in {"id", "rest"} :
           /\ stack # <<>> /\ Top.at \in Sends /\ Out(part)
           /\ \/ Top.at = "send_id" /\ place = "send_rest" /\ part = "id"
              \/ Top.at = "send_rest" /\ place = Top.next /\ part = "rest"
           /\ place = "aborted" => Top.next = "aborted"
           /\ Sent(place)
    BY Sending
  <1>2. PICK n \in Nat : n = Len(stack)
    BY TopCall, <1>1 DEF CommInv
  <1>3. PICK c : c = Now(place, Top.left, Top.reply, Top.next) /\ c.at = place /\ c.next = Top.next
    <2> DEFINE d == Now(place, Top.left, Top.reply, Top.next)
    <2>1. d.at = place /\ d.next = Top.next
      BY DEF Now
    <2> QED
      BY <2>1
  <1>4. /\ n > 0 /\ stack'[n] = c /\ \A k \in 1..n - 1 : stack'[k] = stack[k]
        /\ \/ link = <<>> /\ Len(stack') = n
           \/ link # <<>> /\ Len(stack') = n + 1 /\ stack'[n + 1] = Call(Head(link))
    BY <1>1, <1>2, <1>3, SentKeeps DEF CommInv
  <1>5. \A k \in 1..Len(stack') : \/ k \in 1..n - 1 /\ k \in 1..n
                                  \/ k = n
                                  \/ k = n + 1 /\ link # <<>>
    BY <1>4
  <1>6. Early(Top) /\ Top.next = "aborted"
    <2>1. n \in 1..Len(stack) /\ Top = stack[n]
      BY <1>2, <1>4 DEF Top
    <2> QED
      BY <1>1, <2>1 DEF AllEarly, Early, Sends
  <1>7. Early(c)
    BY <1>1, <1>3, <1>6 DEF Early, Sends
  <1>8. Early(Call(Head(link)))
    BY DEF Call, Early
  <1>9. \A k \in 1..Len(stack') : Early(stack'[k])
    BY <1>2, <1>4, <1>5, <1>7, <1>8 DEF AllEarly
  <1> QED
    BY <1>9 DEF AllEarly, Early

\* ... and after each send.
LEMMA OpeningSends ==
  ASSUME CommInv, AskedInv, asked = Init_, NEW t \in 0..Len(asked), Opening(t), SendId \/ SendRest
  PROVE  \E u \in 0..Len(asked) : Opening(u)'
  <1>1. PICK place \in {"send_rest"} \cup Nexts, part \in {"id", "rest"} :
           /\ stack # <<>> /\ Top.at \in Sends /\ Out(part)
           /\ \/ Top.at = "send_id" /\ place = "send_rest" /\ part = "id"
              \/ Top.at = "send_rest" /\ place = Top.next /\ part = "rest"
           /\ place = "aborted" => Top.next = "aborted"
           /\ Sent(place)
           /\ UNCHANGED <<host, asked, unsent, com_state, sized, id, totalSize, com_bytes_processed, FLAG_COM, fram, COM_PARAMETER, timeout>>
    BY Sending
  <1>2. PICK n \in Nat : n = Len(stack)
    BY TopCall, <1>1 DEF CommInv
  <1>3. PICK c \in Calls : /\ c = Now(place, Top.left, Top.reply, Top.next) /\ c.at = place /\ c.data = Top.data
                           /\ c.left = Top.left /\ c.reply = Top.reply /\ c.next = Top.next
    <2>1. Top \in Calls /\ StackOK
      BY <1>1, TopCall DEF CommInv
    <2>2. Top.left \in Nat /\ Top.reply \in Byte /\ Top.next \in Nexts /\ place \in Places
      BY <1>1, <2>1 DEF Calls, Nexts, Places
    <2> QED
      BY <1>1, <2>1, <2>2, NowIs
  <1>4. /\ stack' # <<>> /\ n > 0 /\ stack'[n] = c /\ \A k \in 1..n - 1 : stack'[k] = stack[k]
        /\ \/ link = <<>> /\ link' = link /\ Len(stack') = n
           \/ link # <<>> /\ link' = Tail(link) /\ Len(stack') = n + 1 /\ stack'[n + 1] = Call(Head(link))
    BY <1>1, <1>2, <1>3, SentKeeps DEF CommInv
  <1>5. /\ \A k \in 1..Len(stack') : \/ k \in 1..n - 1 /\ k \in 1..n
                                     \/ k = n
                                     \/ k = n + 1 /\ link # <<>>
    BY <1>4
  <1>6. /\ t > 0 /\ Top = stack[n]
        /\ \/ Top.data \in Seq({0})
           \/ Alone /\ HoldsFirst(t) /\ stack[1] = Top /\ Top.at \in Sends /\ Top.next = "aborted"
        /\ Confirms(Top) => Alone /\ t = Len(asked) /\ com_state = "ID" /\ Top.left = 0
        /\ ~Early(Top) => ~Cut
        /\ Unheard => Top.reply \in Closing
    BY <1>1, <1>2, OpeningTop DEF Sends
  <1>7. PICK u \in 0..Len(asked) : t <= u /\ Wired(u)' /\ (link = <<>> => u = t) /\ (link # <<>> => t < u /\ Holds(Head(link), t, u))
    <2>1. CASE link = <<>>
      <3>1. UNCHANGED <<link, asked>> /\ (host' = "closed" \/ (host # "closed" /\ unsent' = unsent))
        BY <1>1, <1>4, <2>1
      <3>2. Wired(t)' /\ t <= t
        BY <3>1, WireKept DEF Opening
      <3> QED
        BY <2>1, <3>2
    <2>2. CASE link # <<>>
      <3>1. link' = Tail(link) /\ UNCHANGED <<host, asked, unsent>>
        BY <1>1, <1>4, <2>2
      <3>2. PICK u \in 0..Len(asked) : t < u /\ Holds(Head(link), t, u) /\ Wired(u)'
        BY <2>2, <3>1, WireTaken DEF Opening
      <3>3. t <= u
        BY <3>2 DEF CommInv, ChannelsOK
      <3> QED
        BY <2>2, <3>2, <3>3
    <2> QED
      BY <2>1, <2>2
  <1>8. Len(asked) \in Nat /\ t \in Nat /\ u \in Nat /\ u # 0 /\ u <= Len(asked)
    BY <1>6, <1>7 DEF CommInv, ChannelsOK
  <1>9. link # <<>> => /\ stack'[n + 1].at = "start" /\ stack'[n + 1].data \in Seq({0})
                       /\ t # Len(asked)
    <2> SUFFICES ASSUME link # <<>>
                 PROVE  /\ stack'[n + 1].at = "start" /\ stack'[n + 1].data \in Seq({0})
                        /\ t # Len(asked)
      OBVIOUS
    <2>1. PICK p \in Seq(Byte) \ {<<>>} : p = Head(link)
      BY TakeKeeps DEF CommInv
    <2>2. Call(p).at = "start" /\ Call(p).data = p
      BY NewCall
    <2>3. p \in Seq({0})
      BY <1>6, <1>7, <1>8, <2>1, LaterZeros
    <2> QED
      BY <1>4, <1>7, <1>8, <2>1, <2>2, <2>3
  <1>10. \A k \in 1..n - 1 : stack[k].at # "start" /\ ~Alone /\ n # 1
    <2>1. \A k \in 1..n - 1 : stack[k].at # "start"
      BY <1>2 DEF CommInv, StackOK
    <2>2. \A k \in 1..n - 1 : n # 1
      BY <1>2
    <2> QED
      BY <1>2, <2>1, <2>2 DEF Alone
  <1>11. \A k \in 1..Len(stack') : stack'[k].data \in Seq({0}) \/ (k = 1 /\ HoldsFirst(u)')
    <2> SUFFICES ASSUME NEW k \in 1..Len(stack')
                 PROVE  stack'[k].data \in Seq({0}) \/ (k = 1 /\ HoldsFirst(u)')
      OBVIOUS
    <2>0. \A m \in Nat : m <= t => m <= u
      BY <1>7, <1>8
    <2>1. CASE k \in 1..n - 1 /\ k \in 1..n
      <3>1. stack'[k] = stack[k] /\ stack[k].at # "start" /\ ~Alone
        BY <1>4, <1>10, <2>1
      <3>2. CASE stack[k].data \in Seq({0})
        BY <3>1, <3>2
      <3>3. CASE k = 1 /\ HoldsFirst(t)
        <4>1. /\ stack'[1] = stack[1] /\ stack[1].at # "start" /\ Early(stack[1]) /\ Len(stack[1].data) <= t
              /\ stack[1].data \in Seq(Byte)
          <5>1. stack[k] \in Calls
            BY <1>2, <2>1 DEF CommInv, StackOK
          <5> QED
            BY <3>1, <3>3, <5>1 DEF HoldsFirst, Calls
        <4>2. Len(stack[1].data) <= u
          BY <2>0, <4>1
        <4> QED
          BY <1>1, <3>3, <4>1, <4>2 DEF HoldsFirst, Holds, Early
      <3> QED
        BY <1>2, <2>1, <3>2, <3>3 DEF Opening
    <2>2. CASE k = n
      <3>1. CASE Top.data \in Seq({0})
        BY <1>3, <1>4, <2>2, <3>1
      <3>2. CASE Alone /\ HoldsFirst(t) /\ stack[1] = Top /\ Top.at \in Sends /\ Top.next = "aborted"
        <4>1. n = 1 /\ k = 1 /\ stack'[1] = c
          BY <1>2, <1>4, <2>2, <3>2 DEF Alone
        <4>2. Early(c) /\ c.at # "start"
          BY <1>1, <1>3, <3>2 DEF Early, Sends
        <4>3. Len(c.data) <= u /\ Holds(c.data, 0, Len(c.data))
          BY <1>3, <2>0, <3>2 DEF HoldsFirst, Calls
        <4> QED
          BY <1>1, <4>1, <4>2, <4>3 DEF HoldsFirst, Holds, Early
      <3> QED
        BY <1>6, <3>1, <3>2
    <2>3. CASE k = n + 1 /\ link # <<>>
      BY <1>9, <2>3
    <2> QED
      BY <1>5, <2>1, <2>2, <2>3
  <1>12. com_state' = "ID" \/ id' = 0 \/ Cut'
    <2>1. ~InitAhead(t)
      BY <1>1 DEF InitAhead, Sends
    <2>2. CASE Cut
      <3>1. AllEarly'
        BY <2>2, EarlySends DEF Cut
      <3> QED
        BY <1>1, <2>2, <3>1 DEF Cut
    <2> QED
      BY <1>1, <2>1, <2>2 DEF Opening
  <1>13. \A k \in 1..Len(stack') : Confirms(stack'[k]) => Alone' /\ u = Len(asked') /\ com_state' = "ID" /\ Top'.left = 0
    <2> SUFFICES ASSUME NEW k \in 1..Len(stack'), Confirms(stack'[k])
                 PROVE  Alone' /\ u = Len(asked') /\ com_state' = "ID" /\ Top'.left = 0
      OBVIOUS
    <2>1. CASE k \in 1..n - 1 /\ k \in 1..n
      <3>1. Confirms(stack[k]) /\ ~Alone
        BY <1>4, <1>10, <2>1
      <3> QED
        BY <1>2, <2>1, <3>1 DEF Opening
    <2>2. CASE k = n
      <3>1. Confirms(Top)
        BY <1>1, <1>3, <1>4, <2>2 DEF Confirms, Sends, Nexts
      <3>2. Alone /\ t = Len(asked) /\ com_state = "ID" /\ Top.left = 0
        BY <1>6, <3>1
      <3>3. link = <<>>
        BY <1>9, <3>2
      <3>4. Len(stack') = 1 /\ Top' = c
        BY <1>2, <1>4, <3>2, <3>3 DEF Alone, Top
      <3> QED
        BY <1>1, <1>3, <1>7, <3>2, <3>3, <3>4 DEF Alone
    <2>3. CASE k = n + 1 /\ link # <<>>
      BY <1>9, <2>3 DEF Confirms, Sends
    <2> QED
      BY <1>5, <2>1, <2>2, <2>3
  <1>14. Unheard' \/ Accepted(u)'
    <2>1. ASSUME Unheard PROVE Unheard'
      <3>1. \A k \in 1..Len(stack') : stack'[k].at \in Sends => stack'[k].reply \in Closing
        <4>1. \A k \in 1..n - 1 : k \in 1..Len(stack)
          BY <1>2
        <4>2. Top.reply \in Closing
          BY <1>6, <2>1
        <4>3. link # <<>> => stack'[n + 1].at \notin Sends
          BY <1>9 DEF Sends
        <4> QED
          BY <1>3, <1>4, <1>5, <2>1, <4>1, <4>2, <4>3 DEF Unheard
      <3>2. out' = <<>> \/ ClosesFirst'
        BY <1>1, <1>6, <2>1, OutGrows DEF Unheard
      <3> QED
        BY <1>1, <2>1, <3>1, <3>2 DEF Unheard
    <2>2. ASSUME Accepted(t) PROVE Accepted(u)'
      <3>1. /\ t = Len(asked) /\ FLAG_COM /\ com_state = "ID" /\ Len(stack) <= 1 /\ Top.left = 0 /\ Top.next = "after"
            /\ Top.reply = COM_OK
        BY <1>1, <2>2 DEF Accepted
      <3>2. link = <<>> /\ u = t
        BY <1>7, <1>9, <3>1
      <3>3. Len(stack') <= 1 /\ Top' = c
        BY <1>2, <1>4, <3>1, <3>2 DEF Top
      <3>4. host # "open"
        BY <1>1, <2>2 DEF Accepted, Sends
      <3>5. c.at \in {"send_rest", "after"} /\ (c.at \in Sends => c.reply = COM_OK) /\ c.left = 0 /\ c.next = "after"
        BY <1>1, <1>3, <3>1 DEF Sends
      <3>6. ASSUME host = "opening"
            PROVE  \/ ClosesFirst'
                   \/ c.at = "send_rest" /\ out' = Half(COM_OK)
                   \/ c.at = "after" /\ out' = Full(COM_OK)
        <4>1. CASE ClosesFirst
          BY <1>1, <3>6, <4>1, OutGrows
        <4>2. CASE Top.at = "send_id" /\ out = <<>>
          BY <1>1, <1>3, <3>1, <3>6, <4>2, OutGrows DEF Half
        <4>3. CASE Top.at = "send_rest" /\ out = Half(COM_OK)
          <5>1. out' = <<[reply |-> COM_OK, part |-> "id"], [reply |-> COM_OK, part |-> "rest"]>>
            BY <1>1, <3>1, <3>6, <4>3, OutGrows DEF Half
          <5> QED
            BY <1>1, <1>3, <3>1, <4>3, <5>1 DEF Full
        <4>4. Top.at # "after"
          BY <1>1 DEF Sends
        <4> QED
          BY <1>1, <2>2, <3>6, <4>1, <4>2, <4>3, <4>4 DEF Accepted, At
      <3> QED
        BY <1>1, <1>4, <3>1, <3>2, <3>3, <3>4, <3>5, <3>6 DEF Accepted, At
    <2> QED
      BY <2>1, <2>2 DEF Opening
  <1> QED
    BY <1>7, <1>8, <1>11, <1>12, <1>13, <1>14 DEF Opening
-----------------------------------------------------------------------------
\* The running call goes to another place with the zeros that it has.
LEMMA OpeningGoes ==
  ASSUME CommInv, NEW t \in 0..Len(asked), Opening(t), stack # <<>>,
         NEW place \in Places, NEW left \in Nat, NEW reply \in Byte, NEW next \in Nexts,
         Become(Now(place, left, reply, next)), UNCHANGED <<host, asked, unsent, link, out>>,
         Top.data \in Seq({0}),
         com_state' = "ID" \/ id' = 0 \/ Cut',
         place \in {"confirm", "init_aborted"} \/ (place \in Sends /\ next = "init_aborted")
           => Alone /\ t = Len(asked) /\ com_state' = "ID" /\ left = 0,
         Accepted(t)' \/ (Unheard /\ (place \in Sends => reply \in Closing))
  PROVE  Opening(t)'
  <1>1. PICK c \in Calls : /\ c = Now(place, left, reply, next) /\ c.at = place /\ c.data = Top.data
                           /\ c.left = left /\ c.reply = reply /\ c.next = next
    BY NowIs DEF CommInv
  <1>2. Confirms(c) => Alone /\ t = Len(asked) /\ com_state' = "ID" /\ c.left = 0
    BY <1>1 DEF Confirms
  <1> QED
    BY <1>1, <1>2, OpeningBecomes

\* The start of a call.
LEMMA OpeningStart ==
  ASSUME CommInv, asked = Init_, NEW t \in 0..Len(asked), Opening(t), Start
  PROVE  Opening(t)'
  <1>1. /\ stack # <<>> /\ Top.at = "start" /\ UNCHANGED <<host, asked, unsent, link, out, com_state, id, sized, totalSize, com_bytes_processed>>
    BY DEF Start, At, hostVars, parser
  <1>2. /\ Top \in Calls /\ Top.left \in Nat /\ Top.reply \in Byte /\ Top.next \in Nexts /\ StackOK
        /\ Len(stack) \in Nat /\ Len(stack) > 0
    BY <1>1, TopCall DEF CommInv, Calls
  <1>3. /\ Top.data \in Seq({0}) \/ (Alone /\ HoldsFirst(t) /\ stack[1] = Top)
        /\ ~Early(Top) => ~Cut
    BY <1>1, OpeningTop
  <1>4. Unheard
    <2>1. ~Accepted(t)
      BY <1>1 DEF Accepted
    <2> QED
      BY <2>1 DEF Opening
  <1>5. CASE timeout /\ com_state # "ID"
    <2>1. Become(Now("send_id", Top.left, COM_END, "aborted")) /\ timeout' = timeout
      BY <1>5 DEF Start, Send
    <2>2. PICK c \in Calls : /\ c = Now("send_id", Top.left, COM_END, "aborted") /\ c.at = "send_id" /\ c.data = Top.data
                             /\ c.left = Top.left /\ c.reply = COM_END /\ c.next = "aborted"
      <3>1. COM_END \in Byte /\ "aborted" \in Nexts /\ "send_id" \in Places
        BY Replies DEF Places, Nexts
      <3> QED
        BY <1>1, <1>2, <3>1, NowIs
    <2>3. Early(c)
      BY <2>2 DEF Early, Sends
    <2>4. Alone => Len(stack') = 1 /\ stack'[1] = c /\ stack' # <<>>
      BY <1>1, <1>2, <2>1, <2>2, LastReplaced DEF Alone, Become, StackOK
    <2>5. c.data \in Seq({0}) \/ (Alone /\ HoldsFirst(t)')
      <3>1. CASE Alone /\ HoldsFirst(t) /\ stack[1] = Top
        BY <1>1, <2>2, <2>3, <2>4, <3>1 DEF HoldsFirst, Holds, Early
      <3> QED
        BY <1>3, <2>2, <3>1
    <2>6. id' = 0 \/ Cut' \/ (id' = COM_INIT /\ InitAhead(t)')
      <3>1. CASE InitAhead(t)
        <4>1. Alone
          <5>1. Len(stack) <= 1
            BY <3>1 DEF InitAhead
          <5> QED
            BY <1>1, <5>1, AloneIs
        <4>2. \A k \in 1..Len(stack') : k = 1
          <5>1. Len(stack') = 1
            BY <2>4, <4>1
          <5> QED
            BY <5>1
        <4> QED
          BY <1>1, <1>5, <2>1, <2>3, <2>4, <4>1, <4>2 DEF Cut, AllEarly, Early
      <3>2. CASE Cut
        <4>1. stack \in Seq(Calls)
          BY <1>2 DEF StackOK
        <4>2. stack' = [stack EXCEPT ![Len(stack)] = c]
          BY <2>1, <2>2 DEF Become
        <4>3. /\ Len(stack') = Len(stack) /\ stack'[Len(stack)] = c
              /\ \A k \in 1..Len(stack) - 1 : stack'[k] = stack[k]
          BY <1>1, <4>1, <4>2, LastReplaced
        <4>4. \A k \in 1..Len(stack) : k = Len(stack) \/ k \in 1..Len(stack) - 1
          BY <1>2
        <4>5. \A k \in 1..Len(stack) : Early(stack'[k])
          BY <2>3, <3>2, <4>3, <4>4 DEF Cut, AllEarly
        <4>6. AllEarly'
          BY <4>3, <4>5 DEF AllEarly, Early
        <4> QED
          BY <1>1, <2>1, <3>2, <4>6 DEF Cut
      <3> QED
        BY <1>1, <1>5, <3>1, <3>2 DEF Opening
    <2>7. ~Confirms(c)
      BY <2>2 DEF Confirms
    <2>8. c.reply \in Closing
      BY <2>2 DEF Closing
    <2> QED
      BY <1>1, <1>4, <2>1, <2>2, <2>5, <2>6, <2>7, <2>8, OpeningBecomes
  <1>6. CASE ~(timeout /\ com_state # "ID")
    <2>1. Goto("loop") /\ timeout' = FALSE
      BY <1>6 DEF Start
    <2>2. Become(Now("loop", Top.left, Top.reply, Top.next))
      BY <1>1, <1>2, <2>1, CallChanged DEF Goto
    <2>3. PICK c \in Calls : /\ c = Now("loop", Top.left, Top.reply, Top.next) /\ c.at = "loop" /\ c.data = Top.data
                             /\ c.left = Top.left /\ c.reply = Top.reply /\ c.next = Top.next
      BY <1>1, <1>2, NowIs DEF Places
    <2>4. Len(stack') = Len(stack) /\ stack'[Len(stack)] = c /\ stack' # <<>> /\ Top' = c
      BY <1>1, <1>2, <2>2, <2>3, LastReplaced DEF Become, StackOK, Top
    <2>5. c.data \in Seq({0}) \/ (Alone /\ HoldsFirst(t)')
      <3>1. CASE Alone /\ HoldsFirst(t) /\ stack[1] = Top
        <4>1. com_state = "ID" \/ timeout
          BY <1>1, <3>1 DEF HoldsFirst
        <4>2. com_state' = "ID" /\ Alone' /\ stack'[1] = c
          BY <1>1, <1>6, <2>4, <3>1, <4>1 DEF Alone
        <4> QED
          BY <1>1, <2>3, <3>1, <4>2 DEF HoldsFirst, Holds, Alone
      <3> QED
        BY <1>3, <2>3, <3>1
    <2>6. com_state' = "ID" \/ id' = 0 \/ (id' = COM_INIT /\ InitAhead(t)')
      <3>1. CASE InitAhead(t)
        <4>1. Unread' = Unread
          BY <1>1, <2>3, <2>4 DEF Unread
        <4>2. com_state # "DATA"
          BY <1>1, <3>1 DEF InitAhead, At
        <4>3. Len(stack') <= 1 /\ Top'.at = "loop"
          BY <2>3, <2>4, <3>1 DEF InitAhead
        <4>4. InitAhead(t)'
          BY <1>1, <3>1, <4>1, <4>2, <4>3 DEF InitAhead
        <4> QED
          BY <1>1, <1>6, <4>4 DEF Opening, Cut
      <3>2. CASE ~InitAhead(t)
        BY <1>1, <1>6, <3>2 DEF Opening, Cut
      <3> QED
        BY <3>1, <3>2
    <2>7. ~Confirms(c) /\ c.at \notin Sends
      BY <2>3 DEF Confirms, Sends
    <2> QED
      BY <1>1, <1>4, <2>2, <2>3, <2>5, <2>6, <2>7, OpeningBecomes
  <1> QED
    BY <1>5, <1>6

\* The return of com_abort to com_process_data.
LEMMA OpeningAborted ==
  ASSUME CommInv, NEW t \in 0..Len(asked), Opening(t), Aborted
  PROVE  Opening(t)'
  <1>1. /\ stack # <<>> /\ Top.at = "aborted" /\ UNCHANGED <<host, asked, unsent, link, out>>
        /\ com_state' = "ID" /\ Goto("loop")
    BY DEF Aborted, At, hostVars
  <1>2. /\ Top \in Calls /\ Top.left \in Nat /\ Top.reply \in Byte /\ Top.next \in Nexts /\ StackOK
    BY <1>1, TopCall DEF CommInv, Calls
  <1>3. Top.data \in Seq({0}) \/ (Alone /\ HoldsFirst(t) /\ stack[1] = Top)
    BY <1>1, OpeningTop
  <1>4. Become(Now("loop", Top.left, Top.reply, Top.next))
    BY <1>1, <1>2, CallChanged DEF Goto
  <1>5. PICK c \in Calls : /\ c = Now("loop", Top.left, Top.reply, Top.next) /\ c.at = "loop" /\ c.data = Top.data
                           /\ c.left = Top.left /\ c.reply = Top.reply /\ c.next = Top.next
    BY <1>1, <1>2, NowIs DEF Places
  <1>6. Len(stack') = Len(stack) /\ stack'[Len(stack)] = c
    BY <1>1, <1>2, <1>4, <1>5, LastReplaced DEF Become, StackOK
  <1>7. c.data \in Seq({0}) \/ (Alone /\ HoldsFirst(t)')
    <2>1. CASE Alone /\ HoldsFirst(t) /\ stack[1] = Top
      <3>1. Alone' /\ stack'[1] = c
        BY <1>6, <2>1 DEF Alone
      <3> QED
        BY <1>1, <1>5, <2>1, <3>1 DEF HoldsFirst, Holds, Alone
    <2> QED
      BY <1>3, <1>5, <2>1
  <1>8. ~Confirms(c) /\ c.at \notin Sends
    BY <1>5 DEF Confirms, Sends
  <1>9. Unheard
    <2>1. ~Accepted(t)
      BY <1>1 DEF Accepted, Sends
    <2> QED
      BY <2>1 DEF Opening
  <1> QED
    BY <1>1, <1>4, <1>5, <1>7, <1>8, <1>9, OpeningBecomes

\* A byte picked.
LEMMA PickedIs ==
  ASSUME CommInv, stack # <<>>, At("loop"), Top.left > 0, Picked
  PROVE  \E c \in Calls :
           /\ Become(c) /\ c.at = "loop" /\ c.data = Tail(Top.data) /\ c.left = Top.left - 1
           /\ Len(stack') = Len(stack) /\ stack'[Len(stack)] = c /\ stack' # <<>> /\ Top' = c
           /\ Top.data \in Seq(Byte) /\ Top.data # <<>> /\ Top.left \in Nat /\ Top.left <= Len(Top.data)
  <1>1. Top \in Calls /\ Top.left <= Len(Top.data) /\ stack \in Seq(Calls)
    BY TopCall DEF CommInv, StackOK
  <1>2. /\ Top.data \in Seq(Byte) /\ Top.data # <<>> /\ Top.left \in Nat /\ Top.left - 1 \in Nat
        /\ Tail(Top.data) \in Seq(Byte) /\ "loop" \in Places
    <2>1. Top.data \in Seq(Byte) /\ Top.left \in Nat /\ Top.data # <<>>
      BY <1>1 DEF Calls
    <2> QED
      BY <1>1, <2>1, FirstRemoved DEF Places
  <1> DEFINE call == [at |-> "loop", data |-> Tail(Top.data), left |-> Top.left - 1, reply |-> Top.reply, next |-> Top.next]
  <1>3. call \in Calls /\ call.at = "loop" /\ call.data = Tail(Top.data) /\ call.left = Top.left - 1
    BY <1>1, <1>2 DEF Calls
  <1>4. Become(call)
    BY DEF Picked
  <1> HIDE DEF call
  <1>5. stack' = [stack EXCEPT ![Len(stack)] = call]
    BY <1>4 DEF Become
  <1>6. Len(stack') = Len(stack) /\ stack'[Len(stack)] = call /\ stack' # <<>>
    BY <1>1, <1>3, <1>5, LastReplaced
  <1>7. Top' = call
    BY <1>6 DEF Top
  <1> QED
    BY <1>1, <1>2, <1>3, <1>4, <1>6, <1>7

\* A byte of the header.
LEMMA OpeningHeader ==
  ASSUME CommInv, AskedInv, asked = Init_, NEW t \in 0..Len(asked), Opening(t), ReadId \/ ReadSize
  PROVE  Opening(t)'
  <1>1. /\ stack # <<>> /\ At("loop") /\ Top.at = "loop" /\ UNCHANGED <<host, asked, unsent, link, out, timeout>> /\ Picked
        /\ Top.left > 0
    BY DEF ReadId, ReadSize, At, hostVars, CommInv, LoopOK
  <1>2. PICK c \in Calls : /\ Become(c) /\ c.at = "loop" /\ c.data = Tail(Top.data) /\ c.left = Top.left - 1
           /\ Len(stack') = Len(stack) /\ stack'[Len(stack)] = c /\ stack' # <<>> /\ Top' = c
           /\ Top.data \in Seq(Byte) /\ Top.data # <<>> /\ Top.left \in Nat /\ Top.left <= Len(Top.data)
    BY <1>1, PickedIs
  <1>3. /\ t > 0 /\ ~Cut
        /\ \/ Top.data \in Seq({0})
           \/ Alone /\ HoldsFirst(t) /\ stack[1] = Top /\ com_state = "ID"
    BY <1>1, OpeningTop DEF Early, Sends, HoldsFirst
  <1>4. /\ Head(Top.data) = Top.data[1] /\ 1 \in 1..Len(Top.data) /\ Len(Tail(Top.data)) = Len(Top.data) - 1
        /\ \A k \in 1..Len(Tail(Top.data)) : Tail(Top.data)[k] = Top.data[k + 1] /\ k + 1 \in 1..Len(Top.data)
        /\ Tail(Top.data) \in Seq(Byte)
    BY <1>2, FirstRemoved
  <1>5. Top.data \in Seq({0}) => c.data \in Seq({0}) /\ Head(Top.data) = 0
    BY <1>2, <1>4
  <1>6. Alone /\ HoldsFirst(t) /\ stack[1] = Top => c.data \in Seq({0}) /\ Head(Top.data) = COM_INIT
    <2> SUFFICES ASSUME HoldsFirst(t), stack[1] = Top
                 PROVE  c.data \in Seq({0}) /\ Head(Top.data) = COM_INIT
      OBVIOUS
    <2>1. /\ \A k \in 1..Len(Top.data) : Top.data[k] = asked[0 + k]
          /\ Len(Top.data) <= t
      BY DEF HoldsFirst, Holds
    <2>2. Top.data[1] = COM_INIT
      BY <1>4, <2>1, InitBytesAre
    <2>3. \A k \in 1..Len(Tail(Top.data)) : 0 + (k + 1) \in 2..Len(Init_)
      BY <1>2, <1>4, <2>1, InitBytesAre, Numbers
    <2>4. \A k \in 1..Len(Tail(Top.data)) : Tail(Top.data)[k] = 0
      BY <1>4, <2>1, <2>3, InitBytesAre
    <2>5. Tail(Top.data) \in Seq({0})
      <3>1. PICK rest \in Seq(Byte) : rest = Tail(Top.data)
        BY <1>4
      <3>2. \A k \in 1..Len(rest) : rest[k] = 0
        BY <2>4, <3>1
      <3>3. rest \in Seq({0})
        BY <3>2
      <3> QED
        BY <3>1, <3>3
    <2> QED
      BY <1>2, <1>4, <2>2, <2>5
  <1>7. c.data \in Seq({0})
    BY <1>3, <1>5, <1>6
  <1>8. ~Confirms(c) /\ c.at \notin Sends
    BY <1>2 DEF Confirms, Sends
  <1>9. Unheard
    <2>1. ~Accepted(t)
      BY <1>1 DEF Accepted, Sends
    <2> QED
      BY <2>1 DEF Opening
  <1>10. /\ Len(asked) \in Nat /\ Len(asked) = 1 + SIZE_BYTES /\ t \in Nat /\ t <= Len(asked) /\ SIZE_BYTES \in Nat
         /\ Len(stack) \in Nat /\ Unread = Top.left /\ Unread' = Top.left - 1 /\ sized \in Nat
    BY <1>1, <1>2, InitBytesAre, Numbers DEF Unread, CommInv, StackOK, VariablesOK
  <1>11. CASE ReadId
    <2>1. id' = Head(Top.data) /\ com_state' = "SIZE" /\ sized' = 0
      BY <1>11 DEF ReadId
    <2>2. CASE Top.data \in Seq({0})
      BY <1>1, <1>2, <1>5, <1>7, <1>8, <1>9, <2>1, <2>2, OpeningBecomes
    <2>3. CASE Alone /\ HoldsFirst(t) /\ stack[1] = Top
      <3>1. Len(stack') <= 1 /\ Top'.at = "loop"
        BY <1>2, <2>3 DEF Alone
      <3>2. Len(Top.data) <= t
        BY <2>3 DEF HoldsFirst
      <3>3. Len(Top.data) \in Nat
        BY <1>2
      <3>4. Unread' + (Len(asked) - t) + 0 <= SIZE_BYTES
        BY <1>2, <1>10, <3>2, <3>3
      <3>5. InitAhead(t)'
        BY <1>1, <2>1, <3>1, <3>4 DEF InitAhead
      <3> QED
        BY <1>1, <1>2, <1>6, <1>7, <1>8, <1>9, <2>1, <2>3, <3>5, OpeningBecomes
    <2> QED
      BY <1>3, <2>2, <2>3
  <1>12. CASE ReadSize
    <2>1. /\ com_state = "SIZE" /\ id' = id
          /\ totalSize' = IF sized = 0 THEN Head(Top.data) ELSE totalSize + Shifted(Head(Top.data), sized)
          /\ sized' = sized + 1
          /\ IF sized' = SIZE_BYTES
             THEN com_state' = "DATA" /\ com_bytes_processed' = 0
             ELSE UNCHANGED <<com_state, com_bytes_processed>>
      BY <1>12 DEF ReadSize
    <2>2. Head(Top.data) = 0
      BY <1>3, <1>5, <2>1
    <2>3. CASE id = 0
      BY <1>1, <1>2, <1>7, <1>8, <1>9, <2>1, <2>3, OpeningBecomes
    <2>4. CASE id = COM_INIT /\ InitAhead(t)
      <3>1. /\ Len(stack') <= 1 /\ Top'.at = "loop" /\ At("loop")'
            /\ Unread + (Len(asked) - t) + sized <= SIZE_BYTES /\ (sized > 0 => totalSize = 0)
        BY <1>2, <2>1, <2>4 DEF InitAhead, At
      <3>2. sized \in {0, 1, 2}
        BY <2>1, Numbers DEF CommInv, VariablesOK
      <3>3. Shifted(0, sized) = 0
        <4>1. <<1, 256, 65536>>[sized + 1] \in {1, 256, 65536}
          <5>1. CASE sized = 0
            BY <5>1
          <5>2. CASE sized = 1
            BY <5>2
          <5>3. CASE sized = 2
            BY <5>3
          <5> QED
            BY <3>2, <5>1, <5>2, <5>3
        <4>2. \A m \in {1, 256, 65536} : 0 * m = 0
          OBVIOUS
        <4> QED
          BY <4>1, <4>2 DEF Shifted
      <3>4. totalSize' = 0
        BY <1>10, <2>1, <2>2, <3>1, <3>3
      <3>5. Unread' + (Len(asked) - t) + sized' <= SIZE_BYTES
        BY <1>2, <1>10, <2>1, <3>1
      <3>6. com_state' = "DATA" => Top'.left = 0 /\ t = Len(asked) /\ com_bytes_processed' = 0
        <4> SUFFICES ASSUME com_state' = "DATA"
                     PROVE  Top'.left = 0 /\ t = Len(asked) /\ com_bytes_processed' = 0
          OBVIOUS
        <4>1. sized' = SIZE_BYTES /\ com_bytes_processed' = 0
          BY <2>1
        <4>2. Unread' \in Nat /\ Unread' = Top'.left
          BY <1>1, <1>2, <1>10
        <4>3. Unread' = 0 /\ t = Len(asked)
          <5>1. PICK m \in Nat : m = Unread'
            BY <4>2
          <5>2. PICK behind \in Nat : behind = Len(asked) - t
            BY <1>10
          <5>3. m + behind + SIZE_BYTES <= SIZE_BYTES
            BY <3>5, <4>1, <5>1, <5>2
          <5>4. m = 0 /\ behind = 0
            BY <1>10, <5>3
          <5> QED
            BY <1>10, <5>1, <5>2, <5>4
        <4> QED
          BY <4>1, <4>2, <4>3
      <3>7. InitAhead(t)'
        BY <1>1, <3>1, <3>4, <3>5, <3>6 DEF InitAhead
      <3> QED
        BY <1>1, <1>2, <1>7, <1>8, <1>9, <2>1, <2>4, <3>7, OpeningBecomes
    <2> QED
      BY <1>3, <2>1, <2>3, <2>4 DEF Opening
  <1> QED
    BY <1>11, <1>12
-----------------------------------------------------------------------------
\* The end of a call.
LEMMA OpeningReturns ==
  ASSUME CommInv, NEW t \in 0..Len(asked), Opening(t), stack # <<>>, Top.left = 0,
         (Top.at = "loop" /\ com_state = "SIZE") \/ Top.at = "after", Return,
         UNCHANGED <<host, asked, unsent, link, out, com_state, sized, id, totalSize, com_bytes_processed, FLAG_COM, timeout>>
  PROVE  Opening(t)'
  <1>1. /\ stack \in Seq(Calls) /\ Len(stack) \in Nat /\ Len(stack) > 0
        /\ Len(stack') = Len(stack) - 1
        /\ \A k \in 1..Len(stack') : stack'[k] = stack[k] /\ stack[k].at \notin {"start", "loop"}
    BY ReturnKeeps DEF CommInv, StackOK
  <1>2. /\ t > 0 /\ ~Cut
    BY OpeningTop DEF Early, Sends
  <1>3. \A k \in 1..Len(stack') : k \in 1..Len(stack) /\ ~Alone
    <2>1. \A k \in 1..Len(stack') : k \in 1..Len(stack)
      BY <1>1
    <2>2. \A k \in 1..Len(stack') : Len(stack) # 1
      <3> SUFFICES ASSUME Len(stack) = 1 PROVE \A k \in 1..Len(stack') : FALSE
        OBVIOUS
      <3>1. Len(stack') = 0
        BY <1>1
      <3> QED
        BY <3>1
    <2> QED
      BY <2>1, <2>2 DEF Alone
  <1>4. Wired(t)'
    <2>1. host' = "closed" \/ (host # "closed" /\ unsent' = unsent)
      OBVIOUS
    <2> QED
      BY <2>1, WireKept DEF Opening
  <1>5. \A k \in 1..Len(stack') : stack'[k].data \in Seq({0}) \/ (k = 1 /\ HoldsFirst(t)')
    <2> SUFFICES ASSUME NEW k \in 1..Len(stack')
                 PROVE  stack'[k].data \in Seq({0}) \/ (k = 1 /\ HoldsFirst(t)')
      OBVIOUS
    <2>1. CASE k = 1 /\ HoldsFirst(t)
      <3>1. stack'[1] = stack[1] /\ stack[1].at # "start" /\ Early(stack[1])
        BY <1>1, <1>3, <2>1 DEF HoldsFirst
      <3> QED
        BY <2>1, <3>1 DEF HoldsFirst, Holds, Early
    <2> QED
      BY <1>1, <1>3, <2>1 DEF Opening
  <1>6. com_state' = "ID" \/ id' = 0 \/ (id' = COM_INIT /\ InitAhead(t)')
    <2>1. CASE InitAhead(t)
      <3>1. Len(stack) <= 1
        BY <2>1 DEF InitAhead
      <3>2. Len(stack') = 0
        BY <1>1, <3>1
      <3>3. stack' = <<>>
        <4>1. stack' \in Seq(Calls)
          BY <1>1, LastRemoved DEF Return
        <4> QED
          BY <3>2, <4>1
      <3>4. Top.at = "loop" /\ com_state = "SIZE"
        BY <2>1 DEF InitAhead
      <3>5. Unread' = 0 /\ Unread = 0
        BY <3>3 DEF Unread
      <3>6. InitAhead(t)'
        BY <2>1, <3>2, <3>3, <3>4, <3>5 DEF InitAhead
      <3> QED
        BY <1>2, <3>6 DEF Opening
    <2>2. CASE ~InitAhead(t)
      BY <1>2, <2>2 DEF Opening
    <2> QED
      BY <2>1, <2>2
  <1>7. \A k \in 1..Len(stack') : ~Confirms(stack'[k])
    BY <1>1, <1>3 DEF Opening
  <1>8. Unheard' \/ Accepted(t)'
    <2>1. ASSUME Unheard PROVE Unheard'
      <3>1. \A k \in 1..Len(stack') : stack'[k].at \in Sends => stack'[k].reply \in Closing
        BY <1>1, <1>3, <2>1 DEF Unheard
      <3> QED
        BY <2>1, <3>1 DEF Unheard, ClosesFirst
    <2>2. ASSUME Accepted(t) PROVE Accepted(t)'
      <3>1. Len(stack) <= 1 /\ Top.at = "after"
        BY <2>2 DEF Accepted, Sends
      <3>2. Len(stack') = 0
        BY <1>1, <3>1
      <3>3. stack' = <<>>
        <4>1. stack' \in Seq(Calls)
          BY <1>1, LastRemoved DEF Return
        <4> QED
          BY <3>2, <4>1
      <3>4. host = "opening" => ClosesFirst \/ out = Full(COM_OK)
        BY <2>2, <3>1 DEF Accepted, At
      <3>5. host = "open" => out = <<>>
        BY <2>2 DEF Accepted
      <3> QED
        BY <2>2, <3>2, <3>3, <3>4, <3>5 DEF Accepted, ClosesFirst
    <2> QED
      BY <2>1, <2>2 DEF Opening
  <1> QED
    BY <1>2, <1>4, <1>5, <1>6, <1>7, <1>8 DEF Opening, Confirms

\* The end of com_process_data, or its next turn.
LEMMA OpeningEnds ==
  ASSUME CommInv, NEW t \in 0..Len(asked), Opening(t), SizeMissing \/ After
  PROVE  Opening(t)'
  <1>1. /\ stack # <<>>
        /\ (Top.at = "loop" /\ com_state = "SIZE" /\ Top.left = 0 /\ Return) \/ Top.at = "after"
        /\ UNCHANGED <<host, asked, unsent, link, out, com_state, sized, id, totalSize, com_bytes_processed, FLAG_COM, timeout>>
    BY DEF SizeMissing, After, At, hostVars, parser, session
  <1>2. /\ Top \in Calls /\ Top.left \in Nat /\ Top.reply \in Byte /\ Top.next \in Nexts /\ StackOK
    BY <1>1, TopCall DEF CommInv, Calls
  <1>3. CASE After /\ Top.left > 0
    <2>1. Goto("loop") /\ Top.at = "after"
      BY <1>3 DEF After, At
    <2>2. Become(Now("loop", Top.left, Top.reply, Top.next))
      BY <1>1, <1>2, <2>1, CallChanged DEF Goto
    <2>3. Top.data \in Seq({0}) /\ ~Cut
      BY <1>1, <2>1, OpeningTop DEF Early, Sends
    <2>4. ~InitAhead(t)
      BY <1>1, <2>1 DEF InitAhead
    <2>5. ~Accepted(t)
      BY <1>1, <1>3 DEF Accepted
    <2>6. "loop" \in Places /\ "loop" \notin Sends
      BY DEF Places, Sends
    <2> QED
      BY <1>1, <1>2, <2>2, <2>3, <2>4, <2>5, <2>6, OpeningGoes DEF Opening
  <1>4. CASE ~(After /\ Top.left > 0)
    <2>1. Return /\ Top.left = 0
      BY <1>2, <1>4 DEF After, SizeMissing
    <2> QED
      BY <1>1, <2>1, OpeningReturns
  <1> QED
    BY <1>3, <1>4

\* The user's answer, and the returns of com_abort to a command.
LEMMA OpeningAnswered ==
  ASSUME CommInv, NEW t \in 0..Len(asked), Opening(t), ConfirmYes \/ ConfirmNo \/ InitAborted \/ UnknownAborted
  PROVE  Opening(t)'
  <1>1. /\ stack # <<>> /\ Top.at \in {"confirm", "init_aborted", "unknown_aborted"}
        /\ UNCHANGED <<host, asked, unsent, link, out, com_state, sized, id, totalSize, com_bytes_processed, timeout>>
    BY DEF ConfirmYes, ConfirmNo, InitAborted, UnknownAborted, At, hostVars, parser
  <1>2. /\ Top \in Calls /\ Top.left \in Nat /\ Top.reply \in Byte /\ Top.next \in Nexts /\ StackOK
        /\ {"confirm", "after", "send_id"} \subseteq Places /\ "after" \in Nexts
    BY <1>1, TopCall DEF CommInv, Calls, Places, Nexts
  <1>3. Top.data \in Seq({0}) /\ ~Cut /\ (Confirms(Top) => Alone /\ t = Len(asked) /\ com_state = "ID" /\ Top.left = 0)
    BY <1>1, OpeningTop DEF Early, Sends
  <1>4. com_state' = "ID" \/ id' = 0
    <2>1. ~InitAhead(t)
      BY <1>1 DEF InitAhead
    <2> QED
      BY <1>1, <1>3, <2>1 DEF Opening
  <1>5. Unheard
    <2>1. ~Accepted(t)
      BY <1>1 DEF Accepted, Sends
    <2> QED
      BY <2>1 DEF Opening
  <1>6. CASE ConfirmYes
    <2>1. host = "opening" /\ FLAG_COM' = TRUE /\ Become(Now("send_id", Top.left, COM_OK, "after")) /\ Top.at = "confirm"
      BY <1>6 DEF ConfirmYes, Send, At
    <2>2. Alone /\ t = Len(asked) /\ com_state = "ID" /\ Top.left = 0
      BY <1>3, <2>1 DEF Confirms
    <2>3. COM_OK \in Byte
      BY Replies
    <2>4. PICK c \in Calls : /\ c = Now("send_id", Top.left, COM_OK, "after") /\ c.at = "send_id"
                             /\ c.left = Top.left /\ c.reply = COM_OK /\ c.next = "after"
      BY <1>1, <1>2, <2>3, NowIs
    <2>5. Len(stack') = 1 /\ stack' # <<>> /\ Top' = c
      BY <1>1, <1>2, <2>1, <2>2, <2>4, LastReplaced DEF Become, StackOK, Top, Alone
    <2>6. Accepted(t)'
      <3>1. out = <<>> \/ ClosesFirst
        BY <1>5 DEF Unheard
      <3>2. At("send_id")' /\ FLAG_COM'
        BY <2>1, <2>4, <2>5 DEF At
      <3>3. host' = "opening" /\ out' = out
        BY <1>1, <2>1
      <3> QED
        BY <1>1, <2>1, <2>2, <2>4, <2>5, <3>1, <3>2, <3>3 DEF Accepted, Sends, ClosesFirst
    <2> QED
      BY <1>1, <1>2, <1>3, <1>4, <2>1, <2>3, <2>6, OpeningGoes
  <1>7. CASE ConfirmNo
    <2>1. Become(Now("send_id", Top.left, COM_END, "after"))
      BY <1>7 DEF ConfirmNo, Send
    <2>2. COM_END \in Byte /\ COM_END \in Closing
      BY Replies DEF Closing
    <2> QED
      BY <1>1, <1>2, <1>3, <1>4, <1>5, <2>1, <2>2, OpeningGoes
  <1>8. CASE InitAborted
    <2>1. Goto("confirm") /\ Top.at = "init_aborted"
      BY <1>8 DEF InitAborted, At
    <2>2. Become(Now("confirm", Top.left, Top.reply, Top.next))
      BY <1>1, <1>2, <2>1, CallChanged DEF Goto
    <2>3. Alone /\ t = Len(asked) /\ com_state = "ID" /\ Top.left = 0 /\ "confirm" \notin Sends
      BY <1>3, <2>1 DEF Confirms, Sends
    <2> QED
      BY <1>1, <1>2, <1>3, <1>4, <1>5, <2>2, <2>3, OpeningGoes
  <1>9. CASE UnknownAborted
    <2>1. Goto("after")
      BY <1>9 DEF UnknownAborted
    <2>2. Become(Now("after", Top.left, Top.reply, Top.next))
      BY <1>1, <1>2, <2>1, CallChanged DEF Goto
    <2>3. "after" \notin Sends
      BY DEF Sends
    <2> QED
      BY <1>1, <1>2, <1>3, <1>4, <1>5, <2>2, <2>3, OpeningGoes
  <1> QED
    BY <1>6, <1>7, <1>8, <1>9

\* The wallet leaves the bus: nothing is on its way.
LEMMA OpeningReset ==
  ASSUME CommInv, asked = Init_, Reset
  PROVE  \E u \in 0..Len(asked) : Opening(u)'
  <1>1. /\ stack' = <<>> /\ link' = <<>> /\ out' = <<>> /\ host' = "closed" /\ asked' = asked /\ com_state' = "ID"
    BY DEF Reset
  <1>2. Len(asked) \in Nat /\ Len(asked) # 0
    BY InitBytesAre, Numbers
  <1>3. Wired(Len(asked))'
    <2>1. Len(link') = 0
      BY <1>1
    <2>2. PICK cut \in [1..1 -> 0..Len(asked)] : cut[1] = Len(asked)
      <3> DEFINE f == [k \in 1..1 |-> Len(asked)]
      <3>1. f \in [1..1 -> 0..Len(asked)] /\ f[1] = Len(asked)
        BY <1>2
      <3> QED
        BY <3>1
    <2>3. OnWire(cut)'
      <3>1. \A k \in 1..Len(link') : FALSE
        BY <2>1
      <3>2. \A k \in 2..Len(link') + 1 : FALSE
        BY <2>1
      <3> QED
        BY <1>1, <3>1, <3>2 DEF OnWire
    <2> QED
      BY <1>1, <2>1, <2>2, <2>3 DEF Wired
  <1>4. Unheard' /\ \A k \in 1..Len(stack') : FALSE
    BY <1>1 DEF Unheard
  <1>5. PICK u \in 0..Len(asked) : u = Len(asked)
    BY <1>2
  <1>6. Wired(u)'
    BY <1>1, <1>3, <1>5 DEF Wired
  <1> QED
    BY <1>1, <1>2, <1>4, <1>5, <1>6 DEF Opening

\* The commands: only a request, or what an older command left in id, is taken.
LEMMA OpeningTaken ==
  ASSUME CommInv, NEW t \in 0..Len(asked), Opening(t), At("loop"), com_state = "DATA"
  PROVE  /\ stack # <<>> /\ Top.data \in Seq({0}) /\ Unheard /\ ~Cut
         /\ id = 0 \/ (id = COM_INIT /\ InitAhead(t))
  <1>1. stack # <<>> /\ Top.at = "loop"
    BY DEF At
  <1>2. Top.data \in Seq({0}) /\ ~Cut
    BY <1>1, OpeningTop DEF Early, Sends, HoldsFirst
  <1>3. ~Accepted(t)
    BY DEF Accepted
  <1> QED
    BY <1>1, <1>2, <1>3 DEF Opening

\* com_exec while the wallet reads a request.
LEMMA OpeningExec ==
  ASSUME CommInv, NEW t \in 0..Len(asked), Opening(t), Exec
  PROVE  Opening(t)'
  <1>1. Taken /\ At("loop") /\ com_state = "DATA"
    BY DEF Exec, ExecVersion, ExecRefused, ExecInit, ExecEnd, ExecGet, ExecSetFram, ExecSetKey, ExecUnknown, ExecReset, Taken
  <1>2. /\ stack # <<>> /\ Top.data \in Seq({0}) /\ Unheard /\ ~Cut
        /\ id = 0 \/ (id = COM_INIT /\ InitAhead(t))
    BY <1>1, OpeningTaken
  <1>3. /\ UNCHANGED <<host, asked, unsent, link, out, id>>
        /\ com_state' = IF Top.left < Missing THEN "DATA" ELSE "ID"
    BY <1>1 DEF Taken, hostVars
  <1>4. /\ Top \in Calls /\ Top.left \in Nat /\ Top.reply \in Byte /\ Top.next \in Nexts
        /\ Top.left - Available \in Nat
        /\ {"confirm", "after", "send_id"} \subseteq Places /\ {"after", "init_aborted", "unknown_aborted"} \subseteq Nexts
        /\ {COM_END, COM_ERR_NOT_INIT} \subseteq Byte
    <2>1. Top \in Calls /\ Available \in Nat /\ Available <= Top.left
      BY <1>1, <1>2, TopCall, GivenData DEF CommInv
    <2> QED
      BY <2>1, Replies DEF Calls, Places, Nexts
  <1>5. CASE id = 0
    <2>1. ExecRefused \/ ExecUnknown
      BY <1>5 DEF Exec, ExecVersion, ExecInit, ExecEnd, ExecGet, ExecSetFram, ExecSetKey, ExecReset,
                  COM_GET_VERSION, COM_INIT, COM_END, COM_GET_FRAM, COM_GET_PARAM, COM_GET_KEY, COM_SET_FRAM, COM_SET_KEY, COM_RESET
    <2>2. \/ Become(Now("send_id", Top.left - Available, COM_ERR_NOT_INIT, "after"))
          \/ Become(Now("send_id", Top.left - Available, COM_END, "unknown_aborted"))
      BY <2>1 DEF ExecRefused, ExecUnknown, Answer
    <2>3. COM_END \in Closing /\ COM_ERR_NOT_INIT \in Closing
      BY DEF Closing
    <2>4. id' = 0
      BY <1>3, <1>5
    <2>5. CASE Become(Now("send_id", Top.left - Available, COM_ERR_NOT_INIT, "after"))
      BY <1>2, <1>3, <1>4, <2>3, <2>4, <2>5, OpeningGoes
    <2>6. CASE Become(Now("send_id", Top.left - Available, COM_END, "unknown_aborted"))
      BY <1>2, <1>3, <1>4, <2>3, <2>4, <2>6, OpeningGoes
    <2> QED
      BY <2>2, <2>5, <2>6
  <1>6. CASE id = COM_INIT /\ InitAhead(t)
    <2>1. ExecInit
      BY <1>6 DEF Exec, ExecVersion, ExecRefused, ExecEnd, ExecGet, ExecSetFram, ExecSetKey, ExecUnknown, ExecReset, Known,
                  COM_GET_VERSION, COM_INIT, COM_END, COM_GET_FRAM, COM_GET_PARAM, COM_GET_KEY, COM_SET_FRAM, COM_SET_KEY, COM_RESET
    <2>2. /\ Top.left = 0 /\ t = Len(asked) /\ totalSize = 0 /\ com_bytes_processed = 0 /\ Len(stack) <= 1
      BY <1>1, <1>6 DEF InitAhead
    <2>3. Missing = 0 /\ Available = 0 /\ Top.left - Available = 0 /\ com_state' = "ID"
      BY <1>3, <2>2 DEF Missing, Available
    <2>4. Alone
      BY <1>2, <2>2, AloneIs
    <2>5. \/ Become(Now("send_id", Top.left - Available, COM_END, "init_aborted"))
          \/ Become(Now("confirm", Top.left - Available, Top.reply, Top.next))
      BY <2>1 DEF ExecInit, Answer, Rest
    <2>6. COM_END \in Closing /\ "confirm" \notin Sends
      BY DEF Closing, Sends
    <2>7. CASE Become(Now("send_id", Top.left - Available, COM_END, "init_aborted"))
      BY <1>2, <1>3, <1>4, <2>2, <2>3, <2>4, <2>6, <2>7, OpeningGoes
    <2>8. CASE Become(Now("confirm", Top.left - Available, Top.reply, Top.next))
      BY <1>2, <1>3, <1>4, <2>2, <2>3, <2>4, <2>6, <2>8, OpeningGoes
    <2> QED
      BY <2>5, <2>7, <2>8
  <1> QED
    BY <1>2, <1>5, <1>6
-----------------------------------------------------------------------------
\* Whatever the wallet, its user and the line do to a command.
Serves == Device \/ User \/ ReadReply \/ GiveUp \/ Deliver \/ Expire

\* What the host reads when a reply that closes its session comes first.
LEMMA ReadsClosing ==
  ASSUME ReadReply, out # <<>> => ClosesFirst
  PROVE  host' = "closed" /\ out' = <<>>
  <1>1. ClosesFirst
    <2>1. ASSUME out = <<>> PROVE FALSE
      <3>1. Len(out) = 0 /\ Whole(1)
        BY <2>1 DEF ReadReply
      <3> QED
        BY <3>1 DEF Whole
    <2> QED
      BY <2>1
  <1> QED
    BY <1>1 DEF ReadReply, ClosesFirst, Closing

\* A command that is cut off is aborted before anything of the next packet is read.
LEMMA BrokenServes ==
  ASSUME CommInv, SessionInv, AskedInv, asked \in Commands, FLAG_COM, Broken, Serves
  PROVE  Served'
  <1>1. stack # <<>> => Early(Top) /\ Top = stack[Len(stack)] /\ Len(stack) \in 1..Len(stack)
    <2>1. stack # <<>> => Len(stack) \in 1..Len(stack)
      BY DEF CommInv, StackOK
    <2> QED
      BY <2>1 DEF Broken, Cut, AllEarly, Top
  <1>2. /\ timeout /\ com_state # "ID" /\ AllEarly /\ host # "open"
        /\ out = <<>> \/ ClosesFirst
        /\ host = "closed" => out = <<>>
        /\ host \in {"closed", "busy"}
    <2>1. host # "opening"
      BY AskedBytes DEF AskedInv
    <2> QED
      BY <2>1 DEF Broken, Cut, AskedInv, CommInv, VariablesOK
  <1>3. Broken' /\ FLAG_COM' = FLAG_COM => Served'
    BY DEF Served, Serving
  <1>4. CASE ReadReply \/ GiveUp \/ Deliver \/ Expire
    <2>1. /\ UNCHANGED <<stack, com_state, FLAG_COM>> /\ timeout'
          /\ (host' = "closed" /\ out' = <<>>) \/ UNCHANGED <<host, out>>
      BY <1>2, <1>4, ReadsClosing DEF ReadReply, GiveUp, Deliver, Expire, hostVars, parser, session
    <2>2. Cut' /\ host' # "open" /\ (out' = <<>> \/ ClosesFirst')
      BY <1>2, <2>1 DEF Cut, AllEarly, Early, ClosesFirst
    <2>3. host' = "busy" /\ (\E k \in 1..Len(stack') : stack'[k].at \in {"send_rest", "aborted"}) => ClosesFirst'
      BY <2>1 DEF Broken, ClosesFirst
    <2> QED
      BY <1>3, <2>1, <2>2, <2>3 DEF Broken
  <1>5. CASE Poll
    <2>1. /\ UNCHANGED <<host, out, com_state, FLAG_COM, timeout>> /\ link # <<>> /\ stack' = Append(stack, Call(Head(link)))
          /\ stack = <<>> \/ At("confirm")
      BY <1>5 DEF Poll, Take, hostVars, parser, session
    <2>2. stack = <<>>
      BY <1>1, <2>1 DEF At, Early, Sends
    <2>3. PICK c : c = Call(Head(link)) /\ c.at = "start"
      <3> DEFINE d == Call(Head(link))
      <3>1. d.at = "start"
        BY DEF Call
      <3> QED
        BY <3>1
    <2>4. Len(stack') = 1 /\ stack'[1] = c
      BY <2>1, <2>2, <2>3
    <2>5. \A k \in 1..Len(stack') : stack'[k].at = "start"
      BY <2>3, <2>4
    <2> QED
      BY <1>2, <1>3, <2>1, <2>5 DEF Broken, Cut, AllEarly, Early, ClosesFirst
  <1>6. CASE SendId \/ SendRest
    <2>1. AllEarly'
      BY <1>2, <1>6, EarlySends
    <2>2. PICK place \in {"send_rest"} \cup Nexts, part \in {"id", "rest"} :
            stack # <<>> /\ Top.at \in Sends /\ Out(part) /\ UNCHANGED <<host, com_state, FLAG_COM, timeout>>
      BY <1>6, Sending
    <2>3. Top.reply \in Closing
      <3>1. Top.next = "aborted" /\ Told(Top)
        BY <1>1, <2>2 DEF Early, Sends, SessionInv, TellsEnd
      <3> QED
        BY <2>2, <3>1 DEF Told, Clearing, Closing
    <2>4. (out' = <<>> \/ ClosesFirst') /\ (host = "busy" => ClosesFirst')
      BY <1>2, <2>2, <2>3, OutGrows
    <2> QED
      BY <1>2, <1>3, <2>1, <2>2, <2>4 DEF Broken, Cut
  <1>7. CASE Start
    <2>1. /\ UNCHANGED <<host, out, com_state, FLAG_COM, timeout>> /\ stack # <<>>
          /\ Become(Now("send_id", Top.left, COM_END, "aborted"))
      BY <1>2, <1>7 DEF Start, Send, At, hostVars, parser, session
    <2>2. PICK c \in Calls : c = Now("send_id", Top.left, COM_END, "aborted") /\ c.at = "send_id" /\ c.next = "aborted"
      <3>1. Top \in Calls /\ COM_END \in Byte /\ "aborted" \in Nexts /\ "send_id" \in Places
        BY <2>1, TopCall, Replies DEF CommInv, Places, Nexts
      <3>2. Top.left \in Nat /\ StackOK
        BY <3>1 DEF Calls, CommInv
      <3> QED
        BY <2>1, <3>1, <3>2, NowIs
    <2>3. PICK n \in Nat : n = Len(stack)
      BY <2>1, TopCall DEF CommInv
    <2>4. Len(stack') = n /\ stack'[n] = c /\ \A k \in 1..n - 1 : stack'[k] = stack[k]
      BY <2>1, <2>2, <2>3, LastReplaced DEF Become, CommInv, StackOK
    <2>5. \A k \in 1..n : k = n \/ k \in 1..n - 1
      BY <2>3
    <2>6. Early(c)
      BY <2>2 DEF Early, Sends
    <2>7. \A k \in 1..n : Early(stack'[k]) /\ (stack'[k].at \in {"send_rest", "aborted"} => stack'[k] = stack[k])
      <3>1. \A k \in 1..n : Early(stack[k])
        BY <1>2, <2>3 DEF AllEarly
      <3> QED
        BY <2>2, <2>4, <2>5, <2>6, <3>1
    <2>8. Cut' /\ AllEarly'
      BY <1>2, <2>1, <2>4, <2>7 DEF Cut, AllEarly, Early
    <2>9. host' = "busy" /\ (\E k \in 1..Len(stack') : stack'[k].at \in {"send_rest", "aborted"}) => ClosesFirst'
      BY <2>1, <2>3, <2>4, <2>7 DEF Broken, ClosesFirst
    <2> QED
      BY <1>2, <1>3, <2>1, <2>8, <2>9 DEF Broken, ClosesFirst
  <1>8. CASE Aborted
    <2>1. stack # <<>> /\ Top.at = "aborted" /\ ~FLAG_COM' /\ UNCHANGED <<host, out>>
      BY <1>8 DEF Aborted, At, Cleared, hostVars
    <2>2. host = "busy" => ClosesFirst
      BY <1>1, <2>1 DEF Broken
    <2> QED
      BY <1>2, <2>1, <2>2 DEF Served, Refusing, ClosesFirst
  <1>9. CASE ReadId \/ ReadSize \/ SizeMissing \/ After \/ Exec \/ InitAborted \/ UnknownAborted \/ Reset \/ User
    <2>1. stack # <<>> /\ Top.at \in {"loop", "after", "confirm", "init_aborted", "unknown_aborted", "reset"}
      BY <1>9 DEF ReadId, ReadSize, SizeMissing, After, Exec, ExecVersion, ExecRefused, ExecInit, ExecEnd, ExecGet, ExecSetFram,
                  ExecSetKey, ExecUnknown, ExecReset, Taken, InitAborted, UnknownAborted, Reset, User, ConfirmYes, ConfirmNo, At
    <2> QED
      BY <1>1, <2>1 DEF Early, Sends
  <1> QED
    BY <1>4, <1>5, <1>6, <1>7, <1>8, <1>9 DEF Serves, Device

\* A call that has no byte left goes on to another place.
LEMMA LastGoes ==
  ASSUME CommInv, stack # <<>>, Alone, NEW place \in Places, NEW left \in Nat, NEW reply \in Byte, NEW next \in Nexts,
         Become(Now(place, left, reply, next))
  PROVE  /\ Len(stack') = 1 /\ Alone' /\ stack' # <<>> /\ Top'.at = place /\ Top'.left = left /\ Top'.reply = reply
         /\ Top'.next = next /\ Top'.data = Top.data
  <1>1. PICK c \in Calls : c = Now(place, left, reply, next) /\ c.at = place /\ c.left = left /\ c.reply = reply
                           /\ c.next = next /\ c.data = Top.data
    BY NowIs DEF CommInv
  <1>2. Len(stack') = 1 /\ stack' # <<>> /\ stack'[1] = c
    BY <1>1, LastReplaced DEF Become, Alone, CommInv, StackOK
  <1> QED
    BY <1>1, <1>2 DEF Alone, Top

\* The only call returns.
LEMMA LastReturns ==
  ASSUME CommInv, stack # <<>>, Alone, Return
  PROVE  stack' = <<>>
  <1>1. Len(stack') = 0 /\ stack' \in Seq(Calls)
    BY ReturnKeeps DEF Alone, CommInv, StackOK
  <1> QED
    BY <1>1
-----------------------------------------------------------------------------
\* The answer to a command goes out, and the wallet is ready for the next.
LEMMA AnsweringServes ==
  ASSUME CommInv, SessionInv, AskedInv, asked \in Commands, FLAG_COM, Answering, Serves
  PROVE  Served'
  <1>1. link = <<>> /\ unsent = <<>>
    BY WireEnds DEF Answering, AskedInv
  <1>2. host \in {"closed", "open", "busy"}
    BY AskedBytes DEF AskedInv, CommInv, VariablesOK
  <1>3. /\ Wired(Len(asked)) /\ com_state = "ID" /\ (asked[1] = COM_SET_FRAM => Written(Data(Len(asked))))
        /\ Len(stack) <= 1
        /\ stack # <<>> => Alone /\ Top.left = 0 /\ Top \in Calls /\ Unpicked(Top)
        /\ stack # <<>> => Top.at \in {"send_id", "send_rest", "after", "reset", "init_aborted", "unknown_aborted"}
        /\ host = "open" => out = <<>> /\ (stack = <<>> \/ Top.at \in {"after", "reset"})
        /\ host = "busy" => \/ ClosesFirst
                            \/ At("send_id") /\ out = <<>>
                            \/ At("send_rest") /\ out = Half(Top.reply)
                            \/ (stack = <<>> \/ Top.at \in {"after", "reset"}) /\ \E r \in Byte : out = Full(r)
    BY AloneIs, TopCall DEF Answering, CommInv
  <1>4. ASSUME UNCHANGED <<link, asked, fram, com_state, FLAG_COM>>,
               host = "closed" => host' = "closed", host' = "closed" \/ UNCHANGED unsent,
               Len(stack') <= 1,
               stack' # <<>> => Top'.left = 0 /\ Top'.at \in {"send_id", "send_rest", "after", "reset", "init_aborted", "unknown_aborted"},
               host' = "open" => out' = <<>> /\ (stack' = <<>> \/ Top'.at \in {"after", "reset"}),
               host' = "busy" =>
                 \/ ClosesFirst'
                 \/ At("send_id")' /\ out' = <<>>
                 \/ At("send_rest")' /\ out' = Half(Top'.reply)
                 \/ (stack' = <<>> \/ Top'.at \in {"after", "reset"}) /\ \E r \in Byte : out' = Full(r)
        PROVE  Served'
    <2>1. Wired(Len(asked))'
      <3>1. host' = "closed" \/ (host # "closed" /\ unsent' = unsent)
        BY <1>4
      <3>2. Len(asked) \in 0..Len(asked)
        BY DEF CommInv, ChannelsOK
      <3>3. UNCHANGED <<link, asked>>
        BY <1>4
      <3> QED
        BY <1>3, <3>1, <3>2, <3>3, WireKept
    <2>2. asked'[1] = COM_SET_FRAM => Written(Data(Len(asked)))'
      BY <1>3, <1>4 DEF Written, Data, AskedAt, AskedAddress, Number
    <2>3. Answering'
      BY <1>3, <1>4, <2>1, <2>2 DEF Answering, Half, Full
    <2> QED
      BY <1>4, <2>3 DEF Served, Serving
  <1>5. CASE GiveUp
    <2>1. host' = "closed" /\ UNCHANGED <<asked, link, fram, com_state, FLAG_COM, stack>>
      BY <1>5 DEF GiveUp, parser, session
    <2> QED
      BY <1>3, <1>4, <2>1 DEF Top
  <1>6. CASE Expire
    <2>1. UNCHANGED <<host, asked, unsent, link, out, fram, com_state, FLAG_COM, stack>>
      BY <1>6 DEF Expire, hostVars, parser, session
    <2>2. host' = "busy" =>
                 \/ ClosesFirst'
                 \/ At("send_id")' /\ out' = <<>>
                 \/ At("send_rest")' /\ out' = Half(Top'.reply)
                 \/ (stack' = <<>> \/ Top'.at \in {"after", "reset"}) /\ \E r \in Byte : out' = Full(r)
      BY <1>3, <2>1 DEF ClosesFirst, At, Top
    <2> QED
      BY <1>3, <1>4, <2>1, <2>2 DEF Top
  <1>7. CASE ReadReply
    <2>1. /\ UNCHANGED <<asked, link, fram, com_state, FLAG_COM, stack>> /\ host # "closed" /\ Whole(1)
          /\ host' = IF out[1].reply \in {COM_END, COM_ERR_NOT_INIT} THEN "closed" ELSE "open"
          /\ out' = IF host' = "closed" THEN <<>> ELSE SubSeq(out, 3, Len(out))
          /\ unsent' = IF host' = "closed" THEN <<>> ELSE unsent
      BY <1>7 DEF ReadReply, parser, session
    <2>2. out # <<>> /\ Len(out) > 1
      <3>1. 1 < Len(out)
        BY <2>1 DEF Whole
      <3> QED
        BY <3>1 DEF CommInv, ChannelsOK
    <2>3. host = "busy"
      BY <1>2, <1>3, <2>1, <2>2
    <2>4. CASE ClosesFirst
      <3>1. host' = "closed" /\ out' = <<>>
        BY <1>7, <2>4, ReadsClosing
      <3> QED
        BY <1>3, <1>4, <2>1, <3>1 DEF Top
    <2>5. CASE ~ClosesFirst
      <3>1. (stack = <<>> \/ Top.at \in {"after", "reset"}) /\ \E r \in Byte : out = Full(r)
        <4>1. out # Half(Top.reply)
          <5>1. Len(Half(Top.reply)) = 1
            BY DEF Half
          <5>2. PICK n \in Nat : n = Len(out) /\ n > 1
            BY <2>2 DEF CommInv, ChannelsOK
          <5> QED
            BY <5>1, <5>2
        <4> QED
          BY <1>3, <2>2, <2>3, <2>5, <4>1
      <3>2. Len(out) = 2
        BY <3>1 DEF Full
      <3>3. out' = <<>>
        BY <2>1, <3>2 DEF CommInv, ChannelsOK
      <3>4. host' = "open" \/ host' = "closed"
        BY <2>1
      <3> QED
        BY <1>3, <1>4, <2>1, <2>3, <3>1, <3>3, <3>4 DEF Top
    <2> QED
      BY <2>4, <2>5
  <1>8. CASE SendId \/ SendRest
    <2>1. PICK place \in {"send_rest"} \cup Nexts, part \in {"id", "rest"} :
           /\ stack # <<>> /\ Top.at \in Sends /\ Out(part)
           /\ \/ Top.at = "send_id" /\ place = "send_rest" /\ part = "id"
              \/ Top.at = "send_rest" /\ place = Top.next /\ part = "rest"
           /\ place = "aborted" => Top.next = "aborted"
           /\ Sent(place)
           /\ UNCHANGED <<host, asked, unsent, com_state, sized, id, totalSize, com_bytes_processed, FLAG_COM, fram, COM_PARAMETER, timeout>>
      BY <1>8, Sending
    <2>2. /\ Alone /\ Top.left = 0 /\ Top \in Calls /\ Unpicked(Top) /\ host \in {"closed", "busy"}
          /\ place \in Places
      BY <1>2, <1>3, <2>1 DEF Sends, Places, Nexts
    <2>3. Top.left \in Nat /\ Top.reply \in Byte /\ Top.next \in Nexts
      BY <2>2 DEF Calls
    <2>4. Become(Now(place, Top.left, Top.reply, Top.next)) /\ link' = link
      <3>1. Become([Top EXCEPT !.at = place]) /\ link' = link
        <4>1. stack' = [stack EXCEPT ![Len(stack)].at = place] /\ link' = link
          BY <1>1, <2>1 DEF Sent
        <4>2. [stack EXCEPT ![Len(stack)].at = place] = [stack EXCEPT ![Len(stack)] = [Top EXCEPT !.at = place]]
          BY DEF Top
        <4> QED
          BY <4>1, <4>2 DEF Become
      <3> QED
        BY <2>1, <3>1, CallChanged DEF CommInv
    <2>5. /\ Len(stack') = 1 /\ stack' # <<>> /\ Top'.at = place /\ Top'.left = 0 /\ Top'.reply = Top.reply
      BY <2>1, <2>2, <2>3, <2>4, LastGoes
    <2>6. place # "aborted"
      <3>1. Top.next # "aborted"
        BY <2>1, <2>2 DEF Unpicked, Early
      <3> QED
        BY <2>1, <3>1
    <2>7. place \in {"send_rest", "after", "init_aborted", "unknown_aborted", "reset"}
      BY <2>6 DEF Nexts
    <2>8. host = "busy" =>
                 \/ ClosesFirst'
                 \/ At("send_rest")' /\ out' = Half(Top'.reply)
                 \/ Top'.at \in {"after", "reset"} /\ \E r \in Byte : out' = Full(r)
      <3> SUFFICES ASSUME host = "busy"
                   PROVE  \/ ClosesFirst'
                          \/ At("send_rest")' /\ out' = Half(Top'.reply)
                          \/ Top'.at \in {"after", "reset"} /\ \E r \in Byte : out' = Full(r)
        OBVIOUS
      <3>1. CASE ClosesFirst
        BY <2>1, <3>1, OutGrows
      <3>2. CASE At("send_id") /\ out = <<>>
        <4>1. place = "send_rest" /\ part = "id"
          BY <2>1, <3>2 DEF At
        <4>2. out' = Half(Top.reply)
          BY <2>1, <3>2, <4>1, OutGrows DEF Half
        <4> QED
          BY <2>5, <4>1, <4>2 DEF At
      <3>3. CASE At("send_rest") /\ out = Half(Top.reply)
        <4>1. place = Top.next /\ part = "rest"
          BY <2>1, <3>3 DEF At
        <4>2. out' = Full(Top.reply)
          BY <2>1, <3>3, <4>1, OutGrows DEF Half, Full
        <4>3. CASE place \in {"after", "reset"}
          BY <2>3, <2>5, <4>2, <4>3
        <4>4. CASE place \in {"init_aborted", "unknown_aborted"}
          <5>1. Told(Top)
            <6>1. Len(stack) \in 1..Len(stack) /\ Top = stack[Len(stack)]
              BY <2>2 DEF Alone, Top
            <6> QED
              BY <6>1 DEF SessionInv, TellsEnd
          <5>2. Top.reply \in Closing
            BY <2>1, <4>1, <4>4, <5>1 DEF Told, Clearing, Closing
          <5>3. out'[1].reply = Top.reply /\ out' # <<>>
            BY <4>2 DEF Full
          <5> QED
            BY <5>2, <5>3 DEF ClosesFirst
        <4>5. place # "send_rest"
          BY <2>3, <4>1 DEF Nexts
        <4> QED
          BY <2>7, <4>3, <4>4, <4>5
      <3>4. Top.at \notin {"after", "reset"}
        BY <2>1 DEF Sends
      <3> QED
        BY <1>3, <2>1, <3>1, <3>2, <3>3, <3>4
    <2> QED
      BY <1>4, <2>1, <2>2, <2>4, <2>5, <2>7, <2>8
  <1>9. CASE After
    <2>1. /\ stack # <<>> /\ Top.at = "after" /\ UNCHANGED <<host, asked, unsent, link, out, fram, com_state, FLAG_COM>>
          /\ Top.left = 0
      BY <1>3, <1>9 DEF After, At, hostVars, parser, session
    <2>2. stack' = <<>>
      <3>1. Return
        BY <1>9, <2>1 DEF After
      <3> QED
        BY <1>3, <2>1, <3>1, LastReturns
    <2>3. host = "busy" => ClosesFirst \/ \E r \in Byte : out = Full(r)
      BY <1>3, <2>1 DEF At
    <2>4. Len(stack') <= 1
      BY <2>2
    <2> QED
      BY <1>3, <1>4, <2>1, <2>2, <2>3, <2>4 DEF ClosesFirst
  <1>10. CASE Reset
    BY <1>10 DEF Reset, Served
  <1>11. CASE InitAborted \/ UnknownAborted
    <2>1. stack # <<>> /\ Top.at \in {"init_aborted", "unknown_aborted"} /\ UNCHANGED <<host, out>> /\ ~FLAG_COM'
      BY <1>11 DEF InitAborted, UnknownAborted, Cleared, At, hostVars
    <2>2. host = "closed" \/ (host = "busy" /\ ClosesFirst)
      BY <1>2, <1>3, <2>1 DEF At
    <2> QED
      BY <2>1, <2>2 DEF Served, Refusing, ClosesFirst
  <1>12. CASE Poll \/ Deliver
    BY <1>1, <1>12 DEF Poll, Deliver
  <1>13. CASE Start \/ Aborted \/ ReadId \/ ReadSize \/ SizeMissing \/ Exec \/ User
    <2>1. stack # <<>> /\ Top.at \in {"start", "aborted", "loop", "confirm"}
      BY <1>13 DEF Start, Aborted, ReadId, ReadSize, SizeMissing, Exec, ExecVersion, ExecRefused, ExecInit, ExecEnd, ExecGet, ExecSetFram,
                  ExecSetKey, ExecUnknown, ExecReset, Taken, User, ConfirmYes, ConfirmNo, At
    <2> QED
      BY <1>3, <2>1
  <1> QED
    BY <1>5, <1>6, <1>7, <1>8, <1>9, <1>10, <1>11, <1>12, <1>13 DEF Serves, Device

\* What com_process_data, the commands and a refusal leave alone.
LEMMA Inside ==
  ASSUME \/ Poll \/ Start \/ Aborted \/ ReadId \/ ReadSize \/ SizeMissing \/ After \/ Exec \/ InitAborted \/ UnknownAborted
         \/ ConfirmNo
  PROVE  UNCHANGED <<host, out>> /\ (FLAG_COM' => FLAG_COM) /\ (stack # <<>> => Top.at \notin Sends)
  <1>1. CASE Poll
    BY <1>1 DEF Poll, At, Sends, hostVars, session
  <1>2. CASE Start \/ ReadId \/ ReadSize \/ SizeMissing \/ After \/ ConfirmNo
    BY <1>2 DEF Start, ReadId, ReadSize, SizeMissing, After, ConfirmNo, At, Sends, hostVars, session
  <1>3. CASE Aborted \/ InitAborted \/ UnknownAborted
    BY <1>3 DEF Aborted, InitAborted, UnknownAborted, Cleared, At, Sends, hostVars
  <1>4. CASE Exec
    <2>1. UNCHANGED <<host, out>> /\ Top.at = "loop"
      BY <1>4 DEF Exec, ExecVersion, ExecRefused, ExecInit, ExecEnd, ExecGet, ExecSetFram,
                  ExecSetKey, ExecUnknown, ExecReset, Taken, At, hostVars
    <2>2. FLAG_COM' => FLAG_COM
      BY <1>4 DEF Exec, ExecVersion, ExecRefused, ExecInit, ExecEnd, ExecGet, ExecSetFram,
                  ExecSetKey, ExecUnknown, ExecReset, session
    <2> QED
      BY <2>1, <2>2 DEF Sends
  <1> QED
    BY <1>1, <1>2, <1>3, <1>4

\* Once the session is over its host reads so, or is gone.
LEMMA RefusingServes ==
  ASSUME CommInv, AskedInv, asked \in Commands, ~FLAG_COM, Serves
  PROVE  Served'
  <1>1. host = "closed" \/ (host = "busy" /\ (ClosesFirst \/ (out = <<>> /\ Alone /\ Top.at = "send_id" /\ Top.reply \in Closing)))
    BY DEF AskedInv, Served, Refusing
  <1>2. ~FLAG_COM' /\ host' = "closed" => Served'
    BY DEF Served
  <1>3. ~FLAG_COM' /\ host' = "busy" /\ ClosesFirst' => Served'
    BY DEF Served, Refusing
  <1>4. CASE Poll \/ Start \/ Aborted \/ ReadId \/ ReadSize \/ SizeMissing \/ After \/ Exec \/ InitAborted \/ UnknownAborted
             \/ ConfirmNo
    <2>1. UNCHANGED <<host, out>> /\ ~FLAG_COM' /\ (stack # <<>> => Top.at \notin Sends)
      BY <1>4, Inside
    <2>2. Alone => stack # <<>>
      BY DEF Alone
    <2> QED
      BY <1>1, <1>2, <1>3, <2>1, <2>2 DEF ClosesFirst, Sends
  <1>5. CASE ConfirmYes \/ Reset \/ GiveUp
    BY <1>1, <1>2, <1>5 DEF ConfirmYes, Reset, GiveUp, session
  <1>6. CASE SendId \/ SendRest
    <2>1. PICK place \in {"send_rest"} \cup Nexts, part \in {"id", "rest"} : Out(part) /\ UNCHANGED <<host, FLAG_COM>>
      BY <1>6, Sending
    <2>2. host = "busy" => ClosesFirst'
      BY <1>1, <2>1, OutGrows
    <2> QED
      BY <1>1, <1>2, <1>3, <2>1, <2>2
  <1>7. CASE ReadReply
    <2>1. out # <<>> => ClosesFirst
      BY <1>1, <1>7 DEF ReadReply
    <2>2. host' = "closed" /\ FLAG_COM' = FLAG_COM
      BY <1>7, <2>1, ReadsClosing DEF ReadReply, session
    <2> QED
      BY <1>2, <2>2
  <1>8. CASE Deliver \/ Expire
    <2>1. UNCHANGED <<host, out, stack, FLAG_COM>>
      BY <1>8 DEF Deliver, Expire, hostVars, session
    <2> QED
      BY <1>1, <2>1 DEF Served, Refusing, ClosesFirst, Alone, Top
  <1> QED
    BY <1>4, <1>5, <1>6, <1>7, <1>8 DEF Serves, Device, User

\* The host sends a command when its last answer is read: nothing else is on its
\* way, and the wallet is between two commands.
LEMMA CommandServes ==
  ASSUME CommInv, AskedInv, Command
  PROVE  Served' /\ asked' \in Commands
  <1>1. /\ host = "open" /\ asked' \in Commands /\ unsent' = asked' /\ host' = "busy"
        /\ UNCHANGED <<link, out, com_state, sized, id, totalSize, com_bytes_processed, FLAG_COM, stack>>
    BY DEF Command, parser, session
  <1>2. /\ FLAG_COM /\ link = <<>> /\ com_state = "ID" /\ out = <<>>
        /\ stack = <<>> \/ (Len(stack) <= 1 /\ Top.left = 0 /\ Top.at \in {"after", "reset"})
    <2>1. asked # <<>>
      BY <1>1 DEF AskedInv
    <2>2. CASE asked = Init_
      <3>1. PICK t \in 0..Len(asked) : Opening(t)
        BY <2>2 DEF AskedInv
      <3>2. Accepted(t) /\ Wired(t)
        BY <1>1, <3>1 DEF Opening, Unheard
      <3>3. link = <<>>
        BY <3>2, WireEnds DEF Accepted
      <3> QED
        BY <1>1, <3>2, <3>3 DEF Accepted
    <2>3. CASE asked \in Commands
      <3>1. FLAG_COM /\ Serving
        BY <1>1, <2>3 DEF AskedInv, Served, Refusing, CommInv, VariablesOK
      <3>2. Answering
        BY <1>1, <3>1 DEF Serving, Broken, Reading
      <3>3. link = <<>>
        BY <3>2, WireEnds DEF Answering
      <3> QED
        BY <1>1, <3>1, <3>2, <3>3 DEF Answering
    <2> QED
      BY <2>1, <2>2, <2>3 DEF AskedInv
  <1>3. stack = <<>> \/ (Alone /\ stack # <<>>)
    BY <1>2, AloneIs
  <1>4. asked' \in Seq(Byte) /\ Len(asked') \in Nat
    BY <1>1, CommandsAssumption DEF Byte
  <1>5. Wired(0)'
    BY <1>1, <1>2, <1>4, WireStarts
  <1>6. ParserAt(0)'
    BY <1>1, <1>2, Numbers DEF ParserAt
  <1>7. Reading(0, 0)'
    <2>1. ~(0 > SIZE_BYTES)
      BY Numbers
    <2> QED
      BY <1>1, <1>2, <1>3, <1>5, <1>6, <2>1 DEF Reading, Calling, Alone, Top
  <1>8. 0 \in 0..Len(asked') /\ 0 \in 0..0
    BY <1>4
  <1> QED
    BY <1>1, <1>2, <1>7, <1>8 DEF Served, Serving

\* It comes back when the wallet has taken everything, and after the timeout.
LEMMA ConnectOpens ==
  ASSUME CommInv, Connect, MaxDepth = 1
  PROVE  Opening(0)' /\ asked' = Init_
  <1>1. /\ host' = "opening" /\ asked' = Init_ /\ unsent' = Init_ /\ out' = <<>> /\ link' = <<>> /\ timeout'
        /\ UNCHANGED <<stack, com_state, id>>
    BY DEF Connect, parser
  <1>2. stack = <<>>
    <2>1. Len(stack) < 1
      BY DEF Connect
    <2> QED
      BY <2>1, TopCall DEF CommInv
  <1>3. \A k \in 1..Len(stack') : FALSE
    BY <1>1, <1>2
  <1>4. Wired(0)'
    BY <1>1, WireStarts, Request
  <1>5. Unheard'
    BY <1>1, <1>3 DEF Unheard
  <1>6. com_state' = "ID" \/ Cut'
    BY <1>1, <1>3 DEF Cut, AllEarly
  <1> QED
    BY <1>1, <1>2, <1>3, <1>4, <1>5, <1>6 DEF Opening
-----------------------------------------------------------------------------
\* The first n bytes are those of another sequence after a place.
Follows(given, n, bytes, place) == \A k \in 1..n : given[k] = bytes[place + k]

\* What the bytes that come add to a number of which some are there.
LEMMA NumberGrows ==
  ASSUME NEW bytes \in Seq(Byte), NEW place \in Nat, NEW q \in Nat, NEW n \in Nat, q + n <= 3,
         place + q + n <= Len(bytes), NEW given, Follows(given, n, bytes, place + q)
  PROVE  Number(bytes, place, q + n) = Number(bytes, place, q)
           + (IF 1 <= n THEN Shifted(given[1], q + 1 - 1) ELSE 0)
           + (IF 2 <= n THEN Shifted(given[2], q + 2 - 1) ELSE 0)
           + (IF 3 <= n THEN Shifted(given[3], q + 3 - 1) ELSE 0)
  <1> DEFINE g(k) == IF k <= n THEN Shifted(given[k], q + k - 1) ELSE 0
             N(k) == Number(bytes, place, k)
  <1>1. \A k \in {0, 1, 2} : place + k + 1 <= Len(bytes) =>
          /\ N(k + 1) = N(k) + Shifted(bytes[place + k + 1], k)
          /\ N(0) = 0 /\ Shifted(bytes[place + k + 1], k) \in Nat
    <2> SUFFICES ASSUME NEW k \in {0, 1, 2}, place + k + 1 <= Len(bytes)
                 PROVE  /\ N(k + 1) = N(k) + Shifted(bytes[place + k + 1], k)
                        /\ N(0) = 0 /\ Shifted(bytes[place + k + 1], k) \in Nat
      OBVIOUS
    <2>1. place + k + 1 \in 1..Len(bytes)
      OBVIOUS
    <2>2. bytes[place + k + 1] \in Byte
      BY <2>1
    <2> QED
      BY <2>2, NextByte, ShiftedByte
  <1>2. N(0) = 0
    BY DEF Number
  <1>3. Len(bytes) \in Nat
    OBVIOUS
  <1> HIDE DEF N
  <1>4. \A k \in 0..3 : place + k <= Len(bytes) => N(k) \in Nat
    <2>1. place + 1 <= Len(bytes) => N(1) \in Nat
      BY <1>1, <1>2
    <2>2. place + 2 <= Len(bytes) => N(2) \in Nat
      BY <1>1, <1>3, <2>1
    <2>3. place + 3 <= Len(bytes) => N(3) \in Nat
      BY <1>1, <1>3, <2>2
    <2>4. \A k \in 0..3 : k = 0 \/ k = 1 \/ k = 2 \/ k = 3
      OBVIOUS
    <2> QED
      BY <1>2, <2>1, <2>2, <2>3, <2>4
  <1>5. \A k \in {1, 2, 3} : k <= n => /\ N(q + k) = N(q + (k - 1)) + g(k) /\ g(k) \in Nat
    <2> SUFFICES ASSUME NEW k \in {1, 2, 3}, k <= n
                 PROVE  N(q + k) = N(q + (k - 1)) + g(k) /\ g(k) \in Nat
      OBVIOUS
    <2>1. PICK j \in {0, 1, 2} : j = q + (k - 1) /\ j + 1 = q + k /\ place + j + 1 = place + q + k
      BY <1>3
    <2>2. place + j + 1 <= Len(bytes)
      BY <1>3, <2>1
    <2>3. given[k] = bytes[place + j + 1]
      BY <2>1 DEF Follows
    <2>4. q + k - 1 = j
      BY <2>1
    <2>5. g(k) = Shifted(bytes[place + j + 1], j)
      BY <2>3, <2>4
    <2> QED
      BY <1>1, <2>1, <2>2, <2>5
  <1>6. \A k \in {1, 2, 3} : ~(k <= n) => g(k) = 0
    OBVIOUS
  <1>7. N(q) \in Nat
    <2>1. q \in 0..3 /\ place + q <= Len(bytes)
      BY <1>3
    <2> QED
      BY <1>4, <2>1
  <1>8. q + (1 - 1) = q /\ q + (2 - 1) = q + 1 /\ q + (3 - 1) = q + 2 /\ q + 0 = q
    OBVIOUS
  <1>9. N(q + n) = N(q) + g(1) + g(2) + g(3)
    <2> HIDE DEF g
    <2>1. CASE n = 0
      <3>1. g(1) = 0 /\ g(2) = 0 /\ g(3) = 0
        BY <1>6, <2>1
      <3> QED
        BY <1>7, <1>8, <2>1, <3>1
    <2>2. CASE n = 1
      <3>1. g(2) = 0 /\ g(3) = 0
        BY <1>6, <2>2
      <3>2. N(q + 1) = N(q) + g(1) /\ g(1) \in Nat
        BY <1>5, <1>8, <2>2
      <3> QED
        BY <1>7, <2>2, <3>1, <3>2
    <2>3. CASE n = 2
      <3>1. g(3) = 0
        BY <1>6, <2>3
      <3>2. N(q + 1) = N(q) + g(1) /\ g(1) \in Nat
        BY <1>5, <1>8, <2>3
      <3>3. N(q + 2) = N(q + 1) + g(2) /\ g(2) \in Nat
        BY <1>5, <1>8, <2>3
      <3> QED
        BY <1>7, <2>3, <3>1, <3>2, <3>3
    <2>4. CASE n = 3
      <3>1. N(q + 1) = N(q) + g(1) /\ g(1) \in Nat
        BY <1>5, <1>8, <2>4
      <3>2. N(q + 2) = N(q + 1) + g(2) /\ g(2) \in Nat
        BY <1>5, <1>8, <2>4
      <3>3. N(q + 3) = N(q + 2) + g(3) /\ g(3) \in Nat
        BY <1>5, <1>8, <2>4
      <3> QED
        BY <1>7, <2>4, <3>1, <3>2, <3>3
    <2>5. n = 0 \/ n = 1 \/ n = 2 \/ n = 3
      OBVIOUS
    <2> QED
      BY <2>1, <2>2, <2>3, <2>4, <2>5
  <1> QED
    BY <1>9 DEF N

\* A number of bytes of the command.
LEMMA NumberNat ==
  ASSUME NEW bytes \in Seq(Byte), NEW place \in Nat, NEW n \in Nat, n <= 3, place + n <= Len(bytes)
  PROVE  Number(bytes, place, n) \in Nat
  <1>1. \A k \in 1..n : place + k \in 1..Len(bytes) /\ bytes[place + k] \in Byte /\ k - 1 \in {0, 1, 2}
    OBVIOUS
  <1>2. \A k \in 1..n : Shifted(bytes[place + k], k - 1) \in Nat
    BY <1>1, ShiftedByte
  <1> DEFINE p(k) == IF k <= n THEN Shifted(bytes[place + k], k - 1) ELSE 0
  <1>3. p(1) \in Nat /\ p(2) \in Nat /\ p(3) \in Nat
    <2>1. \A k \in {1, 2, 3} : k <= n => k \in 1..n
      OBVIOUS
    <2> QED
      BY <1>2, <2>1
  <1>4. Number(bytes, place, n) = p(1) + p(2) + p(3)
    BY DEF Number
  <1> HIDE DEF p
  <1> QED
    BY <1>3, <1>4

\* Where a byte of the packet goes, and that it is the one the host asked for
\* there: a the address, x where the data begins, q and m the bytes dealt with and
\* those of the packet, w those of them that belong to the address.
LEMMA PieceAt ==
  ASSUME NEW a \in Nat, NEW x \in Nat, NEW q \in Nat, NEW w \in Nat, NEW m \in Nat, NEW A \in Nat,
         NEW s \in Int, s = x + q + w - A, w <= m, q + w >= A, a - s + 1 \in 1..(m - w)
  PROVE  w + a - s + 1 \in 1..m /\ a - x + 1 \in 1..(q + m - A)
  <1>1. PICK d \in Nat : d = a - s + 1 /\ 1 <= d /\ d <= m - w
    OBVIOUS
  <1>2. a = d + s - 1
    BY <1>1
  <1> QED
    BY <1>1, <1>2

\* A byte of the data that is not in this packet came with an earlier one.
LEMMA EarlierPiece ==
  ASSUME NEW a \in Nat, NEW x \in Nat, NEW q \in Nat, NEW w \in Nat, NEW m \in Nat, NEW A \in Nat,
         NEW s \in Int, s = x + q + w - A, q + w >= A, q < A => q + w = A, ~(q < A) => w = 0,
         ~(a - s + 1 \in 1..(m - w)), a - x + 1 \in 1..(q + m - A)
  PROVE  q > A /\ a - x + 1 \in 1..(q - A)
  <1>1. PICK e \in Nat : e = a - x + 1 /\ 1 <= e /\ e <= q + m - A
    OBVIOUS
  <1>2. CASE q < A
    <2>1. s = x /\ m - w = q + m - A
      BY <1>2
    <2> QED
      BY <1>1, <2>1
  <1>3. CASE ~(q < A)
    <2>1. w = 0 /\ a - s + 1 = e - (q - A)
      BY <1>1, <1>3
    <2>2. ~(e - (q - A) >= 1)
      BY <1>1, <1>3, <2>1
    <2> QED
      BY <1>1, <1>3, <2>2
  <1> QED
    BY <1>2, <1>3

\* The packet goes on with the data of the command.
Continues(q) == Follows(Given, Available, asked, 1 + SIZE_BYTES + q)

\* command_set_fram gathers the address and writes each byte where the host asked.
LEMMA FramGathers ==
  ASSUME CommInv, ExecSetFram, NEW q \in Nat, q = COM_POS, NEW m \in Nat, m = Available,
         asked[1] = COM_SET_FRAM, 1 + SIZE_BYTES + q + m <= Len(asked),
         Continues(q), COM_PARAMETER = Address(q), Written(q)
  PROVE  /\ Written(q + m)' /\ asked' = asked
         /\ COM_PARAMETER' = IF q + m = totalSize THEN 0 ELSE Address(q + m)
         /\ \A a \in DOMAIN fram : fram'[a] # fram[a] => fram'[a] = AskedAt(a)
  <1> DEFINE lacking == IF COM_POS < ADDRESS_BYTES THEN ADDRESS_BYTES - COM_POS ELSE 0
             n == IF Available < lacking THEN Available ELSE lacking
             gathered(k) == IF k <= n THEN Shifted(Given[k], COM_POS + k - 1) ELSE 0
             parameter == COM_PARAMETER + gathered(1) + gathered(2) + gathered(3)
             start == parameter + COM_POS + n - ADDRESS_BYTES
             written == [a \in DOMAIN fram |->
                          IF a - start + 1 \in 1..(Available - n) THEN Given[n + a - start + 1] ELSE fram[a]]
             A == ADDRESS_BYTES
             P == 1 + SIZE_BYTES
  <1>1. /\ fram' = (IF COM_POS + n < ADDRESS_BYTES THEN fram ELSE written)
        /\ COM_PARAMETER' = (IF q + m = totalSize THEN 0 ELSE parameter)
        /\ asked' = asked
    BY DEF ExecSetFram, Taken, hostVars
  <1>2. /\ asked \in Seq(Byte) /\ Len(asked) \in Nat /\ A \in Nat /\ A >= 1 /\ A <= 3 /\ P \in Nat
        /\ DOMAIN fram \subseteq Nat /\ DOMAIN fram = 0..(FRAM_BYTE_SIZE - 1) /\ FRAM_BYTE_SIZE \in Nat
    BY Numbers DEF CommInv, ChannelsOK, VariablesOK
  <1>3. /\ n \in Nat /\ n <= m /\ (q >= A => n = 0)
        /\ q < A => q + n <= A /\ (q + n = A \/ n = m)
    BY <1>2
  <1>4. PICK w \in Nat : w = n
    BY <1>3
  <1>5. parameter = Address(q + m)
    <2>1. CASE q >= A
      <3>1. gathered(1) = 0 /\ gathered(2) = 0 /\ gathered(3) = 0
        <4> HIDE DEF n
        <4> QED
          BY <1>3, <2>1
      <3>2. Address(q) = Address(q + m) /\ Address(q) = Number(asked, P, A)
        BY <1>2, <2>1 DEF Address
      <3>3. CASE q + m > 0
        <4>1. Number(asked, P, A) \in Nat
          BY <1>2, <2>1, NumberNat
        <4> QED
          BY <3>1, <3>2, <4>1
      <3>4. CASE q + m = 0
        BY <1>2, <2>1, <3>4
      <3> QED
        BY <3>3, <3>4
    <2>2. CASE q < A
      <3>1. Address(q) = Number(asked, P, q)
        BY <2>2 DEF Address
      <3>2. Address(q + m) = Number(asked, P, q + w)
        <4>1. q + w = A => ~(q + m < A) \/ q + m = q + w
          BY <1>2, <1>3, <1>4
        <4>2. w = m => q + m = q + w
          BY <1>4
        <4>3. q + w <= A /\ w <= m /\ (q + w = A \/ w = m)
          BY <1>2, <1>3, <1>4, <2>2
        <4> HIDE DEF n
        <4>4. (IF q + m < A THEN q + m ELSE A) = q + w
          BY <1>2, <4>3
        <4> QED
          BY <4>4 DEF Address
      <3>3. q + w <= 3 /\ P + q + w <= Len(asked) /\ Follows(Given, w, asked, P + q)
        <4>1. q + w <= 3 /\ P + q + w <= Len(asked) /\ w <= m
          BY <1>2, <1>3, <1>4, <2>2
        <4> HIDE DEF n
        <4>2. \A k \in 1..w : k \in 1..m
          BY <4>1
        <4> QED
          BY <4>1, <4>2 DEF Continues, Follows
      <3>4. Number(asked, P, q + w) = Number(asked, P, q)
              + (IF 1 <= w THEN Shifted(Given[1], q + 1 - 1) ELSE 0)
              + (IF 2 <= w THEN Shifted(Given[2], q + 2 - 1) ELSE 0)
              + (IF 3 <= w THEN Shifted(Given[3], q + 3 - 1) ELSE 0)
        <4> HIDE DEF n, P, A
        <4>0. PICK given : given = Given
          OBVIOUS
        <4>1. PICK bytes \in Seq(Byte), place \in Nat : bytes = asked /\ place = P
          BY <1>2
        <4>2. q + w <= 3 /\ place + q + w <= Len(bytes) /\ Follows(given, w, bytes, place + q)
          BY <3>3, <4>0, <4>1
        <4>3. Number(bytes, place, q + w) = Number(bytes, place, q)
              + (IF 1 <= w THEN Shifted(given[1], q + 1 - 1) ELSE 0)
              + (IF 2 <= w THEN Shifted(given[2], q + 2 - 1) ELSE 0)
              + (IF 3 <= w THEN Shifted(given[3], q + 3 - 1) ELSE 0)
          BY <4>2, NumberGrows
        <4> QED
          BY <4>0, <4>1, <4>3
      <3> HIDE DEF n
      <3> QED
        BY <1>4, <3>1, <3>2, <3>4
    <2> QED
      BY <1>2, <2>1, <2>2
  <1> HIDE DEF lacking, gathered
  <1>6. PICK x : x = parameter
    OBVIOUS
  <1>7. \/ q + n < A /\ fram' = fram
        \/ /\ q + n >= A /\ q + m >= A /\ x = AskedAddress /\ x \in Nat
           /\ \A a \in DOMAIN fram :
                fram'[a] = IF a - (x + q + w - A) + 1 \in 1..(m - w) THEN Given[w + a - (x + q + w - A) + 1] ELSE fram[a]
    <2>1. CASE q + n < A
      BY <1>1, <2>1
    <2>2. CASE ~(q + n < A)
      <3>1. q + w >= A /\ q + m >= A
        BY <1>2, <1>3, <1>4, <2>2
      <3>2. x = AskedAddress
        <4>1. ~(q + m < A)
          BY <1>2, <3>1
        <4> QED
          BY <1>5, <1>6, <4>1 DEF Address, AskedAddress
      <3>3. x \in Nat
        <4>1. P + A <= Len(asked)
          BY <1>2, <3>1
        <4> QED
          BY <1>2, <3>2, <4>1, NumberNat DEF AskedAddress
      <3>4. fram' = written
        BY <1>1, <2>2
      <3>5. start = x + q + w - A
        BY <1>4, <1>6
      <3> HIDE DEF start, n
      <3>6. \A a \in DOMAIN fram :
                fram'[a] = IF a - start + 1 \in 1..(m - n) THEN Given[n + a - start + 1] ELSE fram[a]
        BY <3>4
      <3> QED
        BY <1>4, <3>1, <3>2, <3>3, <3>5, <3>6
    <2> QED
      BY <1>2, <1>3, <2>1, <2>2
  <1> HIDE DEF parameter, n
  <1>8. Header = P + A /\ P + q + m <= Len(asked) /\ w \in Nat /\ w <= m /\ \A a \in DOMAIN fram : a \in Nat
    BY <1>2, <1>3, <1>4 DEF Header
  <1>9. PICK L \in Nat, H \in Nat : L = Len(asked) /\ H = Header /\ H = P + A /\ P + q + m <= L
    BY <1>2, <1>8
  <1> HIDE DEF A, P
  <1>10. ASSUME q + w >= A, x = AskedAddress, x \in Nat, NEW a \in DOMAIN fram,
                a - (x + q + w - A) + 1 \in 1..(m - w)
         PROVE  Given[w + a - (x + q + w - A) + 1] = AskedAt(a)
    <2>1. PICK s \in Int : s = x + q + w - A
      BY <1>2, <1>8, <1>10
    <2>2. a - s + 1 \in 1..(m - w) /\ a \in Nat
      BY <1>8, <1>10, <2>1
    <2>3. w + a - s + 1 \in 1..m /\ a - x + 1 \in 1..(q + m - A)
      BY <1>2, <1>8, <1>10, <2>1, <2>2, PieceAt
    <2>4. Given[w + a - s + 1] = asked[H + a - x + 1]
      <3>1. \A k \in 1..m : Given[k] = asked[P + q + k]
        BY DEF P, Continues, Follows
      <3>2. P + q + (w + a - s + 1) = H + a - x + 1
        <4>1. a \in Nat /\ x \in Nat /\ A \in Nat /\ P \in Nat /\ w \in Nat /\ q \in Nat /\ s \in Int /\ H = P + A
          BY <1>2, <1>8, <1>9, <1>10
        <4>2. P + q + (w + a - s + 1) = (P + A) + a - x + 1
          BY <2>1, <4>1
        <4> QED
          BY <4>1, <4>2
      <3> QED
        BY <2>3, <3>1, <3>2
    <2>5. L > H /\ a - x + 1 \in 1..(L - H)
      <3>1. q + m - A <= L - H
        BY <1>2, <1>9
      <3>2. \A e \in 1..(q + m - A) : L > H /\ e \in 1..(L - H)
        BY <1>2, <1>9, <3>1
      <3> QED
        BY <2>3, <3>2
    <2> QED
      BY <1>9, <1>10, <2>1, <2>4, <2>5 DEF AskedAt
  <1>11. \A a \in DOMAIN fram : fram'[a] # fram[a] => fram'[a] = AskedAt(a)
    <2>1. q + n < A \/ q + w >= A
      BY <1>2, <1>3, <1>4
    <2> QED
      BY <1>4, <1>7, <1>10, <2>1
  <1>12. DOMAIN fram' = DOMAIN fram
    BY <1>1
  <1>13. ASSUME q + m > A, NEW a \in DOMAIN fram, a - AskedAddress + 1 \in 1..(q + m - A)
         PROVE  fram'[a] = AskedAt(a)
    <2>1. q + w >= A /\ (q < A => q + w = A) /\ (~(q < A) => w = 0)
      BY <1>2, <1>3, <1>4, <1>13
    <2>2. /\ x = AskedAddress /\ x \in Nat
          /\ fram'[a] = IF a - (x + q + w - A) + 1 \in 1..(m - w) THEN Given[w + a - (x + q + w - A) + 1] ELSE fram[a]
      <3>1. ~(q + n < A)
        BY <1>2, <1>4, <2>1
      <3> QED
        BY <1>7, <3>1
    <2>3. CASE a - (x + q + w - A) + 1 \in 1..(m - w)
      BY <1>10, <2>1, <2>2, <2>3
    <2>4. CASE ~(a - (x + q + w - A) + 1 \in 1..(m - w))
      <3>1. PICK s \in Int : s = x + q + w - A
        BY <1>2, <1>8, <2>2
      <3>2. ~(a - s + 1 \in 1..(m - w)) /\ a \in Nat /\ a - x + 1 \in 1..(q + m - A)
        BY <1>8, <1>13, <2>2, <2>4, <3>1
      <3>3. q > A /\ a - x + 1 \in 1..(q - A)
        BY <1>2, <1>8, <2>1, <2>2, <3>1, <3>2, EarlierPiece
      <3>4. fram[a] = AskedAt(a)
        BY <2>2, <3>3 DEF Written, A
      <3> QED
        BY <2>2, <2>4, <3>4
    <2> QED
      BY <2>3, <2>4
  <1>14. Written(q + m)'
    <2>1. AskedAddress' = AskedAddress /\ \A a \in DOMAIN fram : AskedAt(a)' = AskedAt(a)
      BY <1>1 DEF AskedAt, AskedAddress, Number
    <2>2. Written(q + m)' <=> (q + m > A => \A a \in DOMAIN fram' : a - AskedAddress' + 1 \in 1..((q + m) - A) => fram'[a] = AskedAt(a)')
      BY DEF Written, A
    <2>3. (q + m) - A = q + m - A
      BY <1>2
    <2> QED
      BY <1>12, <1>13, <2>1, <2>2, <2>3
  <1> QED
    BY <1>1, <1>5, <1>11, <1>14
-----------------------------------------------------------------------------
\* What the wallet has of a command, and where it stands.
LEMMA ReadingIs ==
  ASSUME CommInv, AskedInv, asked \in Commands, NEW t \in 0..Len(asked), NEW p \in 0..t, Reading(p, t)
  PROVE  /\ asked \in Seq(Byte) /\ Len(asked) \in Nat /\ t \in Nat /\ p \in Nat /\ p <= t /\ t <= Len(asked)
         /\ host \in {"closed", "busy"} /\ out = <<>>
         /\ stack = <<>> => p = t
         /\ stack # <<>> => Alone /\ Top \in Calls /\ Top.left = t - p /\ Top.at \in {"after", "reset", "start", "loop"}
         /\ stack # <<>> /\ Top.at \in {"start", "loop"} => Holds(Top.data, p, t)
         /\ stack # <<>> /\ Top.at \in {"after", "reset"} => Top.left = 0 /\ p = t
         /\ com_state = "ID" => p = 0
         /\ com_state = "SIZE" => p \in 1..SIZE_BYTES
         /\ com_state = "DATA" => p > SIZE_BYTES
  <1>1. asked \in Seq(Byte) /\ Len(asked) \in Nat /\ t \in Nat /\ p \in Nat /\ p <= t /\ t <= Len(asked)
    BY AskedBytes
  <1>2. host \in {"closed", "busy"} /\ out = <<>>
    BY AskedBytes DEF AskedInv, Reading, CommInv, VariablesOK
  <1>3. stack # <<>> => Top \in Calls
    BY TopCall DEF CommInv
  <1>4. p = 0 \/ p \in 1..SIZE_BYTES \/ p > SIZE_BYTES
    BY <1>1, Numbers
  <1>5. /\ com_state = "ID" => p = 0
        /\ com_state = "SIZE" => p \in 1..SIZE_BYTES
        /\ com_state = "DATA" => p > SIZE_BYTES
    BY <1>4 DEF Reading, ParserAt
  <1>6. t - t = 0
    BY <1>1
  <1>7. Calling(p, t)
    BY DEF Reading
  <1>8. /\ stack = <<>> => p = t
        /\ stack # <<>> => Alone /\ Top.left = t - p /\ Top.at \in {"after", "reset", "start", "loop"}
        /\ stack # <<>> /\ Top.at \in {"start", "loop"} => Holds(Top.data, p, t)
        /\ stack # <<>> /\ Top.at \in {"after", "reset"} => Top.left = 0 /\ p = t
    <2>1. CASE stack = <<>> /\ p = t
      BY <2>1
    <2>2. CASE Alone /\ Top.left = 0 /\ p = t /\ (Top.at = "after" \/ (Top.at = "reset" /\ p = 0))
      BY <1>6, <2>2 DEF Alone
    <2>3. CASE Alone /\ Top.at \in {"start", "loop"} /\ Holds(Top.data, p, t) /\ Top.left = t - p
      <3>1. stack # <<>>
        <4>1. Len(stack) = 1 /\ Len(<<>>) = 0
          BY <2>3 DEF Alone
        <4> QED
          BY <4>1
      <3> QED
        BY <2>3, <3>1
    <2> QED
      BY <1>7, <2>1, <2>2, <2>3 DEF Calling
  <1> QED
    BY <1>1, <1>2, <1>3, <1>5, <1>8

\* A command that is being read is served.
LEMMA ReadingServed ==
  ASSUME asked' = asked, NEW u \in 0..Len(asked), NEW p \in 0..u, Reading(p, u)', FLAG_COM'
  PROVE  Served'
  BY DEF Served, Serving

\* The parser and what it has written stay.
LEMMA ParserKept ==
  ASSUME NEW p, ParserAt(p), p > SIZE_BYTES => FramAt(Data(p)),
         UNCHANGED <<asked, com_state, sized, id, totalSize, com_bytes_processed, fram, COM_PARAMETER>>
  PROVE  ParserAt(p)' /\ (p > SIZE_BYTES => FramAt(Data(p))')
  <1>1. ParserAt(p)'
    BY DEF ParserAt, Number, Data
  <1>2. FramAt(Data(p)) => FramAt(Data(p))'
    BY DEF FramAt, Address, Written, AskedAt, AskedAddress, Number, Data
  <1> QED
    BY <1>1, <1>2

\* The computer, the line and the timer, while a command is read.
LEMMA ReadingHost ==
  ASSUME CommInv, AskedInv, asked \in Commands, FLAG_COM, NEW t \in 0..Len(asked), NEW p \in 0..t, Reading(p, t),
         ReadReply \/ GiveUp \/ Deliver \/ Expire
  PROVE  Served'
  <1>1. out = <<>> /\ host # "open"
    BY DEF Reading
  <1>2. ~ReadReply
    <2> SUFFICES ASSUME ReadReply PROVE FALSE
      OBVIOUS
    <2>1. Len(out) = 0 /\ 1 < Len(out)
      BY <1>1 DEF ReadReply, Whole
    <2> QED
      BY <2>1
  <1>3. /\ UNCHANGED <<asked, com_state, sized, id, totalSize, com_bytes_processed, fram, COM_PARAMETER, stack, FLAG_COM>>
        /\ out' = <<>> /\ host' # "open"
    BY <1>1, <1>2 DEF GiveUp, Deliver, Expire, hostVars, parser, session
  <1>4. Wired(t)'
    <2>1. CASE Deliver
      <3>1. host # "closed"
        BY <2>1 DEF AskedInv, Deliver
      <3> QED
        BY <2>1, <3>1, WireDelivered DEF Reading
    <2>2. CASE GiveUp \/ Expire
      <3>1. UNCHANGED <<link, asked>> /\ (host' = "closed" \/ (host # "closed" /\ unsent' = unsent))
        BY <2>2 DEF GiveUp, Expire, hostVars
      <3> QED
        BY <3>1, WireKept DEF Reading
    <2> QED
      BY <1>2, <2>1, <2>2
  <1>5. ParserAt(p)' /\ (p > SIZE_BYTES => FramAt(Data(p))')
    BY <1>3, ParserKept DEF Reading
  <1>6. Calling(p, t)'
    BY <1>3 DEF Reading, Calling, Alone, Top, At, Holds
  <1>7. Reading(p, t)'
    BY <1>3, <1>4, <1>5, <1>6 DEF Reading
  <1> QED
    BY <1>3, <1>7, ReadingServed

\* The next packet of the command.
LEMMA ReadingTakes ==
  ASSUME CommInv, AskedInv, asked \in Commands, FLAG_COM, NEW t \in 0..Len(asked), NEW p \in 0..t, Reading(p, t), Poll
  PROVE  Served'
  <1>1. /\ link # <<>> /\ link' = Tail(link) /\ stack' = Append(stack, Call(Head(link))) /\ (stack = <<>> \/ At("confirm"))
        /\ UNCHANGED <<host, asked, unsent, out, com_state, sized, id, totalSize, com_bytes_processed, fram, COM_PARAMETER, FLAG_COM>>
    BY DEF Poll, Take, hostVars, parser, session
  <1>2. stack = <<>> /\ p = t
    BY <1>1, ReadingIs DEF At
  <1>3. PICK u \in 0..Len(asked) : t < u /\ Holds(Head(link), t, u) /\ Wired(u)' /\ (u = Len(asked) \/ u >= CDC_TXRX_EPSIZE)
    BY <1>1, WireTaken DEF Reading
  <1>4. u \in Nat /\ t \in Nat /\ p <= u /\ p < u /\ p < Len(asked) /\ Len(asked) \in Nat /\ p \in 0..u
    BY <1>2, <1>3, ReadingIs
  <1>5. PICK packet \in Seq(Byte) \ {<<>>} : packet = Head(link)
    BY <1>1, TakeKeeps DEF CommInv
  <1>6. PICK c : c = Call(packet) /\ c.at = "start" /\ c.data = packet /\ c.left = Len(packet)
    <2> DEFINE d == Call(packet)
    <2>1. d.at = "start" /\ d.data = packet /\ d.left = Len(packet)
      BY DEF Call
    <2> QED
      BY <2>1
  <1>7. Len(stack') = 1 /\ stack'[1] = c /\ stack' # <<>>
    BY <1>1, <1>2, <1>5, <1>6
  <1>8. Top' = c /\ Alone'
    BY <1>7 DEF Top, Alone
  <1>9. Holds(c.data, p, u)' /\ c.left = u - p
    BY <1>1, <1>2, <1>3, <1>5, <1>6 DEF Holds
  <1>10. Calling(p, u)'
    BY <1>1, <1>4, <1>6, <1>7, <1>8, <1>9 DEF Calling
  <1>11. ParserAt(p)' /\ (p > SIZE_BYTES => FramAt(Data(p))')
    BY <1>1, ParserKept DEF Reading
  <1>12. Reading(p, u)'
    BY <1>1, <1>3, <1>4, <1>10, <1>11 DEF Reading
  <1> QED
    BY <1>1, <1>4, <1>12, ReadingServed

\* The start of a call: a command that has waited too long is cut off.
LEMMA ReadingStarts ==
  ASSUME CommInv, AskedInv, asked \in Commands, FLAG_COM, NEW t \in 0..Len(asked), NEW p \in 0..t, Reading(p, t), Start
  PROVE  Served'
  <1>1. /\ stack # <<>> /\ Top.at = "start"
        /\ UNCHANGED <<host, asked, unsent, link, out, com_state, sized, id, totalSize, com_bytes_processed, fram, COM_PARAMETER, FLAG_COM>>
    BY DEF Start, At, hostVars, parser, session
  <1>2. /\ Alone /\ Top \in Calls /\ Top.left = t - p /\ Holds(Top.data, p, t) /\ host \in {"closed", "busy"} /\ out = <<>>
        /\ StackOK
    BY <1>1, ReadingIs DEF CommInv
  <1>3. Top.left \in Nat /\ Top.reply \in Byte /\ Top.next \in Nexts
    BY <1>2 DEF Calls
  <1>4. CASE timeout /\ com_state # "ID"
    <2>1. Become(Now("send_id", Top.left, COM_END, "aborted")) /\ timeout' = timeout
      BY <1>4 DEF Start, Send
    <2>2. COM_END \in Byte /\ "aborted" \in Nexts /\ "send_id" \in Places
      BY Replies DEF Places, Nexts
    <2>3. Len(stack') = 1 /\ Top'.at = "send_id" /\ Top'.next = "aborted"
      BY <1>1, <1>2, <1>3, <2>1, <2>2, LastGoes
    <2>4. \A k \in 1..Len(stack') : stack'[k] = Top'
      BY <2>3 DEF Top
    <2>5. Cut'
      BY <1>1, <1>4, <2>1, <2>3, <2>4 DEF Cut, AllEarly, Early, Sends
    <2>6. \A k \in 1..Len(stack') : stack'[k].at \notin {"send_rest", "aborted"}
      BY <2>3, <2>4
    <2>7. Broken'
      BY <1>1, <1>2, <2>5, <2>6 DEF Broken
    <2> QED
      BY <1>1, <2>7 DEF Served, Serving
  <1>5. CASE ~(timeout /\ com_state # "ID")
    <2>1. Goto("loop")
      BY <1>5 DEF Start
    <2>2. Become(Now("loop", Top.left, Top.reply, Top.next)) /\ "loop" \in Places
      BY <1>1, <1>2, <2>1, CallChanged DEF Goto, Places
    <2>3. Alone' /\ stack' # <<>> /\ Top'.at = "loop" /\ Top'.left = Top.left /\ Top'.data = Top.data
      BY <1>1, <1>2, <1>3, <2>2, LastGoes
    <2>4. Calling(p, t)'
      BY <1>1, <1>2, <2>3 DEF Calling, At, Holds
    <2>5. ParserAt(p)' /\ (p > SIZE_BYTES => FramAt(Data(p))')
      BY <1>1, ParserKept DEF Reading
    <2>6. Wired(t)'
      <3>1. host' = "closed" \/ (host # "closed" /\ unsent' = unsent)
        BY <1>1
      <3> QED
        BY <1>1, <3>1, WireKept DEF Reading
    <2>7. Reading(p, t)'
      BY <1>1, <1>2, <2>4, <2>5, <2>6 DEF Reading
    <2> QED
      BY <1>1, <2>7, ReadingServed
  <1> QED
    BY <1>4, <1>5
\* A byte of the header of a command.
LEMMA ReadingHeader ==
  ASSUME CommInv, FreshInv, AskedInv, asked \in Commands, FLAG_COM, NEW t \in 0..Len(asked), NEW p \in 0..t, Reading(p, t),
         ReadId \/ ReadSize
  PROVE  Served'
  <1>1. /\ stack # <<>> /\ At("loop") /\ Top.at = "loop" /\ Picked /\ Top.left > 0
        /\ UNCHANGED <<host, asked, unsent, link, out, fram, COM_PARAMETER, COM_POS, FLAG_COM>>
    BY DEF ReadId, ReadSize, At, hostVars, session, CommInv, LoopOK
  <1>2. PICK c \in Calls : /\ c.at = "loop" /\ c.data = Tail(Top.data) /\ c.left = Top.left - 1
           /\ Len(stack') = Len(stack) /\ stack'[Len(stack)] = c /\ stack' # <<>> /\ Top' = c
           /\ Top.data \in Seq(Byte) /\ Top.data # <<>> /\ Top.left \in Nat /\ Top.left <= Len(Top.data)
    BY <1>1, PickedIs
  <1>3. /\ asked \in Seq(Byte) /\ Len(asked) \in Nat /\ t \in Nat /\ p \in Nat /\ p <= t /\ t <= Len(asked)
        /\ Alone /\ Top.left = t - p /\ Holds(Top.data, p, t)
        /\ com_state = "ID" => p = 0
        /\ com_state = "SIZE" => p \in 1..SIZE_BYTES
    BY <1>1, ReadingIs
  <1>4. p < t /\ p + 1 \in 0..t /\ p + 1 <= Len(asked) /\ p + 1 \in Nat
    BY <1>1, <1>3
  <1>5. /\ Head(Top.data) = Top.data[1] /\ 1 \in 1..Len(Top.data) /\ Len(Tail(Top.data)) = Len(Top.data) - 1
        /\ \A k \in 1..Len(Tail(Top.data)) : Tail(Top.data)[k] = Top.data[k + 1] /\ k + 1 \in 1..Len(Top.data)
    BY <1>2, FirstRemoved
  <1>6. Head(Top.data) = asked[p + 1]
    BY <1>3, <1>5 DEF Holds
  <1>7. Holds(c.data, p + 1, t)
    <2>1. \A k \in 1..Len(Top.data) : Top.data[k] = asked[p + k]
      BY <1>3 DEF Holds
    <2>2. Len(Tail(Top.data)) = t - (p + 1)
      BY <1>3, <1>5 DEF Holds
    <2>3. \A k \in 1..Len(Tail(Top.data)) : p + (k + 1) = (p + 1) + k
      BY <1>3
    <2>4. \A k \in 1..Len(Tail(Top.data)) : Tail(Top.data)[k] = asked[(p + 1) + k]
      BY <1>5, <2>1, <2>3
    <2> QED
      BY <1>2, <2>2, <2>4, HeldBytes
  <1>8. Alone' /\ Holds(Top.data, p + 1, t)' /\ Top'.at = "loop" /\ Top'.left = t - (p + 1)
    <2>1. Top'.left = t - (p + 1)
      BY <1>2, <1>3
    <2> QED
      BY <1>1, <1>2, <1>3, <1>7, <2>1 DEF Alone, Holds
  <1>9. Calling(p + 1, t)'
    BY <1>1, <1>2, <1>8 DEF Calling, At
  <1>10. Wired(t)'
    <2>1. UNCHANGED <<link, asked>> /\ (host' = "closed" \/ (host # "closed" /\ unsent' = unsent))
      BY <1>1
    <2> QED
      BY <2>1, WireKept DEF Reading
  <1>11. ASSUME ParserAt(p + 1)', (p + 1 > SIZE_BYTES => FramAt(Data(p + 1))') PROVE Served'
    <2>1. p + 1 <= t
      BY <1>4
    <2>2. Reading(p + 1, t)'
      BY <1>1, <1>9, <1>10, <1>11, <2>1 DEF Reading
    <2> QED
      BY <1>1, <1>4, <2>2, ReadingServed
  <1>12. CASE ReadId
    <2>1. com_state = "ID" /\ id' = Head(Top.data) /\ com_state' = "SIZE" /\ sized' = 0
      BY <1>12 DEF ReadId
    <2>2. p = 0 /\ p + 1 = 1
      BY <1>3, <2>1
    <2>3. /\ ~(1 = 0) /\ ~(1 > SIZE_BYTES) /\ 0 = 1 - 1 /\ ~(0 > 0)
      BY Numbers
    <2>4. ParserAt(1)'
      BY <1>1, <1>6, <2>1, <2>2, <2>3 DEF ParserAt
    <2> QED
      BY <1>11, <2>2, <2>3, <2>4
  <1>13. CASE ReadSize
    <2>1. /\ com_state = "SIZE" /\ id' = id
          /\ totalSize' = IF sized = 0 THEN Head(Top.data) ELSE totalSize + Shifted(Head(Top.data), sized)
          /\ sized' = sized + 1
          /\ IF sized' = SIZE_BYTES
             THEN com_state' = "DATA" /\ com_bytes_processed' = 0
             ELSE UNCHANGED <<com_state, com_bytes_processed>>
      BY <1>13 DEF ReadSize
    <2>2. p \in 1..SIZE_BYTES /\ sized = p - 1 /\ id = asked[1] /\ (sized > 0 => totalSize = Number(asked, 1, sized))
      BY <1>3, <2>1 DEF Reading, ParserAt
    <2>3. PICK n \in {0, 1, 2} : n = sized /\ p = n + 1 /\ 1 + n + 1 <= Len(asked) /\ 1 + n + 1 = p + 1
      BY <1>3, <1>4, <2>2, Numbers
    <2>4. totalSize' = Number(asked, 1, p)
      <3>1. /\ Number(asked, 1, n + 1) = Number(asked, 1, n) + Shifted(asked[1 + n + 1], n)
            /\ Number(asked, 1, 1) = asked[1 + 1]
        BY <1>3, <2>3, NextByte
      <3>2. Head(Top.data) = asked[1 + n + 1]
        BY <1>6, <2>3
      <3>3. CASE n = 0
        BY <2>1, <2>3, <3>1, <3>2, <3>3
      <3>4. CASE n # 0
        <4>1. sized > 0 /\ sized # 0
          BY <2>3, <3>4
        <4> QED
          BY <2>1, <2>2, <2>3, <3>1, <3>2, <4>1
      <3> QED
        BY <3>3, <3>4
    <2>5. sized' = p
      BY <2>1, <2>3
    <2>6. CASE p = SIZE_BYTES
      <3>1. com_state' = "DATA" /\ com_bytes_processed' = 0
        BY <2>1, <2>5, <2>6
      <3>2. /\ p + 1 # 0 /\ p + 1 \notin 1..SIZE_BYTES /\ p + 1 > SIZE_BYTES
            /\ Data(p + 1) = 0
        BY <1>3, <2>6, Numbers DEF Data
      <3>3. ParserAt(p + 1)'
        BY <1>1, <2>1, <2>2, <2>4, <2>6, <3>1, <3>2 DEF ParserAt, Number
      <3>4. FramAt(0)'
        <4>1. COM_PARAMETER = 0
          BY <2>1 DEF FreshInv, Gathering
        <4>2. Address(0)' = 0
          <5>1. 0 < ADDRESS_BYTES
            BY Numbers
          <5>2. Number(asked', 1 + SIZE_BYTES, 0) = 0
            BY DEF Number
          <5> QED
            BY <5>1, <5>2 DEF Address
        <4>3. Written(0)'
          <5>1. ~(0 > ADDRESS_BYTES)
            BY Numbers
          <5> QED
            BY <5>1 DEF Written
        <4> QED
          BY <1>1, <4>1, <4>2, <4>3 DEF FramAt
      <3>5. FramAt(Data(p + 1))'
        <4>1. Data(p + 1) = 0
          BY <3>2
        <4> QED
          BY <3>4, <4>1 DEF Data
      <3> QED
        BY <1>11, <3>3, <3>5
    <2>7. CASE p # SIZE_BYTES
      <3>1. com_state' = com_state
        BY <2>1, <2>5, <2>7
      <3>2. p + 1 # 0 /\ p + 1 \in 1..SIZE_BYTES /\ ~(p + 1 > SIZE_BYTES) /\ (p + 1) - 1 = p
        BY <1>3, <2>2, <2>7, Numbers
      <3>3. ParserAt(p + 1)'
        BY <1>1, <2>1, <2>2, <2>4, <2>5, <3>1, <3>2 DEF ParserAt, Number
      <3> QED
        BY <1>11, <3>2, <3>3
    <2> QED
      BY <2>6, <2>7
  <1> QED
    BY <1>12, <1>13

\* The packet is read, and the call returns; or the wallet starts afresh.
LEMMA ReadingEnds ==
  ASSUME CommInv, AskedInv, asked \in Commands, FLAG_COM, NEW t \in 0..Len(asked), NEW p \in 0..t, Reading(p, t),
         SizeMissing \/ After \/ Reset
  PROVE  Served'
  <1>1. CASE Reset
    BY <1>1 DEF Reset, Served
  <1>2. CASE SizeMissing \/ After
    <2>1. /\ stack # <<>>
          /\ UNCHANGED <<host, asked, unsent, link, out, com_state, sized, id, totalSize, com_bytes_processed, fram, COM_PARAMETER, FLAG_COM>>
          /\ (Top.at = "loop" /\ com_state = "SIZE" /\ Top.left = 0 /\ Return) \/ (Top.at = "after" /\ (Top.left > 0 \/ Return))
      BY <1>2 DEF SizeMissing, After, At, hostVars, parser, session
    <2>2. /\ Alone /\ Top.left = t - p /\ t \in Nat /\ p \in Nat
          /\ Top.at = "after" => Top.left = 0
          /\ com_state = "SIZE" => p \in 1..SIZE_BYTES
      BY <2>1, ReadingIs
    <2>3. Return /\ p = t
      <3>1. Top.left = 0 /\ Return
        BY <2>1, <2>2
      <3> QED
        BY <2>2, <3>1
    <2>4. stack' = <<>>
      BY <2>1, <2>2, <2>3, LastReturns
    <2>5. ~(p > SIZE_BYTES /\ p = Len(asked))
      <3>1. CASE Top.at = "after"
        BY <3>1 DEF Reading, Calling, At
      <3>2. CASE com_state = "SIZE"
        BY <2>2, <3>2, Numbers
      <3> QED
        BY <2>1, <3>1, <3>2
    <2>6. Calling(p, t)'
      BY <2>1, <2>3, <2>4, <2>5 DEF Calling
    <2>7. ParserAt(p)' /\ (p > SIZE_BYTES => FramAt(Data(p))')
      BY <2>1, ParserKept DEF Reading
    <2>8. Wired(t)'
      <3>1. UNCHANGED <<link, asked>> /\ (host' = "closed" \/ (host # "closed" /\ unsent' = unsent))
        BY <2>1
      <3> QED
        BY <3>1, WireKept DEF Reading
    <2>9. Reading(p, t)'
      BY <2>1, <2>6, <2>7, <2>8 DEF Reading
    <2> QED
      BY <2>1, <2>9, ReadingServed
  <1> QED
    BY <1>1, <1>2
-----------------------------------------------------------------------------
\* The commands that have no part to write come whole, or without data.
LEMMA OnePacket ==
  ASSUME CommInv, AskedInv, asked \in Commands, NEW t \in 0..Len(asked), NEW p \in 0..t, Reading(p, t),
         p > SIZE_BYTES, asked[1] \notin Parted
  PROVE  t = Len(asked)
  <1>1. t \in Nat /\ p \in Nat /\ p <= t /\ t <= Len(asked) /\ Len(asked) \in Nat
    BY ReadingIs
  <1>2. /\ Len(asked) = 1 + SIZE_BYTES + Number(asked, 1, SIZE_BYTES)
        /\ Len(asked) <= CDC_TXRX_EPSIZE \/ Number(asked, 1, SIZE_BYTES) = 0
    BY AskedBytes DEF WellFormed, Parted
  <1>3. CASE Len(asked) <= CDC_TXRX_EPSIZE
    <2>1. t # 0
      BY <1>1, Numbers
    <2>2. t = Len(asked) \/ t >= CDC_TXRX_EPSIZE
      BY <2>1 DEF Reading
    <2> QED
      BY <1>1, <1>3, <2>2, Numbers
  <1>4. CASE Number(asked, 1, SIZE_BYTES) = 0
    <2>1. Len(asked) = 1 + SIZE_BYTES
      BY <1>2, <1>4, Numbers
    <2> QED
      BY <1>1, <2>1, Numbers
  <1> QED
    BY <1>2, <1>3, <1>4

\* What com_exec gets: all that has come of the data, and no more.
LEMMA ReadingTaken ==
  ASSUME CommInv, AskedInv, asked \in Commands, NEW t \in 0..Len(asked), NEW p \in 0..t, Reading(p, t), Taken
  PROVE  /\ stack # <<>> /\ Alone /\ Top \in Calls /\ Top.at = "loop" /\ com_state = "DATA"
         /\ p > SIZE_BYTES /\ id = asked[1] /\ id \in Byte /\ id # COM_INIT
         /\ com_bytes_processed = Data(p) /\ Data(p) \in Nat /\ Available \in Nat /\ Data(p) + Available = Data(t)
         /\ totalSize = Number(asked, 1, SIZE_BYTES) /\ totalSize = Data(Len(asked)) /\ totalSize \in Nat
         /\ 1 + SIZE_BYTES + Data(p) + Available <= Len(asked)
         /\ Top.left - Available = 0
         /\ Data(t) = totalSize <=> t = Len(asked)
         /\ com_state' = (IF t = Len(asked) THEN "ID" ELSE "DATA")
         /\ com_bytes_processed' = Data(t)
         /\ Continues(Data(p))
         /\ UNCHANGED <<host, asked, unsent, link, out, id, totalSize>>
         /\ Wired(t)' /\ out = <<>> /\ host \in {"closed", "busy"}
  <1>1. /\ stack # <<>> /\ At("loop") /\ Top.at = "loop" /\ com_state = "DATA"
        /\ com_bytes_processed' = com_bytes_processed + Available
        /\ com_state' = IF Top.left < Missing THEN "DATA" ELSE "ID"
        /\ UNCHANGED <<host, asked, unsent, link, out, id, totalSize>>
    BY DEF Taken, At, hostVars
  <1>2. /\ asked \in Seq(Byte) /\ Len(asked) \in Nat /\ t \in Nat /\ p \in Nat /\ p <= t /\ t <= Len(asked)
        /\ Alone /\ Top \in Calls /\ Top.left = t - p /\ Holds(Top.data, p, t)
        /\ p > SIZE_BYTES /\ host \in {"closed", "busy"} /\ out = <<>>
    BY <1>1, ReadingIs
  <1>3. /\ id = asked[1] /\ totalSize = Number(asked, 1, SIZE_BYTES) /\ com_bytes_processed = Data(p)
    BY <1>2 DEF Reading, ParserAt
  <1>4. /\ Len(asked) = 1 + SIZE_BYTES + totalSize /\ asked[1] # COM_INIT
        /\ totalSize \in Nat /\ id \in Byte
    BY <1>3, AskedBytes DEF WellFormed, CommInv, VariablesOK, Byte
  <1>5. PICK S \in Nat, L \in Nat : S = SIZE_BYTES /\ L = Len(asked)
    BY <1>2, Numbers
  <1>6. /\ Data(p) = p - (1 + S) /\ Data(t) = t - (1 + S) /\ Data(L) = L - (1 + S) /\ Data(p) \in Nat /\ L = 1 + S + totalSize
    BY <1>2, <1>4, <1>5 DEF Data
  <1>7. /\ Available \in Nat /\ Missing \in Nat /\ Missing = totalSize - com_bytes_processed
        /\ Top.left < Missing => Available = Top.left
        /\ ~(Top.left < Missing) => Available = Missing
        /\ Given \in Seq(Byte) /\ Len(Given) = Available
    BY <1>1, GivenData DEF CommInv, Missing
  <1>8. Missing = L - p
    BY <1>2, <1>3, <1>4, <1>5, <1>6, <1>7
  <1>9. Available = t - p /\ (Top.left < Missing <=> t < L)
    BY <1>2, <1>5, <1>7, <1>8
  <1>10. /\ Data(p) + Available = Data(t) /\ 1 + SIZE_BYTES + Data(p) + Available <= Len(asked)
         /\ Top.left - Available = 0 /\ totalSize = Data(Len(asked)) /\ (Data(t) = totalSize <=> t = Len(asked))
         /\ 1 + SIZE_BYTES + Data(p) = p
    BY <1>2, <1>4, <1>5, <1>6, <1>9
  <1>11. com_state' = (IF t = Len(asked) THEN "ID" ELSE "DATA")
    BY <1>1, <1>2, <1>5, <1>9
  <1>12. Continues(Data(p))
    <2>1. Top.data \in Seq(Byte) /\ Len(Top.data) = t - p /\ \A k \in 1..Len(Top.data) : Top.data[k] = asked[p + k]
      BY <1>2 DEF Calls, Holds
    <2>2. \A k \in 1..Len(SubSeq(Top.data, 1, Available)) : SubSeq(Top.data, 1, Available)[k] = Top.data[1 + k - 1]
      BY <1>7, <1>9, <2>1, Part
    <2>3. \A k \in 1..Available : Given[k] = Top.data[k] /\ k \in 1..Len(Top.data)
      BY <1>7, <1>9, <2>1, <2>2 DEF Given
    <2> QED
      BY <1>10, <2>1, <2>3 DEF Continues, Follows
  <1>13. Wired(t)'
    <2>1. UNCHANGED <<link, asked>> /\ (host' = "closed" \/ (host # "closed" /\ unsent' = unsent))
      BY <1>1, <1>2
    <2> QED
      BY <2>1, WireKept DEF Reading
  <1> QED
    BY <1>1, <1>2, <1>3, <1>4, <1>6, <1>7, <1>10, <1>11, <1>12, <1>13
\* The command is dealt with, and its answer goes out.
LEMMA ReadingAnswered ==
  ASSUME CommInv, AskedInv, asked \in Commands, NEW t \in 0..Len(asked), NEW p \in 0..t, Reading(p, t), Taken,
         t = Len(asked), NEW reply \in Byte, NEW next \in Nexts, Answer(reply, next), FLAG_COM',
         asked[1] = COM_SET_FRAM => Written(Data(Len(asked)))'
  PROVE  Served'
  <1>1. /\ stack # <<>> /\ Alone /\ Top.left - Available = 0 /\ com_state' = "ID" /\ UNCHANGED <<host, asked, out>>
        /\ Wired(t)' /\ out = <<>> /\ host \in {"closed", "busy"}
    BY ReadingTaken
  <1>2. Become(Now("send_id", 0, reply, next)) /\ "send_id" \in Places /\ 0 \in Nat
    BY <1>1 DEF Answer, Places
  <1>3. Len(stack') = 1 /\ stack' # <<>> /\ Top'.at = "send_id" /\ Top'.left = 0
    BY <1>1, <1>2, LastGoes
  <1>4. Wired(Len(asked))'
    BY <1>1 DEF Wired
  <1>5. Len(stack') <= 1
    BY <1>3
  <1>6. At("send_id")'
    BY <1>3 DEF At
  <1>7. asked'[1] = COM_SET_FRAM => Written(Data(Len(asked)))'
    BY <1>1
  <1>8. host' # "open" /\ out' = <<>>
    BY <1>1
  <1>9. Answering'
    BY <1>1, <1>3, <1>4, <1>5, <1>6, <1>7, <1>8 DEF Answering
  <1> QED
    BY <1>9 DEF Served, Serving

\* A part of the data is dealt with, and the call returns for the next.
LEMMA ReadingGoesOn ==
  ASSUME CommInv, AskedInv, asked \in Commands, NEW t \in 0..Len(asked), NEW p \in 0..t, Reading(p, t), Taken,
         t # Len(asked), Become(Rest("after")), FLAG_COM', FramAt(Data(t))'
  PROVE  Served'
  <1>1. /\ stack # <<>> /\ Alone /\ Top \in Calls /\ Top.left - Available = 0 /\ com_state' = "DATA"
        /\ UNCHANGED <<host, asked, out, id, totalSize>>
        /\ Wired(t)' /\ out = <<>> /\ host \in {"closed", "busy"} /\ id = asked[1] /\ p > SIZE_BYTES
        /\ totalSize = Number(asked, 1, SIZE_BYTES) /\ com_bytes_processed' = Data(t)
    BY ReadingTaken
  <1>2. /\ t \in Nat /\ p \in Nat /\ p <= t /\ t <= Len(asked)
    BY ReadingIs
  <1>3. t > SIZE_BYTES /\ t # 0 /\ t \notin 1..SIZE_BYTES /\ t \in 0..t
    BY <1>1, <1>2, Numbers
  <1>4. Top.reply \in Byte /\ Top.next \in Nexts
    BY <1>1 DEF Calls
  <1>5. Become(Now("after", 0, Top.reply, Top.next)) /\ "after" \in Places /\ 0 \in Nat
    BY <1>1 DEF Rest, Places
  <1>6. Alone' /\ stack' # <<>> /\ Top'.at = "after" /\ Top'.left = 0
    BY <1>1, <1>4, <1>5, LastGoes
  <1>7. ParserAt(t)'
    BY <1>1, <1>3 DEF ParserAt, Number, Data
  <1>8. Calling(t, t)'
    BY <1>1, <1>6 DEF Calling
  <1>9. t = 0 \/ t = Len(asked') \/ t >= CDC_TXRX_EPSIZE
    BY <1>1 DEF Reading
  <1>10. t <= t
    BY <1>2
  <1>11. Reading(t, t)'
    BY <1>1, <1>7, <1>8, <1>9, <1>10 DEF Reading
  <1> QED
    BY <1>1, <1>3, <1>11, ReadingServed

\* com_exec while a command is read.
LEMMA ReadingExec ==
  ASSUME CommInv, FreshInv, AskedInv, asked \in Commands, FLAG_COM, NEW t \in 0..Len(asked), NEW p \in 0..t, Reading(p, t),
         Exec
  PROVE  Served'
  <1>1. Taken
    BY DEF Exec, ExecVersion, ExecRefused, ExecInit, ExecEnd, ExecGet, ExecSetFram, ExecSetKey, ExecUnknown, ExecReset
  <1>2. /\ stack # <<>> /\ Alone /\ com_state = "DATA" /\ p > SIZE_BYTES /\ id = asked[1] /\ id # COM_INIT
        /\ com_bytes_processed = Data(p) /\ Data(p) \in Nat /\ Available \in Nat /\ Data(p) + Available = Data(t)
        /\ totalSize = Data(Len(asked))
        /\ 1 + SIZE_BYTES + Data(p) + Available <= Len(asked)
        /\ Top.left - Available = 0
        /\ Data(t) = totalSize <=> t = Len(asked)
        /\ Continues(Data(p))
        /\ UNCHANGED <<host, asked, unsent, link, out>>
        /\ out = <<>> /\ host \in {"closed", "busy"}
    BY <1>1, ReadingTaken
  <1>3. asked[1] \notin Parted => t = Len(asked)
    BY <1>2, OnePacket
  <1>4. /\ COM_VERSION \in Byte /\ COM_FRAM \in Byte /\ COM_PARAM \in Byte /\ COM_KEY \in Byte /\ COM_ERR_UNAVAILABLE \in Byte
        /\ COM_END \in Byte /\ COM_OK \in Byte /\ COM_BAD_KEY \in Byte
        /\ "after" \in Nexts /\ "unknown_aborted" \in Nexts /\ "reset" \in Nexts
    BY Replies DEF Nexts
  <1>5. CASE ExecVersion
    <2>1. Answer(COM_VERSION, "after") /\ FLAG_COM' = FLAG_COM /\ asked[1] \notin Parted /\ asked[1] # COM_SET_FRAM
      BY <1>2, <1>5 DEF ExecVersion, session, Parted, COM_GET_VERSION, COM_SET_FRAM, COM_SET_KEY
    <2> QED
      BY <1>1, <1>3, <1>4, <2>1, ReadingAnswered
  <1>6. CASE ExecRefused \/ ExecInit
    BY <1>2, <1>6 DEF ExecRefused, ExecInit
  <1>7. CASE ExecEnd
    <2>1. Answer(COM_END, "after") /\ ~FLAG_COM'
      BY <1>7 DEF ExecEnd
    <2>2. Become(Now("send_id", 0, COM_END, "after")) /\ "send_id" \in Places /\ 0 \in Nat
      BY <1>2, <2>1 DEF Answer, Places
    <2>3. Alone' /\ Top'.at = "send_id" /\ Top'.reply = COM_END
      BY <1>2, <1>4, <2>2, LastGoes
    <2> QED
      BY <1>2, <2>1, <2>3 DEF Served, Refusing, Closing
  <1>8. CASE ExecGet
    <2>1. PICK reply \in Byte : Answer(reply, "after")
      BY <1>4, <1>8 DEF ExecGet
    <2>2. FLAG_COM' = FLAG_COM /\ asked[1] \notin Parted /\ asked[1] # COM_SET_FRAM
      BY <1>2, <1>8 DEF ExecGet, session, Parted, COM_GET_FRAM, COM_GET_PARAM, COM_GET_KEY, COM_SET_FRAM, COM_SET_KEY
    <2> QED
      BY <1>1, <1>3, <1>4, <2>1, <2>2, ReadingAnswered
  <1>9. CASE ExecUnknown
    <2>1. Answer(COM_END, "unknown_aborted") /\ FLAG_COM' = FLAG_COM /\ asked[1] \notin Parted /\ asked[1] # COM_SET_FRAM
      BY <1>2, <1>9 DEF ExecUnknown, session, Parted, Known
    <2> QED
      BY <1>1, <1>3, <1>4, <2>1, ReadingAnswered
  <1>10. CASE ExecReset
    <2>1. Answer(COM_OK, "reset") /\ FLAG_COM' = FLAG_COM /\ asked[1] \notin Parted /\ asked[1] # COM_SET_FRAM
      BY <1>2, <1>10 DEF ExecReset, session, Parted, COM_RESET, COM_SET_FRAM, COM_SET_KEY
    <2> QED
      BY <1>1, <1>3, <1>4, <2>1, ReadingAnswered
  <1>11. ASSUME id \in Parted PROVE COM_POS = Data(p)
    BY <1>2, <1>11 DEF FreshInv, Gathering
  <1>12. CASE ExecSetKey
    <2>1. /\ FLAG_COM' = FLAG_COM /\ id = COM_SET_KEY
          /\ IF COM_POS + Available = totalSize THEN \E reply \in Byte : Answer(reply, "after") ELSE Become(Rest("after"))
      BY <1>4, <1>12 DEF ExecSetKey
    <2>2. COM_POS + Available = Data(t) /\ asked[1] # COM_SET_FRAM
      BY <1>2, <1>11, <2>1 DEF Parted, COM_SET_FRAM, COM_SET_KEY
    <2>3. CASE t = Len(asked)
      <3>1. PICK reply \in Byte : Answer(reply, "after")
        BY <1>2, <2>1, <2>2, <2>3
      <3> QED
        BY <1>1, <1>4, <2>1, <2>2, <2>3, <3>1, ReadingAnswered
    <2>4. CASE t # Len(asked)
      <3>1. Become(Rest("after"))
        BY <1>2, <2>1, <2>2, <2>4
      <3>2. FramAt(Data(t))'
        BY <1>2, <2>2 DEF FramAt
      <3> QED
        BY <1>1, <2>1, <2>4, <3>1, <3>2, ReadingGoesOn
    <2> QED
      BY <2>3, <2>4
  <1>13. CASE ExecSetFram
    <2>1. /\ FLAG_COM' = FLAG_COM /\ id = COM_SET_FRAM
          /\ IF COM_POS + Available = totalSize THEN Answer(COM_OK, "after") ELSE Become(Rest("after"))
      BY <1>13 DEF ExecSetFram
    <2>2. COM_POS = Data(p) /\ COM_POS + Available = Data(t) /\ asked[1] = COM_SET_FRAM
      BY <1>2, <1>11, <2>1 DEF Parted
    <2>3. COM_PARAMETER = Address(Data(p)) /\ Written(Data(p))
      BY <1>2, <2>2 DEF Reading, FramAt
    <2>4. PICK q \in Nat, m \in Nat : q = Data(p) /\ m = Available /\ q = COM_POS /\ q + m = Data(t)
      BY <1>2, <2>2
    <2>5. COM_PARAMETER = Address(q) /\ Written(q) /\ Continues(q) /\ 1 + SIZE_BYTES + q + m <= Len(asked)
      BY <1>2, <2>3, <2>4
    <2>6. Written(q + m)' /\ COM_PARAMETER' = IF q + m = totalSize THEN 0 ELSE Address(q + m)
      BY <1>13, <2>2, <2>4, <2>5, FramGathers
    <2>7. COM_PARAMETER' = IF Data(t) = totalSize THEN 0 ELSE Address(Data(t))
      BY <2>4, <2>6
    <2>8. Written(Data(t))'
      BY <2>4, <2>6 DEF Written, Data
    <2>9. CASE t = Len(asked)
      <3>1. Answer(COM_OK, "after")
        BY <1>2, <2>1, <2>2, <2>9
      <3>2. Written(Data(Len(asked)))'
        BY <1>2, <2>8, <2>9
      <3> QED
        BY <1>1, <1>4, <2>1, <2>9, <3>1, <3>2, ReadingAnswered
    <2>10. CASE t # Len(asked)
      <3>1. Become(Rest("after")) /\ COM_PARAMETER' = Address(Data(t))
        BY <1>2, <2>1, <2>2, <2>7, <2>10
      <3>2. Address(Data(t))' = Address(Data(t))
        BY <1>2 DEF Address, Number, Data
      <3>3. FramAt(Data(t))'
        BY <2>8, <3>1, <3>2 DEF FramAt
      <3> QED
        BY <1>1, <2>1, <2>10, <3>1, <3>3, ReadingGoesOn
    <2> QED
      BY <2>9, <2>10
  <1> QED
    BY <1>5, <1>6, <1>7, <1>8, <1>9, <1>10, <1>12, <1>13 DEF Exec

\* Whatever happens while a command is read, it is read on, answered or cut off.
LEMMA ReadingServes ==
  ASSUME CommInv, FreshInv, AskedInv, asked \in Commands, FLAG_COM, NEW t \in 0..Len(asked), NEW p \in 0..t, Reading(p, t),
         Serves
  PROVE  Served'
  <1>1. CASE SendId \/ SendRest \/ Aborted \/ InitAborted \/ UnknownAborted \/ User
    <2>1. stack # <<>> /\ Top.at \in {"send_id", "send_rest", "aborted", "init_aborted", "unknown_aborted", "confirm"}
      BY <1>1 DEF SendId, SendRest, Aborted, InitAborted, UnknownAborted, User, ConfirmYes, ConfirmNo, At
    <2> QED
      BY <2>1, ReadingIs
  <1>2. CASE ReadReply \/ GiveUp \/ Deliver \/ Expire
    BY <1>2, ReadingHost
  <1>3. CASE Poll
    BY <1>3, ReadingTakes
  <1>4. CASE Start
    BY <1>4, ReadingStarts
  <1>5. CASE ReadId \/ ReadSize
    BY <1>5, ReadingHeader
  <1>6. CASE SizeMissing \/ After \/ Reset
    BY <1>6, ReadingEnds
  <1>7. CASE Exec
    BY <1>7, ReadingExec
  <1> QED
    BY <1>1, <1>2, <1>3, <1>4, <1>5, <1>6, <1>7 DEF Serves, Device
-----------------------------------------------------------------------------
\* The things a host may have asked for are told apart.
LEMMA KindsApart ==
  /\ Init_ # <<>> /\ Len(Init_) \in Nat
  /\ \A bytes \in Commands : bytes # Init_ /\ bytes # <<>>
  <1>1. Init_ # <<>> /\ Len(Init_) \in Nat
    <2>1. PICK request \in Seq(Byte) : request = Init_ /\ request # <<>>
      BY Request
    <2> QED
      BY <2>1
  <1>2. ASSUME NEW bytes \in Commands PROVE bytes # Init_ /\ bytes # <<>>
    <2>1. bytes[1] # COM_INIT /\ Len(bytes) > SIZE_BYTES
      BY WellFormedAssumption DEF WellFormed
    <2>2. bytes # <<>>
      <3>1. Len(<<>>) = 0 /\ ~(0 > SIZE_BYTES)
        BY Numbers
      <3> QED
        BY <2>1, <3>1
    <2> QED
      BY <2>1, <2>2, InitBytesAre
  <1> QED
    BY <1>1, <1>2

\* What the host believes follows what it asked for.
LEMMA HostAsks ==
  ASSUME CommInv, AskedInv, Next \/ UNCHANGED vars
  PROVE  /\ asked' \in Commands \cup {Init_, <<>>}
         /\ host' = "closed" => unsent' = <<>> /\ out' = <<>>
         /\ host' = "opening" => asked' = Init_
         /\ host' = "busy" => asked' \in Commands
         /\ asked' # asked => Connect \/ Command
  <1>1. /\ asked \in Commands \cup {Init_, <<>>}
        /\ host = "closed" => unsent = <<>> /\ out = <<>>
        /\ host = "opening" => asked = Init_
        /\ host = "busy" => asked \in Commands
    BY DEF AskedInv
  <1>2. CASE Connect \/ Command
    BY <1>2 DEF Connect, Command
  <1>3. CASE Deliver
    BY <1>1, <1>3 DEF Deliver
  <1>4. CASE ReadReply
    BY <1>1, <1>4 DEF ReadReply
  <1>5. CASE GiveUp \/ Reset
    BY <1>1, <1>5 DEF GiveUp, Reset
  <1>6. CASE SendId \/ SendRest
    <2>1. PICK part \in {"id", "rest"} : Out(part) /\ UNCHANGED <<host, asked, unsent>>
      BY <1>6, Sending
    <2> QED
      BY <1>1, <2>1 DEF Out
  <1>7. CASE Expire \/ UNCHANGED vars \/ ConfirmYes
    BY <1>1, <1>7 DEF Expire, ConfirmYes, vars, hostVars
  <1>8. CASE Poll \/ Start \/ Aborted \/ ReadId \/ ReadSize \/ SizeMissing \/ After \/ Exec \/ InitAborted \/ UnknownAborted
             \/ ConfirmNo
    <2>1. UNCHANGED hostVars
      BY <1>8 DEF Poll, Start, Aborted, ReadId, ReadSize, SizeMissing, After, InitAborted, UnknownAborted, ConfirmNo,
                  Exec, ExecVersion, ExecRefused, ExecInit, ExecEnd, ExecGet, ExecSetFram, ExecSetKey, ExecUnknown, ExecReset, Taken
    <2>2. UNCHANGED out
      BY <1>8, Inside
    <2> QED
      BY <1>1, <2>1, <2>2 DEF hostVars
  <1> QED
    BY <1>2, <1>3, <1>4, <1>5, <1>6, <1>7, <1>8 DEF Next, Device, User, Host

\* Before the host has asked for anything there is nothing to do.
LEMMA NothingAsked ==
  ASSUME CommInv, AskedInv, asked = <<>>, Serves
  PROVE  host' = "closed" /\ ~FLAG_COM' /\ link' = <<>> /\ stack' = <<>>
  <1>1. host = "closed" /\ ~FLAG_COM /\ link = <<>> /\ stack = <<>> /\ unsent = <<>>
    BY DEF AskedInv
  <1>2. CASE Expire
    BY <1>1, <1>2 DEF Expire, hostVars, session
  <1>3. ~(ReadReply \/ GiveUp \/ Deliver \/ Poll)
    BY <1>1 DEF ReadReply, GiveUp, Deliver, Poll
  <1>4. ~(SendId \/ SendRest \/ Start \/ Aborted \/ ReadId \/ ReadSize \/ SizeMissing \/ After)
    BY <1>1 DEF SendId, SendRest, Start, Aborted, ReadId, ReadSize, SizeMissing, After, At
  <1>5. ~(Exec \/ InitAborted \/ UnknownAborted \/ Reset \/ User)
    BY <1>1 DEF InitAborted, UnknownAborted, Reset, User, ConfirmYes, ConfirmNo, At,
                Exec, ExecVersion, ExecRefused, ExecInit, ExecEnd, ExecGet, ExecSetFram, ExecSetKey, ExecUnknown, ExecReset, Taken
  <1> QED
    BY <1>2, <1>3, <1>4, <1>5 DEF Serves, Device

\* Whatever happens while a session is asked for.
LEMMA OpeningServes ==
  ASSUME CommInv, AskedInv, asked = Init_, Serves
  PROVE  \E u \in 0..Len(asked) : Opening(u)'
  <1>1. PICK t \in 0..Len(asked) : Opening(t)
    BY DEF AskedInv
  <1>3. CASE ReadReply \/ GiveUp \/ Deliver \/ Expire
    BY <1>1, <1>3, OpeningHost
  <1>4. CASE Poll
    BY <1>1, <1>4, OpeningTakes
  <1>5. CASE SendId \/ SendRest
    BY <1>1, <1>5, OpeningSends
  <1>6. CASE Start
    BY <1>1, <1>6, OpeningStart
  <1>7. CASE Aborted
    BY <1>1, <1>7, OpeningAborted
  <1>8. CASE ReadId \/ ReadSize
    BY <1>1, <1>8, OpeningHeader
  <1>9. CASE SizeMissing \/ After
    BY <1>1, <1>9, OpeningEnds
  <1>10. CASE User \/ InitAborted \/ UnknownAborted
    BY <1>1, <1>10, OpeningAnswered DEF User
  <1>11. CASE Exec
    BY <1>1, <1>11, OpeningExec
  <1>12. CASE Reset
    BY <1>12, OpeningReset
  <1> QED
    BY <1>3, <1>4, <1>5, <1>6, <1>7, <1>8, <1>9, <1>10, <1>11, <1>12 DEF Serves, Device

\* Whatever happens to a command.
LEMMA CommandServed ==
  ASSUME CommInv, SessionInv, FreshInv, AskedInv, asked \in Commands, Serves
  PROVE  Served'
  <1>1. CASE ~FLAG_COM
    BY <1>1, RefusingServes
  <1>2. CASE FLAG_COM
    <2>1. Broken \/ Answering \/ \E t \in 0..Len(asked) : \E p \in 0..t : Reading(p, t)
      BY <1>2 DEF AskedInv, Served, Serving
    <2>2. CASE Broken
      BY <1>2, <2>2, BrokenServes
    <2>3. CASE Answering
      BY <1>2, <2>3, AnsweringServes
    <2>4. ASSUME NEW t \in 0..Len(asked), NEW p \in 0..t, Reading(p, t) PROVE Served'
      BY <1>2, <2>4, ReadingServes
    <2> QED
      BY <2>1, <2>2, <2>3, <2>4
  <1> QED
    BY <1>1, <1>2

\* Nothing happens.
LEMMA AskedStutters ==
  ASSUME AskedInv, UNCHANGED vars
  PROVE  AskedInv'
  <1>1. UNCHANGED <<host, asked, unsent, link, out, FLAG_COM, fram, com_state, sized, id, totalSize, com_bytes_processed,
                    COM_PARAMETER, timeout, stack>>
    BY DEF vars, hostVars, parser, session
  <1>2. \A t : Wired(t) => Wired(t)'
    BY <1>1 DEF Wired, OnWire, Holds
  <1>3. \A t : Opening(t) => Opening(t)'
    BY <1>1, <1>2 DEF Opening, HoldsFirst, Holds, Cut, AllEarly, Early, InitAhead, Unread, At, Top, Confirms, Unheard, Accepted,
                      ClosesFirst, Alone, Half, Full
  <1>4. \A p, t : Reading(p, t) => Reading(p, t)'
    <2> SUFFICES ASSUME NEW p, NEW t, Reading(p, t) PROVE Reading(p, t)'
      OBVIOUS
    <2>1. ParserAt(p)' /\ (p > SIZE_BYTES => FramAt(Data(p))')
      BY <1>1, ParserKept DEF Reading
    <2>2. Calling(p, t)'
      BY <1>1 DEF Reading, Calling, Alone, Top, At, Holds
    <2> QED
      BY <1>1, <1>2, <2>1, <2>2 DEF Reading
  <1>5. Answering => Answering'
    <2> SUFFICES ASSUME Answering PROVE Answering'
      OBVIOUS
    <2>1. Wired(Len(asked))'
      BY <1>1, <1>2 DEF Answering
    <2>2. asked'[1] = COM_SET_FRAM => Written(Data(Len(asked)))'
      BY <1>1 DEF Answering, Written, Data, AskedAt, AskedAddress, Number
    <2> QED
      BY <1>1, <2>1, <2>2 DEF Answering, ClosesFirst, At, Top, Half, Full
  <1>6. Broken => Broken'
    BY <1>1 DEF Broken, Cut, AllEarly, Early, ClosesFirst
  <1>7. Served => Served'
    BY <1>1, <1>4, <1>5, <1>6 DEF Served, Serving, Refusing, ClosesFirst, Alone, Top
  <1> QED
    BY <1>1, <1>3, <1>7 DEF AskedInv

\* Every step keeps the invariant.
LEMMA AskedStep ==
  ASSUME CommInv, SessionInv, FreshInv, AskedInv, [Next]_vars, MaxDepth = 1
  PROVE  AskedInv'
  <1>1. CASE UNCHANGED vars
    BY <1>1, AskedStutters
  <1>2. CASE Next
    <2>1. /\ asked' \in Commands \cup {Init_, <<>>}
          /\ host' = "closed" => unsent' = <<>> /\ out' = <<>>
          /\ host' = "opening" => asked' = Init_
          /\ host' = "busy" => asked' \in Commands
          /\ asked' # asked => Connect \/ Command
      BY <1>2, HostAsks
    <2>2. CASE Connect
      <3>1. Opening(0)' /\ asked' = Init_
        BY <2>2, ConnectOpens
      <3>2. 0 \in 0..Len(asked') /\ asked' \notin Commands /\ asked' # <<>>
        BY <3>1, KindsApart
      <3> QED
        BY <2>1, <3>1, <3>2 DEF AskedInv
    <2>3. CASE Command
      <3>1. Served' /\ asked' \in Commands
        BY <2>3, CommandServes
      <3> QED
        BY <2>1, <3>1, KindsApart DEF AskedInv
    <2>4. CASE Serves /\ asked' = asked
      <3>1. asked' = <<>> => host' = "closed" /\ ~FLAG_COM' /\ link' = <<>> /\ stack' = <<>>
        BY <2>4, NothingAsked
      <3>2. asked' = Init_ => \E t \in 0..Len(asked') : Opening(t)'
        BY <2>4, OpeningServes
      <3>3. asked' \in Commands => Served'
        BY <2>4, CommandServed
      <3> QED
        BY <2>1, <3>1, <3>2, <3>3 DEF AskedInv
    <2> QED
      BY <1>2, <2>1, <2>2, <2>3, <2>4 DEF Next, Host, Serves
  <1> QED
    BY <1>1, <1>2

\* Between the host's request and the wallet's answer the packets are consecutive
\* pieces of what was asked: those taken are in the parser and in its one call,
\* byte by byte, and the others on the line (com_process_data, Process.c 10-72).
\* A command is being read, or answered, or it was cut off, and then the call that
\* waits aborts it before it picks a byte; a session that is over is told so before
\* anything else.  Without a nested confirmation.
THEOREM AskedInvariant ==
  ASSUME MaxDepth = 1
  PROVE  Spec => []AskedInv
  <1>1. Init => AskedInv
    <2> SUFFICES ASSUME Init PROVE AskedInv
      OBVIOUS
    <2>1. asked = <<>> /\ asked # Init_ /\ asked \notin Commands
      BY KindsApart DEF Init
    <2> QED
      BY <2>1 DEF Init, AskedInv
  <1>2. CommInv /\ SessionInv /\ FreshInv /\ AskedInv /\ [Next]_vars => AskedInv'
    BY AskedStep
  <1>3. Spec => []SessionInv
    <2>1. MaxDepth <= 2
      OBVIOUS
    <2> QED
      BY <2>1, SessionInvariant
  <1>4. Spec => []FreshInv
    BY FreshInvariant
  <1> QED
    BY <1>1, <1>2, <1>3, <1>4, CommInvariant, PTL DEF Spec

\* What com_exec writes while the invariant holds.
LEMMA StepWrites ==
  ASSUME CommInv, FreshInv, AskedInv, [Next]_vars
  PROVE  \A a \in DOMAIN fram : fram'[a] # fram[a] => fram'[a] = AskedAt(a)
  <1>1. CASE ExecSetFram
    <2>1. Taken /\ FLAG_COM /\ id = COM_SET_FRAM /\ At("loop") /\ com_state = "DATA" /\ stack # <<>> /\ Top.at = "loop"
      BY <1>1 DEF ExecSetFram, Taken, At
    <2>2. asked # <<>>
      BY <2>1 DEF AskedInv
    <2>3. asked # Init_
      <3> SUFFICES ASSUME asked = Init_ PROVE FALSE
        OBVIOUS
      <3>1. PICK t \in 0..Len(asked) : Opening(t)
        BY DEF AskedInv
      <3>2. id = 0 \/ id = COM_INIT
        BY <2>1, <3>1, OpeningTaken
      <3> QED
        BY <2>1, <3>2 DEF COM_INIT, COM_SET_FRAM
    <2>4. asked \in Commands /\ Serving
      BY <2>1, <2>2, <2>3 DEF AskedInv, Served
    <2>5. ~Broken
      <3>1. Len(stack) \in 1..Len(stack) /\ ~Early(Top)
        BY <2>1, TopCall DEF CommInv, Early, Sends
      <3> QED
        BY <3>1 DEF Broken, Cut, AllEarly, Top
    <2>6. ~Answering
      BY <2>1 DEF Answering
    <2>7. PICK t \in 0..Len(asked) : \E p \in 0..t : Reading(p, t)
      BY <2>4, <2>5, <2>6 DEF Serving
    <2>8. PICK p \in 0..t : Reading(p, t)
      BY <2>7
    <2>9. /\ id = asked[1] /\ com_bytes_processed = Data(p) /\ Data(p) \in Nat /\ Available \in Nat /\ p > SIZE_BYTES
          /\ 1 + SIZE_BYTES + Data(p) + Available <= Len(asked) /\ Continues(Data(p))
      BY <2>1, <2>4, <2>8, ReadingTaken
    <2>10. COM_POS = Data(p)
      BY <2>1, <2>9 DEF FreshInv, Gathering, Parted
    <2>11. asked[1] = COM_SET_FRAM /\ COM_PARAMETER = Address(Data(p)) /\ Written(Data(p))
      BY <2>1, <2>8, <2>9 DEF Reading, FramAt
    <2>12. PICK q \in Nat, m \in Nat : q = Data(p) /\ m = Available /\ q = COM_POS
      BY <2>9, <2>10
    <2>13. COM_PARAMETER = Address(q) /\ Written(q) /\ Continues(q) /\ 1 + SIZE_BYTES + q + m <= Len(asked)
      BY <2>9, <2>11, <2>12
    <2> QED
      BY <1>1, <2>11, <2>12, <2>13, FramGathers
  <1>2. CASE ~ExecSetFram
    <2>1. ASSUME Exec PROVE fram' = fram
      BY <1>2, <2>1 DEF Exec, ExecVersion, ExecRefused, ExecInit, ExecEnd, ExecGet, ExecSetKey, ExecUnknown, ExecReset, session
    <2>2. ASSUME Poll \/ SendId \/ SendRest \/ Start \/ Aborted \/ ReadId \/ ReadSize \/ SizeMissing \/ After \/ InitAborted
                 \/ UnknownAborted \/ Reset
          PROVE  fram' = fram
      BY <2>2 DEF Poll, SendId, SendRest, Start, Aborted, ReadId, ReadSize, SizeMissing, After, InitAborted, UnknownAborted, Reset,
                  Cleared, session
    <2>3. ASSUME User \/ Host \/ Deliver \/ Expire \/ UNCHANGED vars PROVE fram' = fram
      BY <2>3 DEF User, ConfirmYes, ConfirmNo, Host, Connect, Command, ReadReply, GiveUp, Deliver, Expire, vars, session
    <2>4. fram' = fram
      BY <2>1, <2>2, <2>3 DEF Next, Device
    <2> QED
      BY <2>4
  <1> QED
    BY <1>1, <1>2

\* WritesAsAsked: command_set_fram (Commands.c) changes a byte only to what the host
\* asked for that address, through packets of any size, stalls, nested calls and a
\* host that gives up at any point.
THEOREM WritesWhatIsAsked ==
  ASSUME MaxDepth = 1
  PROVE  Spec => WritesAsAsked
  <1>1. CommInv /\ FreshInv /\ AskedInv /\ [Next]_vars => [\A a \in DOMAIN fram : fram'[a] # fram[a] => fram'[a] = AskedAt(a)]_vars
    BY StepWrites
  <1>2. Spec => []FreshInv
    BY FreshInvariant
  <1>3. Spec => []AskedInv
    BY AskedInvariant
  <1> QED
    BY <1>1, <1>2, <1>3, CommInvariant, PTL DEF Spec, WritesAsAsked

\* OkMeansWritten: when the host reads COM_OK, the last byte of COM_SET_FRAM is in
\* the FRAM, and so are all the others.
THEOREM OkIsWritten ==
  ASSUME MaxDepth = 1
  PROVE  Spec => []OkMeansWritten
  <1>1. CommInv /\ AskedInv => OkMeansWritten
    <2> SUFFICES ASSUME CommInv, AskedInv, host = "busy", Whole(1), out[1].reply = COM_OK,
                        NEW a \in DOMAIN fram, AskedAt(a) # -1
                 PROVE  AskedAt(a) = fram[a]
      BY DEF OkMeansWritten
    <2>1. asked \in Commands /\ Served
      BY DEF AskedInv
    <2>2. out # <<>> /\ ~ClosesFirst
      <3>1. out # <<>>
        <4>1. ASSUME out = <<>> PROVE FALSE
          <5>1. Len(out) = 0 /\ 1 < Len(out)
            BY <4>1 DEF Whole
          <5> QED
            BY <5>1
        <4> QED
          BY <4>1
      <3> QED
        BY <3>1 DEF ClosesFirst, Closing, COM_OK, COM_END, COM_ERR_NOT_INIT
    <2>3. Serving
      BY <2>1, <2>2 DEF Served, Refusing
    <2>4. Answering
      BY <2>2, <2>3 DEF Serving, Broken, Reading
    <2>5. /\ Len(asked) > Header /\ asked[1] = COM_SET_FRAM
          /\ a - AskedAddress + 1 \in 1..(Len(asked) - Header)
      BY DEF AskedAt
    <2>6. Written(Data(Len(asked)))
      BY <2>4, <2>5 DEF Answering
    <2>7. Data(Len(asked)) > ADDRESS_BYTES /\ Data(Len(asked)) - ADDRESS_BYTES = Len(asked) - Header
      <3>1. Len(asked) \in Nat
        BY DEF CommInv, ChannelsOK
      <3> QED
        BY <2>5, <3>1, Numbers DEF Data, Header
    <2> QED
      BY <2>5, <2>6, <2>7 DEF Written
  <1>2. Spec => []AskedInv
    BY AskedInvariant
  <1> QED
    BY <1>1, <1>2, CommInvariant, PTL
=============================================================================
