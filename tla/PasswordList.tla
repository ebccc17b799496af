---------------------------- MODULE PasswordList ----------------------------
(***************************************************************************)
(* The catalogue of credentials (Password_List.c and the callbacks that    *)
(* use it).  Used chunks are marked in the memory map and chained in two   *)
(* doubly linked lists kept in the FRAM, one by number of uses and one by  *)
(* name; every operation that changes a key re-sorts its list by swapping  *)
(* neighbours.                                                             *)
(*                                                                         *)
(* Straight-line code is the sequence of its FRAM writes, put in todo when *)
(* the operation has read what it needs and performed one by one; a loop   *)
(* of the sort is an action per iteration.  Power may be lost between any  *)
(* two writes.  NUM_PWD is the RAM counter and its FRAM copy: both are     *)
(* changed by the same call, and the copy is read back at power on.        *)
(***************************************************************************)
EXTENDS Integers, Sequences, FiniteSets

CONSTANTS
  MAXIMUM_NUMBER_OF_PWD,
  COUNT_MOD,      \* 2^16 in the code: the use counter is a uint16_t
  Names,          \* upper-case first letters, as numbers; 0 is '@'
  CutAnywhere     \* TRUE: power may be lost in the middle of an operation

Ids == 0 .. MAXIMUM_NUMBER_OF_PWD - 1
Nil == MAXIMUM_NUMBER_OF_PWD      \* the code's end-of-list mark
Ptr == 0 .. MAXIMUM_NUMBER_OF_PWD
Lists == {"use", "alpha"}

ASSUME ListAssumption ==
  /\ MAXIMUM_NUMBER_OF_PWD \in Nat /\ MAXIMUM_NUMBER_OF_PWD >= 2
  /\ COUNT_MOD \in Nat \ {0}
  /\ Names \subseteq Nat /\ 0 \in Names
  /\ CutAnywhere \in BOOLEAN

VARIABLES
  used,     \* FRAM: the memory map
  NUM_PWD,
  first,    \* FRAM: the first chunk of each list
  prev, next,    \* FRAM: the links of every chunk
  count, name,   \* FRAM: use counter and name of every chunk
  method,   \* FRAM: the sorting method, in OPTIONS_FLAG
  CURRENT_PASSWORD_ID,
  pc,       \* "locked", "menu", "sort" or "hung"
  todo,     \* the writes the running operation has yet to perform
  plan,     \* the lists it has yet to sort
  current, sorting_position   \* locals of the sort; current is Nil outside it

fram == <<used, NUM_PWD, first, prev, next, count, name>>
sortVars == <<current, sorting_position>>
vars == <<used, NUM_PWD, first, prev, next, count, name, method,
          CURRENT_PASSWORD_ID, pc, todo, plan, current, sorting_position>>

Write(f, l, c, v) == [field |-> f, list |-> l, id |-> c, val |-> v]
WriteSet == [field : {"prev", "next", "first", "set", "unset", "count", "name", "num", "clear"},
             list : Lists, id : Ids, val : Int]

\* The types of the FRAM, of the selection and of the pending writes; the use
\* counter fits its two bytes and no list head is the end mark.
TypeOK ==
  /\ used \subseteq Ids
  /\ NUM_PWD \in 0 .. MAXIMUM_NUMBER_OF_PWD - 1
  /\ first \in [Lists -> Ids]
  /\ prev \in [Lists -> [Ids -> Ptr]] /\ next \in [Lists -> [Ids -> Ptr]]
  /\ count \in [Ids -> 0 .. COUNT_MOD - 1] /\ name \in [Ids -> Names]
  /\ method \in {"none", "use", "alpha"}
  /\ CURRENT_PASSWORD_ID \in Ids
  /\ pc \in {"locked", "menu", "sort", "hung"}
  /\ todo \in Seq(WriteSet)
  /\ plan \in Seq(Lists)
  /\ current \in Ptr /\ sorting_position \in Ptr

\* A wallet after opt_callback_full_reset: the whole FRAM is zero.
Init ==
  /\ used = {} /\ NUM_PWD = 0
  /\ first = [l \in Lists |-> 0]
  /\ prev = [l \in Lists |-> [c \in Ids |-> 0]] /\ next = prev
  /\ count = [c \in Ids |-> 0] /\ name = [c \in Ids |-> 0]
  /\ method = "none"
  /\ CURRENT_PASSWORD_ID = 0
  /\ pc = "locked"
  /\ todo = <<>> /\ plan = <<>>
  /\ current = Nil /\ sorting_position = Nil

(***************************************************************************)
(* Walking a list.  The chain from c is followed until the end mark; on a  *)
(* damaged list the code's loop may never meet it.                         *)
(***************************************************************************)
Chain(l, c) ==
  LET at[n \in 0 .. MAXIMUM_NUMBER_OF_PWD] ==
        IF n = 0 THEN c
        ELSE IF at[n - 1] = Nil THEN Nil ELSE next[l][at[n - 1]]
  IN at

Members(l, c) == {Chain(l, c)[n] : n \in 0 .. MAXIMUM_NUMBER_OF_PWD} \ {Nil}

Ends(l, c) == Chain(l, c)[MAXIMUM_NUMBER_OF_PWD] = Nil

LastFrom(l, c) == CHOOSE d \in Members(l, c) : next[l][d] = Nil

\* pwd_list_get_prev_pwd_id_sort_use and _sort_alpha, and when they return.
PrevReturns(l, c) == prev[l][c] # Nil \/ Ends(l, c)
PrevSorted(l, c) == IF prev[l][c] # Nil THEN prev[l][c] ELSE LastFrom(l, c)

NextSorted(l, c) == IF next[l][c] # Nil THEN next[l][c] ELSE first[l]

Least(S) == CHOOSE x \in S : \A y \in S : x <= y
Greatest(S) == CHOOSE x \in S : \A y \in S : y <= x

\* get_first_entry_from, and pwd_list_get_prev_pwd_id_sort_none.
FirstEntryFrom(c) ==
  LET above == {d \in used : d >= c}
  IN IF above # {} THEN Least(above) ELSE IF used # {} THEN Least(used) ELSE 0

PrevInMemory(c) ==
  LET below == {d \in used : d < c}
  IN IF below # {} THEN Greatest(below) ELSE IF used # {} THEN Greatest(used) ELSE Nil

\* pwd_list_get_prev_pwd_id, _next_ and _first_, by the sorting method.
PrevOf(c) == IF method = "none" THEN PrevInMemory(c) ELSE PrevSorted(method, c)
NextOf(c) == IF method = "none" THEN FirstEntryFrom(c + 1) ELSE NextSorted(method, c)
FirstOf == IF method = "none" THEN FirstEntryFrom(0) ELSE first[method]

(***************************************************************************)
(* Performing the writes, and losing power.                                *)
(***************************************************************************)
Perform ==
  /\ pc = "sort" /\ todo # <<>>
  /\ LET w == Head(todo)
     IN /\ used' = CASE w.field = "set" -> used \cup {w.id}
                     [] w.field = "unset" -> used \ {w.id}
                     [] OTHER -> used
        /\ NUM_PWD' = IF w.field = "num" THEN w.val ELSE NUM_PWD
        /\ first' = IF w.field = "first" THEN [first EXCEPT ![w.list] = w.val] ELSE first
        /\ prev' = CASE w.field = "prev" -> [prev EXCEPT ![w.list][w.id] = w.val]
                     [] w.field = "clear" -> [l \in Lists |-> [prev[l] EXCEPT ![w.id] = 0]]
                     [] OTHER -> prev
        /\ next' = CASE w.field = "next" -> [next EXCEPT ![w.list][w.id] = w.val]
                     [] w.field = "clear" -> [l \in Lists |-> [next[l] EXCEPT ![w.id] = 0]]
                     [] OTHER -> next
        /\ count' = IF w.field \in {"count", "clear"}
                    THEN [count EXCEPT ![w.id] = w.val] ELSE count
        /\ name' = IF w.field \in {"name", "clear"}
                   THEN [name EXCEPT ![w.id] = w.val] ELSE name
  /\ todo' = Tail(todo)
  /\ UNCHANGED <<method, CURRENT_PASSWORD_ID, pc, plan, sortVars>>

\* The writes ws, then sorting the lists ls.
Start(ws, ls) ==
  /\ pc' = "sort" /\ todo' = ws /\ plan' = ls
  /\ UNCHANGED <<fram, sortVars>>

Return ==
  /\ pc = "sort" /\ todo = <<>> /\ plan = <<>>
  /\ pc' = "menu"
  /\ UNCHANGED <<fram, method, CURRENT_PASSWORD_ID, todo, plan, sortVars>>

Crash ==
  /\ CutAnywhere \/ pc \in {"locked", "menu"}
  /\ pc' = "locked" /\ CURRENT_PASSWORD_ID' = 0
  /\ todo' = <<>> /\ plan' = <<>> /\ current' = Nil /\ sorting_position' = Nil
  /\ UNCHANGED <<fram, method>>

(***************************************************************************)
(* state_wait_card_end, and moving about the catalogue (State_Main,        *)
(* State_Browse).                                                          *)
(***************************************************************************)
Unlock ==
  /\ pc = "locked"
  /\ CURRENT_PASSWORD_ID' = FirstOf
  /\ Start(<<>>, <<"use", "alpha">>)
  /\ UNCHANGED method

SetMethod(m) ==
  /\ pc = "menu"
  /\ method' = m
  /\ UNCHANGED <<fram, CURRENT_PASSWORD_ID, pc, todo, plan, sortVars>>

\* There is a credential to work on.  (On a catalogue damaged by a power loss
\* CURRENT_PASSWORD_ID may be the end mark: chunk 768 lies past the FRAM, and
\* what is read there is not modelled.)
Selected == NUM_PWD # 0 /\ CURRENT_PASSWORD_ID # Nil

\* The loop of an operation on the list l meets its end, or the wallet hangs.
Select(c, returns) ==
  /\ CURRENT_PASSWORD_ID' = IF returns THEN c ELSE CURRENT_PASSWORD_ID
  /\ pc' = IF returns THEN pc ELSE "hung"
  /\ UNCHANGED <<fram, method, todo, plan, sortVars>>

PrevButton ==
  /\ pc = "menu" /\ Selected
  /\ Select(PrevOf(CURRENT_PASSWORD_ID),
            method = "none" \/ PrevReturns(method, CURRENT_PASSWORD_ID))

NextButton ==
  /\ pc = "menu" /\ Selected
  /\ Select(NextOf(CURRENT_PASSWORD_ID), TRUE)

\* select_pwd_from_letter: the first credential of the alpha list whose letter
\* is the closest to the wanted one from above; the walk stops at an equal one.
Browse(letter) ==
  LET f == first["alpha"]
      at == Chain("alpha", f)
      position(c) == Least({n \in DOMAIN at : at[n] = c})
      closer(c, d) == name[c] < name[d] \/ (name[c] = name[d] /\ position(c) <= position(d))
      candidates == {c \in Members("alpha", f) : name[c] >= letter}
  IN /\ pc = "menu"
     /\ Select(IF candidates = {} THEN CURRENT_PASSWORD_ID
               ELSE CHOOSE c \in candidates : \A d \in candidates : closer(c, d),
               \/ Ends("alpha", f)
               \/ \E n \in 1 .. MAXIMUM_NUMBER_OF_PWD : at[n] = f
               \/ \E c \in candidates : name[c] = letter)

(***************************************************************************)
(* pwd_list_add_pwd, called by opt_callback_add_pwd.  The first credential *)
(* leaves the list heads alone: they are 0, and so is its chunk.           *)
(***************************************************************************)
LinkLast(c, last) ==
  (IF NUM_PWD = 0 THEN <<>>
   ELSE <<Write("next", "use", last["use"], c), Write("next", "alpha", last["alpha"], c)>>)
  \o <<Write("prev", "use", c, last["use"]), Write("next", "use", c, Nil),
       Write("prev", "alpha", c, last["alpha"]), Write("next", "alpha", c, Nil)>>

\* Mutant: the limit on NUM_PWD is not looked at.
AddPwd_NoLimit(n) ==
  LET c == Least(Ids \ used)
      last == [l \in Lists |-> IF NUM_PWD = 0 THEN Nil ELSE PrevSorted(l, first[l])]
  IN /\ pc = "menu"
     /\ used # Ids
     /\ Start(<<Write("set", "use", c, 0)>> \o LinkLast(c, last)
                \o <<Write("count", "use", c, 0), Write("name", "use", c, n),
                     Write("num", "use", c, NUM_PWD + 1)>>,
              <<"use", "alpha">>)
     /\ UNCHANGED <<method, CURRENT_PASSWORD_ID>>

AddPwd(n) ==
  LET c == Least(Ids \ used)
      last == [l \in Lists |-> IF NUM_PWD = 0 THEN Nil ELSE PrevSorted(l, first[l])]
      returns == NUM_PWD = 0 \/ \A l \in Lists : PrevReturns(l, first[l])
  IN /\ pc = "menu"
     /\ NUM_PWD # MAXIMUM_NUMBER_OF_PWD - 1
     /\ used # Ids
     /\ IF returns
        THEN Start(<<Write("set", "use", c, 0)>> \o LinkLast(c, last)
                     \o <<Write("count", "use", c, 0), Write("name", "use", c, n),
                          Write("num", "use", c, NUM_PWD + 1)>>,
                   <<"use", "alpha">>)
        ELSE /\ used' = used \cup {c} /\ pc' = "hung"
             /\ UNCHANGED <<NUM_PWD, first, prev, next, count, name, todo, plan, sortVars>>
     /\ UNCHANGED <<method, CURRENT_PASSWORD_ID>>

(***************************************************************************)
(* pwd_list_delete_pwd, called by opt_callback_delete_pwd.                 *)
(***************************************************************************)
Unlink(l, c) ==
  LET p == prev[l][c]
      n == next[l][c]
  IN (IF n # Nil THEN <<Write("prev", l, n, p)>> ELSE <<>>)
     \o (IF p # Nil THEN <<Write("next", l, p, n)>>
         ELSE <<Write("first", l, c, IF n # Nil THEN n ELSE 0)>>)

\* Mutant: the deleted credential stays selected.
DeletePwd_KeepsCurrent ==
  LET c == CURRENT_PASSWORD_ID
  IN /\ pc = "menu" /\ Selected
     /\ Start(Unlink("use", c) \o Unlink("alpha", c)
                \o <<Write("unset", "use", c, 0), Write("num", "use", c, NUM_PWD - 1),
                     Write("clear", "use", c, 0)>>,
              <<>>)
     /\ UNCHANGED <<method, CURRENT_PASSWORD_ID>>

\* Mutant: the links of the deleted chunk are left in the memory.
DeletePwd_KeepsLinks ==
  LET c == CURRENT_PASSWORD_ID
      returns == NUM_PWD = 1 \/ method = "none" \/ PrevReturns(method, c)
  IN /\ pc = "menu" /\ Selected /\ returns
     /\ Start(Unlink("use", c) \o Unlink("alpha", c)
                \o <<Write("unset", "use", c, 0), Write("num", "use", c, NUM_PWD - 1)>>,
              <<>>)
     /\ CURRENT_PASSWORD_ID' = IF NUM_PWD = 1 THEN 0 ELSE PrevOf(c)
     /\ UNCHANGED method

DeletePwd ==
  LET c == CURRENT_PASSWORD_ID
      returns == NUM_PWD = 1 \/ method = "none" \/ PrevReturns(method, c)
  IN /\ pc = "menu" /\ Selected
     /\ IF returns
        THEN /\ Start(Unlink("use", c) \o Unlink("alpha", c)
                        \o <<Write("unset", "use", c, 0), Write("num", "use", c, NUM_PWD - 1),
                             Write("clear", "use", c, 0)>>,
                      <<>>)
             /\ CURRENT_PASSWORD_ID' = IF NUM_PWD = 1 THEN 0 ELSE PrevOf(c)
             /\ UNCHANGED method
        ELSE /\ pc' = "hung"
             /\ UNCHANGED <<fram, method, CURRENT_PASSWORD_ID, todo, plan, sortVars>>

(***************************************************************************)
(* opt_callback_send_pwd counts a use, opt_callback_change_name renames.   *)
(***************************************************************************)
\* Mutant: the use counter does not wrap.
SendPwd_NoWrap ==
  LET c == CURRENT_PASSWORD_ID
  IN /\ pc = "menu" /\ Selected
     /\ Start(<<Write("count", "use", c, count[c] + 1)>>, <<"use">>)
     /\ UNCHANGED <<method, CURRENT_PASSWORD_ID>>

\* Mutant: the list is not sorted again after a use.
SendPwd_NoSort ==
  LET c == CURRENT_PASSWORD_ID
  IN /\ pc = "menu" /\ Selected
     /\ Start(<<Write("count", "use", c, (count[c] + 1) % COUNT_MOD)>>, <<>>)
     /\ UNCHANGED <<method, CURRENT_PASSWORD_ID>>

SendPwd ==
  LET c == CURRENT_PASSWORD_ID
  IN /\ pc = "menu" /\ Selected
     /\ Start(<<Write("count", "use", c, (count[c] + 1) % COUNT_MOD)>>, <<"use">>)
     /\ UNCHANGED <<method, CURRENT_PASSWORD_ID>>

ChangeName(n) ==
  /\ pc = "menu" /\ Selected
  /\ n # name[CURRENT_PASSWORD_ID]
  /\ Start(<<Write("name", "use", CURRENT_PASSWORD_ID, n)>>, <<"alpha">>)
  /\ UNCHANGED <<method, CURRENT_PASSWORD_ID>>

(***************************************************************************)
(* pwd_list_sort_use and pwd_list_sort_alpha: an insertion sort in place.  *)
(***************************************************************************)
GoesBefore(l, a, b) == IF l = "use" THEN count[a] > count[b] ELSE name[a] < name[b]

Sorting == pc = "sort" /\ todo = <<>> /\ plan # <<>>
Begun == sorting_position # Nil

SortSkip ==
  /\ Sorting /\ ~Begun /\ NUM_PWD < 2
  /\ plan' = Tail(plan)
  /\ UNCHANGED <<fram, method, CURRENT_PASSWORD_ID, pc, todo, sortVars>>

Visit(c) == current' = c /\ sorting_position' = IF c = Nil THEN 0 ELSE c

SortBegin ==
  /\ Sorting /\ ~Begun /\ NUM_PWD >= 2
  /\ Visit(next[Head(plan)][first[Head(plan)]])
  /\ UNCHANGED <<fram, method, CURRENT_PASSWORD_ID, pc, todo, plan>>

\* swap_neighbours, the list head first when the lower one is it.
\* Mutant: the neighbour below keeps its link to the chunk that moved down.
Swap_LowerLink(l, lower, upper) ==
  LET prev_lower == prev[l][lower]
      next_upper == next[l][upper]
  IN (IF lower = first[l] THEN <<Write("first", l, lower, upper)>> ELSE <<>>)
     \o <<Write("prev", l, lower, upper), Write("next", l, lower, next_upper),
          Write("prev", l, upper, prev_lower), Write("next", l, upper, lower)>>
     \o (IF next_upper # Nil THEN <<Write("prev", l, next_upper, lower)>> ELSE <<>>)

Swap(l, lower, upper) ==
  LET prev_lower == prev[l][lower]
      next_upper == next[l][upper]
  IN (IF lower = first[l] THEN <<Write("first", l, lower, upper)>> ELSE <<>>)
     \o <<Write("prev", l, lower, upper), Write("next", l, lower, next_upper),
          Write("prev", l, upper, prev_lower), Write("next", l, upper, lower)>>
     \o (IF prev_lower # Nil THEN <<Write("next", l, prev_lower, upper)>> ELSE <<>>)
     \o (IF next_upper # Nil THEN <<Write("prev", l, next_upper, lower)>> ELSE <<>>)

SortSwap ==
  LET l == Head(plan)
      p == prev[l][current]
  IN /\ Sorting /\ Begun /\ current # Nil
     /\ p # Nil /\ GoesBefore(l, current, p)
     /\ todo' = Swap(l, p, current)
     /\ sorting_position' = p
     /\ UNCHANGED <<fram, method, CURRENT_PASSWORD_ID, pc, plan, current>>

\* Mutant: the walk goes on with the neighbour on the wrong side.
SortNext_GoesBack ==
  LET l == Head(plan)
      p == prev[l][current]
  IN /\ Sorting /\ Begun /\ current # Nil
     /\ ~(p # Nil /\ GoesBefore(l, current, p))
     /\ Visit(IF p # Nil THEN p ELSE next[l][sorting_position])
     /\ UNCHANGED <<fram, method, CURRENT_PASSWORD_ID, pc, todo, plan>>

SortNext ==
  LET l == Head(plan)
      p == prev[l][current]
  IN /\ Sorting /\ Begun /\ current # Nil
     /\ ~(p # Nil /\ GoesBefore(l, current, p))
     /\ Visit(next[l][sorting_position])
     /\ UNCHANGED <<fram, method, CURRENT_PASSWORD_ID, pc, todo, plan>>

SortEnd ==
  /\ Sorting /\ Begun /\ current = Nil
  /\ plan' = Tail(plan)
  /\ current' = Nil /\ sorting_position' = Nil
  /\ UNCHANGED <<fram, method, CURRENT_PASSWORD_ID, pc, todo>>

(***************************************************************************)
(* The specification.  main goes on with what it has started.              *)
(***************************************************************************)
Sort == SortSkip \/ SortBegin \/ SortSwap \/ SortNext \/ SortEnd

Device == Perform \/ Sort \/ Return

User ==
  \/ Unlock \/ PrevButton \/ NextButton \/ DeletePwd \/ SendPwd
  \/ \E m \in {"none", "use", "alpha"} : SetMethod(m)
  \/ \E n \in Names : AddPwd(n) \/ ChangeName(n) \/ Browse(n)

Next == Device \/ User \/ Crash

Spec == Init /\ [][Next]_vars

FairSpec == Spec /\ WF_vars(Device)

(***************************************************************************)
(* Properties.                                                             *)
(***************************************************************************)
\* Between operations each list chains exactly the used chunks, both ways, and
\* NUM_PWD counts them; the heads of empty lists are 0, where the first
\* credential will be put.
ListsIntact ==
  pc = "menu" =>
    /\ NUM_PWD = Cardinality(used)
    /\ \A l \in Lists :
         IF used = {} THEN first[l] = 0
         ELSE /\ Ends(l, first[l]) /\ Members(l, first[l]) = used
              /\ prev[l][first[l]] = Nil
              /\ \A c \in used : next[l][c] # Nil => prev[l][next[l][c]] = c

\* Between operations the lists are in order: most used first, also after a
\* counter has wrapped, and by name.
ListsSorted ==
  pc = "menu" =>
    \A c \in used :
      /\ next["use"][c] # Nil => count[c] >= count[next["use"][c]]
      /\ next["alpha"][c] # Nil => name[c] <= name[next["alpha"][c]]

\* The credential shown, sent, edited or deleted next is a stored one.
CurrentStored == pc = "menu" /\ NUM_PWD # 0 => CURRENT_PASSWORD_ID \in used

\* The last chunk of the memory map, which does not fit in the FRAM whole, is
\* never used: the limit on NUM_PWD leaves it free whatever is deleted before.
LastChunkFree == MAXIMUM_NUMBER_OF_PWD - 1 \notin used

\* Every operation comes back to the menu, unlocking included: no walk and no
\* sort runs for ever, so the user is never shut out (README: resists to
\* unexpected disconnections).
OperationEnds == pc \in {"sort", "hung"} ~> pc \in {"menu", "locked"}

\* README: resists to unexpected disconnections.  Whatever write power was lost
\* at, no walk along a list turns in circles for ever.
WalksEnd == pc # "hung"
=============================================================================
