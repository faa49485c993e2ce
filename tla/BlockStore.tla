----------------------------- MODULE BlockStore -----------------------------
(***************************************************************************)
(* What sd_readblock and sd_writeblock promise: a store of blocks with one *)
(* call at a time.  A call may fail at any point.  A read never changes a  *)
(* block; a write puts its own blocks in their places, in any order, and   *)
(* when it has failed one of them may still be owed: it arrives, or is     *)
(* dropped, before the next call touches the card.  Of a hasty store,      *)
(* which sends each block of a write by itself, a success says nothing     *)
(* when there are several.                                                 *)
(***************************************************************************)
EXTENDS Integers

CONSTANTS
  Size,      \* blocks of the store
  Contents,  \* what a block can hold
  MaxNum,    \* the largest number of blocks of a call
  Nothing    \* what is in a buffer where nothing was put

Places == 0 .. Size - 1
Buffer == [0 .. MaxNum - 1 -> Contents \cup {Nothing}]

VARIABLES
  disk,
  call,      \* "none", "new" (it has not touched the card), "running"
  op, lba, num, data,
  ret,       \* of the last call: the blocks it moved, 0 for an error
  owed,      \* a block that a write left behind, with its place
  hasty

storeVars == <<disk, call, op, lba, num, data, ret, owed, hasty>>

Init ==
  /\ disk \in [Places -> Contents] /\ call = "none"
  /\ op \in {"read", "write"} /\ lba \in 0 .. Size /\ num \in 1 .. MaxNum /\ data \in Buffer
  /\ ret = 0 /\ owed = {} /\ hasty \in BOOLEAN

Begin ==
  /\ call = "none" /\ call' = "new" /\ ret' = 0
  /\ op' \in {"read", "write"} /\ lba' \in 0 .. Size /\ num' \in 1 .. MaxNum
  /\ data' \in Buffer /\ (op' = "read" => \A k \in DOMAIN data' : data'[k] = Nothing)
  /\ UNCHANGED <<disk, owed, hasty>>

\* The call has the card to itself.
Start ==
  /\ call = "new" /\ owed = {} /\ call' = "running"
  /\ UNCHANGED <<disk, op, lba, num, data, ret, owed, hasty>>

\* Block k of a write arrives.
Place(k) == lba + k
Put ==
  /\ call = "running" /\ op = "write"
  /\ \E k \in 0 .. num - 1 :
       /\ Place(k) \in Places
       /\ disk' = [disk EXCEPT ![Place(k)] = data[k]]
  /\ UNCHANGED <<call, op, lba, num, data, ret, owed, hasty>>

\* The block that is owed arrives, or not; a call that runs has nothing to do with it.
Settle ==
  /\ call # "running" /\ owed # {} /\ owed' = {}
  /\ \/ UNCHANGED disk
     \/ \E o \in owed : disk' = [disk EXCEPT ![o.place] = o.block]
  /\ UNCHANGED <<call, op, lba, num, data, ret, hasty>>

InPlace(k) == Place(k) \in Places /\ disk[Place(k)] = data[k]

Return(n) == call' = "none" /\ ret' = n /\ UNCHANGED <<disk, op, lba, num, hasty>>

\* At most one block of this write.
LeftBehind ==
  {{}} \cup {{[place |-> Place(k), block |-> data[k]]} :
               k \in {j \in 0 .. num - 1 : op = "write" /\ Place(j) \in Places}}

Fail ==
  /\ Return(0) /\ data' \in Buffer
  /\ \/ call = "new" /\ UNCHANGED owed
     \/ call = "running" /\ owed' \in LeftBehind

ReadEnds ==
  /\ call = "running" /\ op = "read" /\ lba + num <= Size
  /\ Return(num) /\ UNCHANGED owed
  /\ data' = [k \in DOMAIN data |-> IF k < num THEN disk[Place(k)] ELSE Nothing]

WriteEnds ==
  /\ call = "running" /\ op = "write"
  /\ Return(num) /\ UNCHANGED data
  /\ \/ (\A k \in 0 .. num - 1 : InPlace(k)) /\ owed' = {}
     \/ hasty /\ num > 1 /\ owed' \in LeftBehind

Next == Begin \/ Start \/ Put \/ Settle \/ Fail \/ ReadEnds \/ WriteEnds

Spec == Init /\ [][Next]_storeVars
=============================================================================
