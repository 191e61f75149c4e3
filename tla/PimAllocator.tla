---------------------------- MODULE PimAllocator ----------------------------
(***************************************************************************)
(* What a PIM heap promises its callers, without its fragments, lists and  *)
(* caches: alloc() returns memory no one holds, or null; free() succeeds   *)
(* exactly for a pointer alloc() handed out and that was not freed since,  *)
(* and releases nothing else.  SimpleHeap implements it.                   *)
(***************************************************************************)
EXTENDS Integers

CONSTANTS
  Blocks,      \* base addresses of the blocks memory comes from
  BlockSize,   \* their size, in units
  Requests,    \* byte counts clients ask for
  Need(_)      \* units a request of so many bytes needs

VARIABLES
  live,        \* [ptr, bytes] of what clients hold
  ret          \* what the last call returned

vars == <<live, ret>>

Null == 0

Addr == UNION {b .. (b + BlockSize - 1) : b \in Blocks}

\* The memory [p, p + n) is inside one block and nobody holds any of it.
Available(p, n) ==
  /\ \E b \in Blocks : b <= p /\ p + n <= b + BlockSize
  /\ \A l \in live : p + n <= l.ptr \/ l.ptr + Need(l.bytes) <= p

Init ==
  /\ live = {}
  /\ ret = [op |-> "init", ok |-> TRUE, ptr |-> Null]

Alloc(bytes) ==
  \/ \E p \in Addr :
       /\ Available(p, Need(bytes))
       /\ live' = live \cup {[ptr |-> p, bytes |-> bytes]}
       /\ ret' = [op |-> "alloc", ok |-> TRUE, ptr |-> p]
  \/ /\ ret' = [op |-> "alloc", ok |-> FALSE, ptr |-> Null]
     /\ UNCHANGED live

Free(ptr) ==
  /\ live' = {l \in live : l.ptr # ptr}
  /\ ret' = [op |-> "free", ok |-> \E l \in live : l.ptr = ptr, ptr |-> ptr]

FreeNull ==
  /\ ret' = [op |-> "free", ok |-> TRUE, ptr |-> Null]
  /\ UNCHANGED live

Trim ==
  /\ ret' = [op |-> "trim", ok |-> TRUE, ptr |-> Null]
  /\ UNCHANGED live

Next ==
  \/ \E bytes \in Requests : Alloc(bytes)
  \/ \E ptr \in Addr : Free(ptr)
  \/ FreeNull
  \/ Trim

Spec == Init /\ [][Next]_vars
=============================================================================
