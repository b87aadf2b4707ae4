----------------------------- MODULE NativeStack -----------------------------
(***************************************************************************)
(* The native stack limit (control.c) and the guard by which recursion     *)
(* stops nesting native calls.  Addresses are words of MaxAddress + 1      *)
(* values; the stack grows down from the program entry.                    *)
(***************************************************************************)
EXTENDS Integers

CONSTANTS
    MaxAddress,     \* UINTPTR_MAX
    Budget,         \* MAL_NATIVE_STACK_BUDGET, 64 KiB
    Reserve,        \* MAL_NATIVE_STACK_RESERVE, equal to the budget
    ActivationSize, \* the native stack of one activation
    Fallback        \* the stack the frames version and its native work need

ASSUME NativeStackAssumption ==
    /\ MaxAddress \in Nat \ {0} /\ Budget \in 1..MaxAddress /\ Reserve \in 1..MaxAddress
    /\ ActivationSize \in 1..MaxAddress /\ Fallback \in Nat
    /\ ActivationSize + Fallback <= Reserve

Address == 0..MaxAddress
Word(n) == n % (MaxAddress + 1)

\* A stack as pthread_attr_getstack tells it, of size 0 when it is not found, and the
\* address in it at which the program is entered.
Mapped(m) == m.size # 0 => m.low <= m.entry /\ m.entry <= m.low + m.size

\* Mutant of NativeStackLimit: the budget without the end of the mapped stack.
BudgetLimit(m) ==
    IF m.size = 0 \/ m.entry < Budget THEN MaxAddress ELSE Word(m.entry - Budget)

\* mal_native_stack_begin: UINTPTR_MAX when no room can be shown to exist.
NativeStackLimit(m) ==
    LET budgetLimit == Word(m.entry - Budget)
        boundaryLimit == Word(m.low + Reserve)
    IN IF \/ m.size = 0
          \/ m.size > MaxAddress - m.low
          \/ m.entry < m.low \/ m.entry > Word(m.low + m.size) \/ m.entry < Budget
          \/ m.low > MaxAddress - Reserve
          \/ m.entry <= boundaryLimit
       THEN MaxAddress
       ELSE IF budgetLimit > boundaryLimit THEN budgetLimit ELSE boundaryLimit

\* mal_native_stack_is_deep, with which the entry guard of a native version decides
\* to hand its activation to the frames version.
IsDeep(address, limit) == address <= limit
=============================================================================
