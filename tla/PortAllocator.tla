--------------------------- MODULE PortAllocator ----------------------------
(***************************************************************************)
(* PortAllocator of internal/b2bua/media.go: a LIFO stack of returned      *)
(* pairs and a cursor into the part of the range never handed out.  A pair *)
(* is named by its RTP port; its RTCP port is the next one.  Both          *)
(* operations run under the allocator's mutex, so each is one step.        *)
(*                                                                         *)
(* out is what the callers hold.  The code does not keep it; it states the *)
(* discipline the callers follow (CallBridge, PairOwnedOnce): a pair is    *)
(* given back by one who holds it.                                         *)
(***************************************************************************)
EXTENDS Integers, Sequences

CONSTANTS MinPort, MaxPort

\* What parsePortRange and Engine.New let through.
ASSUME RangeAssumption ==
    /\ MinPort \in Nat /\ MaxPort \in Nat
    /\ MinPort > 0 /\ MinPort % 2 = 0
    /\ MinPort < MaxPort

VARIABLES
    stack,   \* p.free: returned pairs, the last one on top
    next,    \* p.next: RTP port of the first pair never handed out
    out      \* the pairs held by callers

vars == <<stack, next, out>>

NumPairs == (MaxPort - MinPort + 1) \div 2
Pairs == {MinPort + 2 * i : i \in 0 .. NumPairs - 1}

TypeOK ==
    /\ stack \in Seq(Pairs)
    /\ next \in Nat
    /\ out \subseteq Pairs

Init ==
    /\ stack = <<>>
    /\ next = MinPort
    /\ out = {}

\* Definitions named Mut... are defects the code might have had (free[:0] for the pop,
\* no pop at all, a free list the exhaustion test forgets).
MutFreeListLost ==
    /\ stack # <<>>
    /\ stack' = <<>>
    /\ out' = out \cup {stack[Len(stack)]}
    /\ UNCHANGED next

MutNoPop ==
    /\ stack # <<>>
    /\ out' = out \cup {stack[Len(stack)]}
    /\ UNCHANGED <<stack, next>>

AcquireFree ==
    /\ stack # <<>>
    /\ stack' = SubSeq(stack, 1, Len(stack) - 1)
    /\ out' = out \cup {stack[Len(stack)]}
    /\ UNCHANGED next

AcquireNext ==
    /\ stack = <<>>
    /\ next + 1 <= MaxPort
    /\ next' = next + 2
    /\ out' = out \cup {next}
    /\ UNCHANGED stack

MutFreeListForgotten == next + 1 > MaxPort

ErrPortsExhausted == stack = <<>> /\ next + 1 > MaxPort

AcquireFails == ErrPortsExhausted /\ UNCHANGED vars

Release(p) ==
    /\ p \in out
    /\ stack' = Append(stack, p)
    /\ out' = out \ {p}
    /\ UNCHANGED next

Next ==
    \/ AcquireFree
    \/ AcquireNext
    \/ AcquireFails
    \/ \E p \in Pairs : Release(p)

Spec == Init /\ [][Next]_vars

-----------------------------------------------------------------------------
Stacked == {stack[i] : i \in DOMAIN stack}
Unissued == {p \in Pairs : p >= next}

\* Every pair of the range is in exactly one place: on the free stack (once),
\* above the cursor, or with a caller; and the cursor stays on a pair boundary.
\* So Acquire never hands out a pair that a caller already holds.
Conservation ==
    /\ \E i \in 0 .. NumPairs : next = MinPort + 2 * i
    /\ \A i, j \in DOMAIN stack : stack[i] = stack[j] => i = j
    /\ Stacked \cap out = {}
    /\ Unissued \cap (Stacked \cup out) = {}
    /\ Stacked \cup out \cup Unissued = Pairs

\* Acquire reports ErrPortsExhausted only when callers hold every pair of the
\* range, the last one included: no pair is lost to the stack, to the cursor or
\* to the "next+1 > max" boundary of an odd-sized range.
ExhaustedOnlyWhenAllOut == ErrPortsExhausted <=> out = Pairs

\* The allocator implements the pool its users rely on.
PoolFree == [p \in Pairs |-> IF p \in Stacked \cup Unissued THEN 1 ELSE 0]
Pool == INSTANCE PortPool WITH free <- PoolFree
RefinesPool == Pool!PoolSpec
=============================================================================
