------------------------ MODULE PortAllocatorProofs -------------------------
(***************************************************************************)
(* Theorems about PortAllocator, for any port range.                       *)
(***************************************************************************)
EXTENDS PortAllocator, TLAPS

AllocatorInv == TypeOK /\ Conservation

\* The pairs of the range are the even offsets below its last full pair.
LEMMA RangePairs ==
    /\ NumPairs \in Nat
    /\ MinPort + 2 * NumPairs <= MaxPort + 1
    /\ MaxPort <= MinPort + 2 * NumPairs
    /\ \A p \in Pairs : \E i \in 0 .. NumPairs - 1 : p = MinPort + 2 * i
    /\ Pairs \subseteq Nat
<1>1. NumPairs \in Nat
    BY RangeAssumption DEF NumPairs
<1>2. MinPort + 2 * NumPairs <= MaxPort + 1 /\ MaxPort <= MinPort + 2 * NumPairs
    BY RangeAssumption DEF NumPairs
<1> QED
    BY <1>1, <1>2, RangeAssumption DEF Pairs

\* Taking the top of a stack without repetitions removes that pair and no other.
LEMMA PopStacked ==
    ASSUME AllocatorInv, AcquireFree
    PROVE  /\ stack' \in Seq(Pairs)
           /\ \A i, j \in DOMAIN stack' : stack'[i] = stack'[j] => i = j
           /\ Stacked' = Stacked \ {stack[Len(stack)]}
           /\ stack[Len(stack)] \in Pairs /\ stack[Len(stack)] \in Stacked
<1> DEFINE n == Len(stack)
<1>1. /\ stack \in Seq(Pairs) /\ stack # <<>>
      /\ stack' = SubSeq(stack, 1, n - 1)
      /\ \A i, j \in DOMAIN stack : stack[i] = stack[j] => i = j
    BY DEF AllocatorInv, AcquireFree, TypeOK, Conservation
<1>2. n \in Nat /\ n > 0 /\ DOMAIN stack = 1 .. n
    BY <1>1
<1>3. stack' \in Seq(Pairs) /\ DOMAIN stack' = 1 .. n - 1
    BY <1>1, <1>2
<1>4. \A i \in 1 .. n - 1 : stack'[i] = stack[i]
    BY <1>1, <1>2
<1>5. \A i, j \in DOMAIN stack' : stack'[i] = stack'[j] => i = j
    BY <1>1, <1>2, <1>3, <1>4
<1>6. stack[n] \in Pairs /\ stack[n] \in Stacked
    BY <1>1, <1>2 DEF Stacked
<1>7. \A i \in 1 .. n - 1 : stack[i] # stack[n]
    BY <1>1, <1>2
<1>8. Stacked' = {stack[i] : i \in 1 .. n - 1}
    BY <1>3, <1>4 DEF Stacked
<1>9. {stack[i] : i \in 1 .. n - 1} = Stacked \ {stack[n]}
    BY <1>2, <1>7 DEF Stacked
<1> QED
    BY <1>3, <1>5, <1>6, <1>8, <1>9

\* Pushing a pair that is not on the stack adds it, once.
LEMMA PushStacked ==
    ASSUME NEW s \in Seq(Pairs), NEW p \in Pairs, p \notin {s[i] : i \in DOMAIN s},
           \A i, j \in DOMAIN s : s[i] = s[j] => i = j,
           NEW t, t = Append(s, p)
    PROVE  /\ t \in Seq(Pairs)
           /\ \A i, j \in DOMAIN t : t[i] = t[j] => i = j
           /\ {t[i] : i \in DOMAIN t} = {s[i] : i \in DOMAIN s} \cup {p}
<1>1. /\ Len(s) \in Nat /\ DOMAIN s = 1 .. Len(s)
      /\ t \in Seq(Pairs) /\ DOMAIN t = 1 .. Len(s) + 1
    OBVIOUS
<1>2. t[Len(s) + 1] = p /\ \A i \in 1 .. Len(s) : t[i] = s[i]
    OBVIOUS
<1> QED
    BY <1>1, <1>2

\* AcquireNext issues the lowest pair that was never handed out, and that pair only.
LEMMA IssueNext ==
    ASSUME AllocatorInv, AcquireNext
    PROVE  /\ next \in Pairs /\ Unissued' = Unissued \ {next} /\ next \in Unissued
           /\ next' \in Nat /\ \E k \in 0 .. NumPairs : next' = MinPort + 2 * k
<1> USE DEF AllocatorInv
<1>1. PICK i \in 0 .. NumPairs : next = MinPort + 2 * i
    BY DEF Conservation
<1>2. i < NumPairs
    BY <1>1, RangePairs, RangeAssumption DEF AcquireNext
<1>3. next \in Pairs /\ next' = MinPort + 2 * (i + 1) /\ i + 1 \in 0 .. NumPairs
    BY <1>1, <1>2, RangePairs, RangeAssumption DEF AcquireNext, Pairs
<1>4. Unissued' = Unissued \ {next} /\ next \in Unissued
    <2>1. \A p \in Pairs : p >= next + 2 <=> (p >= next /\ p # next)
        <3> SUFFICES ASSUME NEW p \in Pairs PROVE p >= next + 2 <=> (p >= next /\ p # next)
            OBVIOUS
        <3>1. PICK j \in 0 .. NumPairs - 1 : p = MinPort + 2 * j
            BY RangePairs
        <3> QED
            BY <1>1, <3>1, RangePairs, RangeAssumption
    <2>2. next' = next + 2 /\ next >= next
        BY <1>1, RangeAssumption, RangePairs DEF AcquireNext
    <2> QED
        BY <1>3, <2>1, <2>2 DEF Unissued
<1>5. next' \in Nat
    BY <1>3, RangeAssumption, RangePairs
<1> QED
    BY <1>3, <1>4, <1>5

LEMMA AllocatorStep == AllocatorInv /\ [Next]_vars => AllocatorInv'
<1> SUFFICES ASSUME AllocatorInv, [Next]_vars PROVE AllocatorInv'
    OBVIOUS
<1> USE DEF AllocatorInv
<1>1. CASE AcquireFree
    <2> DEFINE top == stack[Len(stack)]
    <2>1. /\ stack' \in Seq(Pairs) /\ top \in Pairs
          /\ \A i, j \in DOMAIN stack' : stack'[i] = stack'[j] => i = j
          /\ Stacked' = Stacked \ {top} /\ top \in Stacked
        BY <1>1, PopStacked
    <2>2. out' = out \cup {top} /\ next' = next /\ Unissued' = Unissued
        BY <1>1 DEF AcquireFree, Unissued
    <2> HIDE DEF top
    <2> QED
        BY <2>1, <2>2 DEF TypeOK, Conservation
<1>2. CASE AcquireNext
    <2>1. stack' = stack /\ Stacked' = Stacked /\ out' = out \cup {next}
        BY <1>2 DEF AcquireNext, Stacked
    <2> QED
        BY <1>2, <2>1, IssueNext DEF TypeOK, Conservation
<1>3. ASSUME NEW p \in Pairs, Release(p) PROVE AllocatorInv'
    <2>1. p \notin Stacked /\ p \in out
        BY <1>3 DEF Release, Conservation
    <2>2. /\ stack' \in Seq(Pairs)
          /\ \A i, j \in DOMAIN stack' : stack'[i] = stack'[j] => i = j
          /\ Stacked' = Stacked \cup {p}
        BY <1>3, <2>1, PushStacked DEF Release, TypeOK, Conservation, Stacked
    <2>3. out' = out \ {p} /\ next' = next /\ Unissued' = Unissued
        BY <1>3 DEF Release, Unissued
    <2> QED
        BY <2>1, <2>2, <2>3 DEF TypeOK, Conservation
<1>4. CASE UNCHANGED vars
    BY <1>4 DEF vars, TypeOK, Conservation, Stacked, Unissued
<1> QED
    BY <1>1, <1>2, <1>3, <1>4 DEF Next, AcquireFails

LEMMA AllocatorInit == Init => AllocatorInv
<1> SUFFICES ASSUME Init PROVE AllocatorInv
    OBVIOUS
<1>1. stack = <<>> /\ next = MinPort /\ out = {} /\ Stacked = {}
    BY DEF Init, Stacked
<1>2. Unissued = Pairs
    BY <1>1, RangePairs, RangeAssumption DEF Unissued, Pairs
<1>3. TypeOK
    BY <1>1, RangeAssumption DEF TypeOK
<1>4. next = MinPort + 2 * 0 /\ 0 \in 0 .. NumPairs
    BY <1>1, RangePairs, RangeAssumption
<1>5. \A i, j \in DOMAIN stack : stack[i] = stack[j] => i = j
    BY <1>1
<1> QED
    BY <1>1, <1>2, <1>3, <1>4, <1>5 DEF AllocatorInv, Conservation

\* Every pair of the range is always in exactly one place.
THEOREM PairsConserved == Spec => []Conservation
<1>1. AllocatorInv => Conservation
    BY DEF AllocatorInv
<1> QED
    BY <1>1, AllocatorInit, AllocatorStep, PTL DEF Spec

\* Acquire fails exactly when every pair is out, for odd and even ranges.
THEOREM ExhaustionIsExact == Spec => []ExhaustedOnlyWhenAllOut
<1>1. AllocatorInv => ExhaustedOnlyWhenAllOut
    <2> SUFFICES ASSUME AllocatorInv PROVE ErrPortsExhausted <=> out = Pairs
        BY DEF ExhaustedOnlyWhenAllOut
    <2>1. PICK i \in 0 .. NumPairs : next = MinPort + 2 * i
        BY DEF AllocatorInv, Conservation
    <2>2. next + 1 > MaxPort <=> i = NumPairs
        BY <2>1, RangePairs, RangeAssumption
    <2>3. i = NumPairs <=> Unissued = {}
        <3>1. CASE i = NumPairs
            <4>1. \A p \in Pairs : ~ (p >= next)
                BY <2>1, <3>1, RangePairs, RangeAssumption
            <4> QED
                BY <3>1, <4>1 DEF Unissued
        <3>2. CASE i # NumPairs
            <4>1. next \in Pairs /\ next >= next
                BY <2>1, <3>2, RangePairs, RangeAssumption DEF Pairs
            <4> QED
                BY <3>2, <4>1 DEF Unissued
        <3> QED
            BY <3>1, <3>2
    <2>4. stack = <<>> <=> Stacked = {}
        <3>1. stack \in Seq(Pairs)
            BY DEF AllocatorInv, TypeOK
        <3>2. stack # <<>> => stack[1] \in Stacked
            BY <3>1 DEF Stacked
        <3>3. stack = <<>> => Stacked = {}
            BY DEF Stacked
        <3> QED
            BY <3>2, <3>3
    <2> QED
        BY <2>2, <2>3, <2>4 DEF AllocatorInv, TypeOK, Conservation, ErrPortsExhausted
<1> QED
    BY <1>1, AllocatorInit, AllocatorStep, PTL DEF Spec

\* The allocator implements the pool that CallBridge is built on.
THEOREM ImplementsPool == Spec => RefinesPool
<1>1. Init => Pool!PoolInit
    <2> SUFFICES ASSUME Init PROVE Pool!PoolInit
        OBVIOUS
    <2>1. Unissued = Pairs
        BY RangePairs, RangeAssumption DEF Init, Unissued, Pairs
    <2>2. PoolFree = [p \in Pairs |-> 1]
        BY <2>1 DEF PoolFree
    <2> QED
        BY <2>2 DEF Pool!PoolInit
<1>2. AllocatorInv /\ [Next]_vars => [Pool!PoolNext]_PoolFree
    <2> SUFFICES ASSUME AllocatorInv, [Next]_vars PROVE [Pool!PoolNext]_PoolFree
        OBVIOUS
    <2>1. CASE AcquireFree
        <3> DEFINE top == stack[Len(stack)]
        <3>2. top \in Pairs /\ Stacked' = Stacked \ {top} /\ top \in Stacked
            BY <2>1, PopStacked
        <3>3. Unissued' = Unissued /\ Unissued \cap Stacked = {}
            BY <2>1 DEF AllocatorInv, Conservation, AcquireFree, Unissued
        <3> HIDE DEF top
        <3>4. PoolFree[top] = 1 /\ PoolFree' = [PoolFree EXCEPT ![top] = 0]
            BY <3>2, <3>3 DEF PoolFree
        <3>5. Pool!Take(top)
            BY <3>2, <3>4 DEF Pool!Take
        <3> QED
            BY <3>2, <3>5 DEF Pool!PoolNext
    <2>2. CASE AcquireNext
        <3>1. next \in Pairs /\ Unissued' = Unissued \ {next} /\ next \in Unissued
            BY <2>2, IssueNext
        <3>2. Stacked' = Stacked /\ Unissued \cap Stacked = {}
            BY <2>2 DEF AllocatorInv, Conservation, AcquireNext, Stacked
        <3>3. PoolFree[next] = 1 /\ PoolFree' = [PoolFree EXCEPT ![next] = 0]
            BY <3>1, <3>2 DEF PoolFree
        <3>4. Pool!Take(next)
            BY <3>1, <3>3 DEF Pool!Take
        <3> QED
            BY <3>1, <3>4 DEF Pool!PoolNext
    <2>3. ASSUME NEW p \in Pairs, Release(p) PROVE Pool!PoolNext
        <3>1. p \notin Stacked /\ p \notin Unissued
            BY <2>3 DEF Release, AllocatorInv, Conservation
        <3>2. /\ stack \in Seq(Pairs) /\ stack' = Append(stack, p)
              /\ \A i, j \in DOMAIN stack : stack[i] = stack[j] => i = j
            BY <2>3 DEF AllocatorInv, Release, TypeOK, Conservation
        <3>3. Stacked' = Stacked \cup {p} /\ Unissued' = Unissued
            BY <2>3, <3>1, <3>2, PushStacked DEF Stacked, Release, Unissued
        <3>4. PoolFree' = [q \in Pairs |-> IF q \in {p} THEN PoolFree[q] + 1 ELSE PoolFree[q]]
            BY <3>1, <3>3 DEF PoolFree
        <3> QED
            BY <3>4 DEF Pool!PoolNext, Pool!Give
    <2>4. CASE UNCHANGED vars
        BY <2>4 DEF vars, PoolFree, Stacked, Unissued
    <2> QED
        BY <2>1, <2>2, <2>3, <2>4 DEF Next, AcquireFails
<1> QED
    BY <1>1, <1>2, AllocatorInit, AllocatorStep, PTL DEF Spec, RefinesPool, Pool!PoolSpec
=============================================================================
