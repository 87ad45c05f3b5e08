----------------------- MODULE MediaNegotiationProofs -----------------------
(***************************************************************************)
(* That every invariant of MediaNegotiation holds, for descriptions of any *)
(* length and any constants that the module's assumptions allow.           *)
(*                                                                         *)
(* The passes over a description are recursive functions; UpTo and UpFrom  *)
(* are the induction, on the set of the positions up to which a statement  *)
(* holds.  The lemmas say what each pass has read after i lines, then what *)
(* the operator built on it returns; the invariant (NegInv, at the end)    *)
(* says where each description and address of a call came from, and the    *)
(* properties follow from the two.                                         *)
(***************************************************************************)
EXTENDS MediaNegotiation, FiniteSetTheorems, WellFoundedInduction, SequenceTheorems, TLAPS

\* Every non-empty set of naturals has a least element, and Min is it.
LEMMA LeastNat ==
    ASSUME NEW S, S \subseteq Nat, S # {}
    PROVE  Min(S) \in S /\ \A i \in S : Min(S) <= i
<1>1. PICK m \in S : \A y \in S : <<y, m>> \notin OpToRel(<, Nat)
    BY WFMin, NatLessThanWellFounded
<1>2. \A y \in S : m <= y
    <2> SUFFICES ASSUME NEW y \in S, y < m PROVE FALSE
        OBVIOUS
    <2>1. <<y, m>> \in OpToRel(<, Nat)
        BY DEF OpToRel
    <2> QED
        BY <1>1, <2>1
<1> QED
    BY <1>2 DEF Min

\* Induction up to n, on the set of the numbers that have a property.
LEMMA UpTo ==
    ASSUME NEW n \in Nat, NEW S, 0 \in S, \A i \in 0 .. n - 1 : i \in S => i + 1 \in S
    PROVE  \A i \in 0 .. n : i \in S
<1> DEFINE bad == (0 .. n) \ S
<1> SUFFICES ASSUME bad # {} PROVE FALSE
    OBVIOUS
<1>1. Min(bad) \in bad /\ \A i \in bad : Min(bad) <= i
    BY LeastNat
<1>2. PICK m \in bad : \A i \in bad : m <= i
    BY <1>1
<1>3. m # 0 /\ m - 1 \in 0 .. n - 1
    BY <1>2
<1>4. m - 1 \in S
    BY <1>2, <1>3
<1> QED
    BY <1>2, <1>3, <1>4

\* f is the states of a pass over n elements.
IsRun(f, n, A, a, G) ==
    f \in [0 .. n -> A] /\ f[0] = a /\ \A i \in 1 .. n : f[i] = G[i][f[i - 1]]

\* A pass has a state after each element: G[i] is what the ith element does to the state.
LEMMA PassExists ==
    ASSUME NEW n \in Nat, NEW A, NEW a \in A, NEW G \in [1 .. n -> [A -> A]]
    PROVE  \E f : IsRun(f, n, A, a, G)
<1> USE DEF IsRun
<1> DEFINE Run(m, f) == f \in [0 .. m -> A] /\ f[0] = a /\ \A i \in 1 .. m : f[i] = G[i][f[i - 1]]
           good == {m \in 0 .. n : \E f : Run(m, f)}
<1>1. 0 \in good
    <2>1. Run(0, [i \in 0 .. 0 |-> a])
        OBVIOUS
    <2>2. \E f : Run(0, f)
        BY <2>1
    <2> QED
        BY <2>2
<1>2. ASSUME NEW m \in 0 .. n - 1, m \in good
      PROVE  m + 1 \in good
    <2>1. PICK f : Run(m, f)
        BY <1>2
    <2> DEFINE g == [i \in 0 .. m + 1 |-> IF i = m + 1 THEN G[m + 1][f[m]] ELSE f[i]]
    <2>2. g \in [0 .. m + 1 -> A] /\ g[0] = a
        BY <2>1
    <2>3. \A i \in 1 .. m + 1 : g[i] = G[i][g[i - 1]]
        BY <2>1
    <2>4. Run(m + 1, g)
        BY <2>2, <2>3
    <2>5. \E h : Run(m + 1, h)
        BY <2>4
    <2>6. m + 1 \in 0 .. n
        OBVIOUS
    <2> HIDE DEF Run
    <2> QED
        BY <2>5, <2>6
<1>3. n \in good
    <2> HIDE DEF good
    <2> QED
        BY <1>1, <1>2, UpTo, n \in 0 .. n
<1> QED
    BY <1>3
-----------------------------------------------------------------------------
(* parseMedia's pass *)

MediaStates == [inAudio : BOOLEAN, session : Text, host : Text, port : Int]
MediaStart == [inAudio |-> FALSE, session |-> Empty, host |-> Empty, port |-> 0]

\* What the pass starts with.
LEMMA MediaStartIs ==
    ~MediaStart.inAudio /\ MediaStart.session = Empty /\ MediaStart.host = Empty /\ MediaStart.port = 0
BY DEF MediaStart

\* ReadMedia keeps the state's type.
LEMMA ReadMediaType ==
    ASSUME NEW acc \in MediaStates, NEW l \in Line
    PROVE  ReadMedia(acc, l) \in MediaStates
<1>1. CASE IsMedia(l)
    <2>1. l \in MediaLine
        BY <1>1 DEF Line, MediaLine, RtpmapLine, IsMedia
    <2>2. IsAudio(l) \in BOOLEAN /\ l.port \in Int
        BY <2>1 DEF IsAudio, MediaLine
    <2> DEFINE port == IF IsAudio(l) THEN l.port ELSE acc.port
               host == IF IsAudio(l) THEN acc.session ELSE acc.host
    <2>. ~IsConn(l)
        BY <1>1 DEF IsMedia, IsConn
    <2>3. ReadMedia(acc, l) = [acc EXCEPT !.inAudio = IsAudio(l), !.port = port, !.host = host]
        BY <1>1 DEF ReadMedia, MediaStates
    <2>4. port \in Int /\ host \in Text
        BY <2>2 DEF MediaStates
    <2> HIDE DEF port, host
    <2> QED
        BY <2>2, <2>3, <2>4 DEF MediaStates
<1>2. CASE ~IsMedia(l) /\ IsConn(l)
    <2>1. l.addr \in Text
        BY <1>2 DEF Line, MediaLine, RtpmapLine, IsConn
    <2> QED
        BY <1>2, <2>1 DEF ReadMedia, MediaStates
<1>3. CASE ~IsMedia(l) /\ ~IsConn(l)
    BY <1>3 DEF ReadMedia
<1> QED
    BY <1>1, <1>2, <1>3

\* The states of the pass: one step of ReadMedia for each line.
LEMMA MediaPassSteps ==
    ASSUME NEW sdp \in Description
    PROVE  /\ MediaPass(sdp)[0] = MediaStart
           /\ \A i \in 1 .. Len(sdp) : MediaPass(sdp)[i] = ReadMedia(MediaPass(sdp)[i - 1], sdp[i])
           /\ \A i \in 0 .. Len(sdp) : MediaPass(sdp)[i] \in MediaStates
<1> DEFINE n == Len(sdp)
           G == [i \in 1 .. n |-> [acc \in MediaStates |-> ReadMedia(acc, sdp[i])]]
           Eq(p) == p = [i \in 0 .. n |-> IF i = 0 THEN MediaStart ELSE ReadMedia(p[i - 1], sdp[i])]
           p == MediaPass(sdp)
<1>1. n \in Nat /\ \A i \in 1 .. n : sdp[i] \in Line
    BY DEF Description
<1>2. MediaStart \in MediaStates
    <2>1. Empty \in Text
        BY TextAssumption
    <2>2. 0 \in Int
        OBVIOUS
    <2> QED
        BY <2>1, <2>2, Zenon DEF MediaStart, MediaStates
<1>3. G \in [1 .. n -> [MediaStates -> MediaStates]]
    BY <1>1, ReadMediaType
<1>4. PICK f : IsRun(f, n, MediaStates, MediaStart, G)
    <2> HIDE DEF G
    <2> QED
        BY <1>1, <1>2, <1>3, PassExists
<1>5. ASSUME NEW i \in 1 .. n PROVE f[i] = ReadMedia(f[i - 1], sdp[i])
    <2>1. f[i - 1] \in MediaStates
        BY <1>1, <1>4 DEF IsRun
    <2> QED
        BY <1>1, <1>4, <2>1 DEF IsRun
<1>6. Eq(f)
    BY <1>1, <1>4, <1>5 DEF IsRun
<1>7. p = CHOOSE q : Eq(q)
    BY DEF MediaPass, Pass, MediaStart
<1>8. Eq(p)
    <2> HIDE DEF Eq, p
    <2> QED
        BY <1>6, <1>7
<1>9. p[0] = MediaStart /\ \A i \in 1 .. n : p[i] = ReadMedia(p[i - 1], sdp[i])
    <2> HIDE DEF p
    <2> QED
        BY <1>1, <1>8
<1>10. \A i \in 0 .. n : p[i] \in MediaStates
    <2> DEFINE S == {i \in 0 .. n : p[i] \in MediaStates}
    <2> HIDE DEF p, n
    <2>1. 0 \in S
        BY <1>1, <1>2, <1>9
    <2>2. ASSUME NEW i \in 0 .. n - 1, i \in S PROVE i + 1 \in S
        <3>1. i + 1 \in 1 .. n /\ (i + 1) - 1 = i
            BY <1>1
        <3>2. p[i + 1] = ReadMedia(p[i], sdp[i + 1])
            BY <1>9, <3>1
        <3> QED
            BY <1>1, <2>2, <3>1, <3>2, ReadMediaType
    <2> HIDE DEF S
    <2>3. \A i \in 0 .. n : i \in S
        BY <1>1, <2>1, <2>2, UpTo
    <2> QED
        BY <2>3 DEF S
<1> QED
    BY <1>9, <1>10

-----------------------------------------------------------------------------
(* Positions in a description *)

\* The first of a set of positions, or one beyond the end.
LEMMA FirstOf ==
    ASSUME NEW n \in Nat, NEW S, S \subseteq 1 .. n
    PROVE  /\ Min(S \cup {n + 1}) \in 1 .. n + 1
           /\ \A i \in S : Min(S \cup {n + 1}) <= i
           /\ Min(S \cup {n + 1}) <= n => Min(S \cup {n + 1}) \in S
           /\ S # {} => Min(S \cup {n + 1}) \in S
<1> DEFINE T == S \cup {n + 1}
<1>1. T \subseteq Nat /\ T # {}
    OBVIOUS
<1>2. Min(T) \in T /\ \A i \in T : Min(T) <= i
    BY <1>1, LeastNat
<1>3. PICK m : m = Min(T)
    OBVIOUS
<1>4. m \in S \/ m = n + 1
    BY <1>2, <1>3
<1>5. m <= n + 1 /\ \A i \in S : m <= i
    BY <1>2, <1>3
<1>6. m \in 1 .. n + 1
    <2>1. \A i \in S : i \in 1 .. n
        OBVIOUS
    <2>2. CASE m \in S
        BY <2>1, <2>2
    <2>3. CASE m = n + 1
        BY <2>3
    <2> QED
        BY <1>4, <2>2, <2>3
<1>7. m <= n => m \in S
    BY <1>4
<1>8. ASSUME S # {} PROVE m \in S
    <2>1. PICK i \in S : TRUE
        BY <1>8
    <2>2. i \in 1 .. n /\ m <= i
        BY <1>5
    <2> QED
        BY <1>7, <1>6, <2>2
<1> QED
    BY <1>3, <1>5, <1>6, <1>7, <1>8

\* The lines of a description, and that an m= line is no c= line.
LEMMA DescriptionLines ==
    ASSUME NEW sdp \in Description
    PROVE  /\ Len(sdp) \in Nat /\ DOMAIN sdp = 1 .. Len(sdp)
           /\ \A i \in 1 .. Len(sdp) : sdp[i] \in Line
           /\ Lines(sdp, IsMedia) = {i \in 1 .. Len(sdp) : IsMedia(sdp[i])}
           /\ Lines(sdp, IsAudio) = {i \in 1 .. Len(sdp) : IsAudio(sdp[i])}
           /\ Lines(sdp, IsConn) = {i \in 1 .. Len(sdp) : IsConn(sdp[i])}
           /\ Lines(sdp, IsRtpmap) = {i \in 1 .. Len(sdp) : IsRtpmap(sdp[i])}
           /\ Lines(sdp, IsAudio) \subseteq Lines(sdp, IsMedia)
           /\ Lines(sdp, IsAudio) \cap Lines(sdp, IsConn) = {}
           /\ Lines(sdp, IsMedia) \cap Lines(sdp, IsConn) = {}
<1>1. Len(sdp) \in Nat /\ DOMAIN sdp = 1 .. Len(sdp) /\ \A i \in 1 .. Len(sdp) : sdp[i] \in Line
    BY DEF Description
<1> QED
    BY <1>1 DEF Lines, IsMedia, IsAudio, IsConn, IsRtpmap

\* A line of each kind has its fields.
LEMMA LineFields ==
    ASSUME NEW l \in Line
    PROVE  /\ IsMedia(l) => l \in MediaLine /\ l.port \in Int /\ l.fmts \in Seq(Nat)
           /\ IsAudio(l) => IsMedia(l)
           /\ IsConn(l) => l.addr \in Text /\ l = ConnLine(l.addr)
           /\ IsRtpmap(l) => l.pt \in Nat /\ l.name \in Text
<1>1. IsMedia(l) => l \in MediaLine
    BY DEF Line, MediaLine, RtpmapLine, IsMedia
<1>2. IsConn(l) => l \in [k : {"c"}, addr : Text]
    BY DEF Line, MediaLine, RtpmapLine, IsConn
<1>3. IsRtpmap(l) => l \in RtpmapLine
    BY DEF Line, MediaLine, RtpmapLine, IsRtpmap
<1> QED
    BY <1>1, <1>2, <1>3 DEF MediaLine, RtpmapLine, IsAudio, IsMedia, ConnLine

\* The section opened at i reaches to the last line before the next m= line.
LEMMA SectionEndIs ==
    ASSUME NEW sdp \in Description, NEW i \in 1 .. Len(sdp)
    PROVE  /\ SectionEnd(sdp, i) \in i .. Len(sdp)
           /\ \A j \in i + 1 .. Len(sdp) :
                j <= SectionEnd(sdp, i) <=> \A v \in Lines(sdp, IsMedia) : v <= i \/ j < v
<1> DEFINE n == Len(sdp)
           after == {j \in Lines(sdp, IsMedia) : i < j}
           m == Min(after \cup {n + 1})
<1>1. n \in Nat /\ Lines(sdp, IsMedia) \subseteq 1 .. n
    BY DescriptionLines
<1>2. after \subseteq 1 .. n
    BY <1>1
<1>3. m \in 1 .. n + 1 /\ (\A j \in after : m <= j) /\ (m <= n => m \in after)
    <2> HIDE DEF after, n
    <2> QED
        BY <1>1, <1>2, FirstOf
<1>4. SectionEnd(sdp, i) = m - 1
    BY DEF SectionEnd
<1>5. m > i
    <2> HIDE DEF m
    <2> QED
        BY <1>1, <1>3
<1> HIDE DEF m
<1>6. SectionEnd(sdp, i) \in i .. n
    BY <1>1, <1>3, <1>4, <1>5
<1>7. ASSUME NEW j \in i + 1 .. n
      PROVE  j <= m - 1 <=> \A v \in Lines(sdp, IsMedia) : v <= i \/ j < v
    <2>1. ASSUME j <= m - 1, NEW v \in Lines(sdp, IsMedia), ~(v <= i) PROVE j < v
        BY <1>1, <1>3, <2>1
    <2>2. ASSUME ~(j <= m - 1)
          PROVE  \E v \in Lines(sdp, IsMedia) : ~(v <= i \/ j < v)
        <3>1. m \in after
            BY <1>1, <1>3, <2>2
        <3> QED
            BY <1>1, <1>3, <2>2, <3>1
    <2> QED
        BY <2>1, <2>2
<1> QED
    BY <1>4, <1>6, <1>7

-----------------------------------------------------------------------------
(* What parseMedia's pass holds after i lines *)

\* The audio section at m is the one that line i is in.
AudioAt(sdp, m, i) ==
    m \in Lines(sdp, IsAudio) /\ m <= i /\ \A v \in Lines(sdp, IsMedia) : v <= m \/ i < v

\* One step of the pass, by the kind of the line.
LEMMA ReadMediaIs ==
    ASSUME NEW acc \in MediaStates, NEW l \in Line
    PROVE  /\ IsAudio(l) => /\ ReadMedia(acc, l).inAudio
                            /\ ReadMedia(acc, l).port = l.port
                            /\ ReadMedia(acc, l).host = acc.session
                            /\ ReadMedia(acc, l).session = acc.session
           /\ IsMedia(l) /\ ~IsAudio(l) => /\ ~ReadMedia(acc, l).inAudio
                                           /\ ReadMedia(acc, l).port = acc.port
                                           /\ ReadMedia(acc, l).host = acc.host
                                           /\ ReadMedia(acc, l).session = acc.session
           /\ IsConn(l) => /\ ReadMedia(acc, l).inAudio <=> acc.inAudio
                           /\ ReadMedia(acc, l).port = acc.port
           /\ IsConn(l) /\ acc.inAudio => /\ ReadMedia(acc, l).host = l.addr
                                          /\ ReadMedia(acc, l).session = acc.session
           /\ IsConn(l) /\ ~acc.inAudio =>
                /\ ReadMedia(acc, l).session = l.addr
                /\ ReadMedia(acc, l).host = IF acc.host = Empty THEN l.addr ELSE acc.host
           /\ ~IsMedia(l) /\ ~IsConn(l) => ReadMedia(acc, l) = acc
<1>1. CASE IsMedia(l)
    <2>1. ~IsConn(l) /\ IsAudio(l) \in BOOLEAN
        BY <1>1 DEF IsMedia, IsConn, IsAudio
    <2> DEFINE port == IF IsAudio(l) THEN l.port ELSE acc.port
               host == IF IsAudio(l) THEN acc.session ELSE acc.host
    <2>2. ReadMedia(acc, l) = [acc EXCEPT !.inAudio = IsAudio(l), !.port = port, !.host = host]
        BY <1>1, <2>1 DEF ReadMedia, MediaStates
    <2> HIDE DEF port, host
    <2>3. /\ ReadMedia(acc, l).inAudio = IsAudio(l) /\ ReadMedia(acc, l).port = port
          /\ ReadMedia(acc, l).host = host /\ ReadMedia(acc, l).session = acc.session
        BY <2>2 DEF MediaStates
    <2> QED
        BY <1>1, <2>1, <2>3 DEF port, host
<1>2. CASE IsConn(l)
    <2>1. ~IsMedia(l) /\ ~IsAudio(l)
        BY <1>2 DEF IsMedia, IsConn, IsAudio
    <2>2. CASE acc.inAudio
        <3>1. ReadMedia(acc, l) = [acc EXCEPT !.host = l.addr]
            BY <1>2, <2>1, <2>2 DEF ReadMedia
        <3> QED
            BY <1>2, <2>1, <2>2, <3>1 DEF MediaStates
    <2>3. CASE ~acc.inAudio
        <3> DEFINE host == IF acc.host = Empty THEN l.addr ELSE acc.host
        <3>1. ReadMedia(acc, l) = [acc EXCEPT !.session = l.addr, !.host = host]
            BY <1>2, <2>1, <2>3 DEF ReadMedia, MediaStates
        <3> HIDE DEF host
        <3>2. /\ ReadMedia(acc, l).session = l.addr /\ ReadMedia(acc, l).host = host
              /\ ReadMedia(acc, l).inAudio = acc.inAudio /\ ReadMedia(acc, l).port = acc.port
            BY <3>1 DEF MediaStates
        <3> QED
            BY <1>2, <2>1, <2>3, <3>2 DEF host
    <2> QED
        BY <2>2, <2>3
<1>3. CASE ~IsMedia(l) /\ ~IsConn(l)
    <2>1. ~IsAudio(l)
        BY <1>3 DEF IsAudio, IsMedia
    <2>2. ReadMedia(acc, l) = acc
        BY <1>3, <2>1 DEF ReadMedia
    <2> QED
        BY <1>3, <2>1, <2>2
<1> QED
    BY <1>1, <1>2, <1>3

\* The step from line i to the next.
LEMMA MediaStep ==
    ASSUME NEW sdp \in Description, NEW i \in 0 .. Len(sdp) - 1
    PROVE  LET p == MediaPass(sdp)[i]
               q == MediaPass(sdp)[i + 1]
               l == sdp[i + 1]
           IN  /\ i + 1 \in 1 .. Len(sdp) /\ i \in 0 .. Len(sdp) /\ l \in Line
               /\ p \in MediaStates /\ q \in MediaStates
               /\ IsAudio(l) => q.inAudio /\ q.port = l.port /\ q.host = p.session
               /\ IsMedia(l) /\ ~IsAudio(l) => ~q.inAudio /\ q.host = p.host
               /\ ~IsMedia(l) => (q.inAudio <=> p.inAudio)
               /\ ~IsAudio(l) => q.port = p.port
               /\ IsConn(l) /\ p.inAudio => q.host = l.addr
               /\ IsConn(l) /\ ~p.inAudio => q.session = l.addr /\ (p.host # Empty => q.host = p.host)
               /\ IsMedia(l) \/ p.inAudio \/ ~IsConn(l) => q.session = p.session
               /\ ~IsMedia(l) /\ ~IsConn(l) => q.host = p.host
<1>1. i + 1 \in 1 .. Len(sdp) /\ i \in 0 .. Len(sdp) /\ i + 1 \in 0 .. Len(sdp) /\ (i + 1) - 1 = i
    BY DescriptionLines
<1>2. PICK p, q, l : p = MediaPass(sdp)[i] /\ q = MediaPass(sdp)[i + 1] /\ l = sdp[i + 1]
    OBVIOUS
<1>3. p \in MediaStates /\ q \in MediaStates /\ l \in Line /\ q = ReadMedia(p, l)
    BY <1>1, <1>2, MediaPassSteps, DescriptionLines
<1>4. (IsAudio(l) => IsMedia(l)) /\ (IsConn(l) => ~IsMedia(l))
    BY DEF IsAudio, IsMedia, IsConn
<1>5. /\ IsAudio(l) => q.inAudio /\ q.port = l.port /\ q.host = p.session
      /\ IsMedia(l) /\ ~IsAudio(l) => ~q.inAudio /\ q.host = p.host
      /\ ~IsMedia(l) => (q.inAudio <=> p.inAudio)
      /\ ~IsAudio(l) => q.port = p.port
      /\ IsConn(l) /\ p.inAudio => q.host = l.addr
      /\ IsConn(l) /\ ~p.inAudio => q.session = l.addr /\ (p.host # Empty => q.host = p.host)
      /\ IsMedia(l) \/ p.inAudio \/ ~IsConn(l) => q.session = p.session
      /\ ~IsMedia(l) /\ ~IsConn(l) => q.host = p.host
    BY <1>3, <1>4, ReadMediaIs
<1> QED
    BY <1>1, <1>2, <1>3, <1>5

\* inAudio says whether the line is in an audio section.
LEMMA InAudioIs ==
    ASSUME NEW sdp \in Description, NEW i \in 0 .. Len(sdp)
    PROVE  MediaPass(sdp)[i].inAudio <=> \E m \in 1 .. Len(sdp) : AudioAt(sdp, m, i)
<1> DEFINE n == Len(sdp)
           p == MediaPass(sdp)
           In(k) == \E m \in 1 .. n : AudioAt(sdp, m, k)
           S == {k \in 0 .. n : p[k].inAudio <=> In(k)}
<1>1. /\ n \in Nat /\ \A k \in 1 .. n : sdp[k] \in Line
      /\ Lines(sdp, IsMedia) = {k \in 1 .. n : IsMedia(sdp[k])}
      /\ Lines(sdp, IsAudio) = {k \in 1 .. n : IsAudio(sdp[k])}
      /\ Lines(sdp, IsAudio) \subseteq Lines(sdp, IsMedia)
    BY DescriptionLines
<1>2. /\ p[0] = MediaStart
      /\ \A k \in 1 .. n : p[k] = ReadMedia(p[k - 1], sdp[k])
      /\ \A k \in 0 .. n : p[k] \in MediaStates
    BY MediaPassSteps
<1> HIDE DEF p, n
<1>3. 0 \in S
    <2>1. ~p[0].inAudio
        BY <1>2, MediaStartIs
    <2>2. ~In(0)
        BY <1>1 DEF AudioAt
    <2> QED
        BY <1>1, <2>1, <2>2
<1>4. ASSUME NEW k \in 0 .. n - 1, k \in S PROVE k + 1 \in S
    <2>1. /\ k + 1 \in 1 .. n /\ k \in 0 .. n
          /\ IsAudio(sdp[k + 1]) => p[k + 1].inAudio
          /\ IsMedia(sdp[k + 1]) /\ ~IsAudio(sdp[k + 1]) => ~p[k + 1].inAudio
          /\ ~IsMedia(sdp[k + 1]) => (p[k + 1].inAudio <=> p[k].inAudio)
        BY MediaStep DEF p, n
    <2>2. CASE IsAudio(sdp[k + 1])
        <3>1. p[k + 1].inAudio
            BY <2>1, <2>2
        <3>2. AudioAt(sdp, k + 1, k + 1)
            BY <1>1, <2>1, <2>2 DEF AudioAt
        <3> QED
            BY <2>1, <3>1, <3>2
    <2>3. CASE IsMedia(sdp[k + 1]) /\ ~IsAudio(sdp[k + 1])
        <3>1. ~p[k + 1].inAudio
            BY <2>1, <2>3
        <3>2. ASSUME NEW m \in 1 .. n PROVE ~AudioAt(sdp, m, k + 1)
            <4>1. k + 1 \in Lines(sdp, IsMedia) /\ k + 1 \notin Lines(sdp, IsAudio)
                BY <1>1, <2>1, <2>3
            <4> QED
                BY <1>1, <2>1, <4>1 DEF AudioAt
        <3> QED
            BY <2>1, <3>1, <3>2
    <2>4. CASE ~IsMedia(sdp[k + 1])
        <3>1. ~IsAudio(sdp[k + 1])
            BY <2>4 DEF IsAudio, IsMedia
        <3>2. p[k + 1].inAudio <=> p[k].inAudio
            BY <2>1, <2>4, <3>1
        <3>3. ASSUME NEW m \in 1 .. n PROVE AudioAt(sdp, m, k + 1) <=> AudioAt(sdp, m, k)
            BY <1>1, <2>1, <2>4, <3>1 DEF AudioAt
        <3> QED
            BY <1>4, <2>1, <3>2, <3>3
    <2> QED
        BY <2>2, <2>3, <2>4
<1>5. \A k \in 0 .. n : k \in S
    <2> HIDE DEF S
    <2> QED
        BY <1>1, <1>3, <1>4, UpTo
<1> QED
    BY <1>5 DEF n, p

\* a is the last audio line.
IsLastAudio(sdp, a) == a \in Lines(sdp, IsAudio) /\ \A i \in Lines(sdp, IsAudio) : i <= a

\* The port is that of the last audio line, and 0 without one.
LEMMA PortIs ==
    ASSUME NEW sdp \in Description
    PROVE  /\ Lines(sdp, IsAudio) = {} => MediaPass(sdp)[Len(sdp)].port = 0
           /\ \A a : IsLastAudio(sdp, a) => MediaPass(sdp)[Len(sdp)].port = sdp[a].port
<1> DEFINE n == Len(sdp)
           p == MediaPass(sdp)
<1>1. n \in Nat /\ Lines(sdp, IsAudio) = {k \in 1 .. n : IsAudio(sdp[k])}
    BY DescriptionLines
<1>2. ASSUME NEW k \in 0 .. n - 1
      PROVE  /\ k + 1 \in 1 .. n /\ k \in 0 .. n
             /\ IsAudio(sdp[k + 1]) => p[k + 1].port = sdp[k + 1].port
             /\ ~IsAudio(sdp[k + 1]) => p[k + 1].port = p[k].port
    BY MediaStep
<1>3. p[0].port = 0
    BY MediaPassSteps, MediaStartIs
<1> HIDE DEF n, p
<1>4. ASSUME Lines(sdp, IsAudio) = {} PROVE p[n].port = 0
    <2> DEFINE S == {k \in 0 .. n : p[k].port = 0}
    <2>1. 0 \in S
        BY <1>1, <1>3
    <2>2. ASSUME NEW k \in 0 .. n - 1, k \in S PROVE k + 1 \in S
        <3>1. ~IsAudio(sdp[k + 1])
            BY <1>1, <1>2, <1>4
        <3> QED
            BY <1>1, <1>2, <2>2, <3>1
    <2>3. n \in S
        <3> HIDE DEF S
        <3> QED
            BY <1>1, <2>1, <2>2, UpTo
    <2> QED
        BY <2>3
<1>5. ASSUME NEW a, IsLastAudio(sdp, a) PROVE p[n].port = sdp[a].port
    <2> DEFINE S == {k \in 0 .. n : a <= k => p[k].port = sdp[a].port}
    <2>1. a \in 1 .. n /\ IsAudio(sdp[a]) /\ \A k \in 1 .. n : IsAudio(sdp[k]) => k <= a
        BY <1>1, <1>5 DEF IsLastAudio
    <2>2. 0 \in S
        BY <1>1, <2>1
    <2>3. ASSUME NEW k \in 0 .. n - 1, k \in S PROVE k + 1 \in S
        <3>1. CASE k + 1 = a
            BY <1>2, <2>1, <3>1
        <3>2. CASE k + 1 # a
            BY <1>1, <1>2, <2>1, <2>3, <3>2
        <3> QED
            BY <3>1, <3>2
    <2>4. n \in S
        <3> HIDE DEF S
        <3> QED
            BY <1>1, <2>2, <2>3, UpTo
    <2> QED
        BY <1>1, <2>1, <2>4
<1> QED
    BY <1>4, <1>5 DEF n, p

\* Once the last audio section has an address, only a c= line of its own changes it.
LEMMA HostStays ==
    ASSUME NEW sdp \in Description, NEW a, IsLastAudio(sdp, a),
           NEW k \in 0 .. Len(sdp) - 1, a <= k, k + 1 \notin OwnConns(sdp, a),
           MediaPass(sdp)[k].host # Empty
    PROVE  MediaPass(sdp)[k + 1].host = MediaPass(sdp)[k].host
<1>1. /\ Len(sdp) \in Nat
      /\ Lines(sdp, IsMedia) = {i \in 1 .. Len(sdp) : IsMedia(sdp[i])}
      /\ Lines(sdp, IsAudio) = {i \in 1 .. Len(sdp) : IsAudio(sdp[i])}
      /\ Lines(sdp, IsConn) = {i \in 1 .. Len(sdp) : IsConn(sdp[i])}
      /\ Lines(sdp, IsAudio) \subseteq Lines(sdp, IsMedia)
      /\ Lines(sdp, IsMedia) \cap Lines(sdp, IsConn) = {}
    BY DescriptionLines
<1>2. a \in 1 .. Len(sdp) /\ a \in Lines(sdp, IsMedia) /\ k + 1 \in a + 1 .. Len(sdp)
    BY <1>1 DEF IsLastAudio
<1>3. ~IsAudio(sdp[k + 1])
    BY <1>1, <1>2 DEF IsLastAudio
<1>4. ASSUME IsConn(sdp[k + 1]), MediaPass(sdp)[k].inAudio PROVE FALSE
    <2>1. PICK m \in 1 .. Len(sdp) : AudioAt(sdp, m, k)
        BY <1>1, <1>2, <1>4, InAudioIs
    <2>2. m = a
        BY <1>1, <1>2, <2>1 DEF AudioAt, IsLastAudio
    <2>3. \A v \in Lines(sdp, IsMedia) : v <= a \/ k + 1 < v
        BY <1>1, <1>2, <1>4, <2>1, <2>2 DEF AudioAt
    <2>4. k + 1 <= SectionEnd(sdp, a)
        BY <1>2, <2>3, SectionEndIs
    <2>5. k + 1 \in Lines(sdp, IsConn) /\ a < k + 1
        BY <1>1, <1>2, <1>4
    <2> QED
        BY <2>4, <2>5 DEF OwnConns
<1>5. CASE IsMedia(sdp[k + 1])
    BY <1>3, <1>5, MediaStep
<1>6. CASE IsConn(sdp[k + 1])
    BY <1>4, <1>6, MediaStep
<1>7. CASE ~IsMedia(sdp[k + 1]) /\ ~IsConn(sdp[k + 1])
    BY <1>7, MediaStep
<1> QED
    BY <1>5, <1>6, <1>7

\* The last audio section has one c= line of its own: parseMedia's host is its address.
LEMMA OwnHost ==
    ASSUME NEW sdp \in Description, NEW a, IsLastAudio(sdp, a),
           NEW j, OwnConns(sdp, a) = {j}, sdp[j].addr # Empty
    PROVE  MediaPass(sdp)[Len(sdp)].host = sdp[j].addr
<1> DEFINE n == Len(sdp)
           p == MediaPass(sdp)
           S == {k \in 0 .. n : j <= k => p[k].host = sdp[j].addr}
<1>1. /\ n \in Nat
      /\ Lines(sdp, IsMedia) = {i \in 1 .. n : IsMedia(sdp[i])}
      /\ Lines(sdp, IsAudio) = {i \in 1 .. n : IsAudio(sdp[i])}
      /\ Lines(sdp, IsConn) = {i \in 1 .. n : IsConn(sdp[i])}
    BY DescriptionLines
<1>2. a \in 1 .. n
    BY <1>1 DEF IsLastAudio
<1>3. j \in a + 1 .. n /\ IsConn(sdp[j]) /\ j <= SectionEnd(sdp, a)
    BY <1>1, <1>2 DEF OwnConns
<1>4. 0 \in S
    BY <1>1, <1>2, <1>3
<1>5. ASSUME NEW k \in 0 .. n - 1, k \in S PROVE k + 1 \in S
    <2>1. CASE k + 1 = j
        <3>1. \A v \in Lines(sdp, IsMedia) : v <= a \/ j < v
            BY <1>2, <1>3, SectionEndIs
        <3>2. AudioAt(sdp, a, k)
            BY <1>1, <1>2, <1>3, <2>1, <3>1 DEF AudioAt, IsLastAudio
        <3>3. p[k].inAudio
            BY <1>1, <1>2, <3>2, InAudioIs
        <3> QED
            BY <1>3, <2>1, <3>3, MediaStep
    <2>2. CASE j < k + 1
        <3>1. p[k].host = sdp[j].addr
            BY <1>1, <1>3, <1>5, <2>2
        <3>2. p[k + 1].host = p[k].host
            BY <1>1, <1>2, <1>3, <2>2, <3>1, HostStays
        <3> QED
            BY <1>1, <3>1, <3>2
    <2>3. CASE k + 1 < j
        BY <1>1, <1>3, <2>3
    <2> QED
        BY <1>1, <1>3, <2>1, <2>2, <2>3
<1>6. n \in S
    <2> HIDE DEF S
    <2> QED
        BY <1>1, <1>4, <1>5, UpTo, n \in 0 .. n
<1> QED
    BY <1>1, <1>3, <1>6

\* A non-empty set of numbers up to k has a greatest one.
LEMMA GreatestUpTo ==
    ASSUME NEW k \in Nat, NEW S, S \subseteq 0 .. k, S # {}
    PROVE  \E m \in S : \A i \in S : i <= m
<1> DEFINE D == {k - i : i \in S}
<1>1. D \subseteq Nat /\ D # {}
    <2>1. ASSUME NEW i \in S PROVE k - i \in Nat
        <3>1. i \in 0 .. k
            OBVIOUS
        <3> QED
            BY <3>1
    <2>2. PICK i \in S : TRUE
        OBVIOUS
    <2>3. k - i \in D
        BY <2>2
    <2> QED
        BY <2>1, <2>3
<1>2. PICK d \in D : \A e \in D : d <= e
    BY <1>1, LeastNat
<1>3. PICK m \in S : d = k - m
    BY <1>2
<1>4. ASSUME NEW i \in S PROVE i <= m
    BY <1>2, <1>3
<1> QED
    BY <1>3, <1>4

\* The last audio section has no c= line of its own, and no section before it that is not
\* audio has one: parseMedia's host is the session's address.
LEMMA SessionHost ==
    ASSUME NEW sdp \in Description, NEW a, IsLastAudio(sdp, a), OwnConns(sdp, a) = {},
           \A v \in Lines(sdp, IsMedia) : v < a /\ ~IsAudio(sdp[v]) => OwnConns(sdp, v) = {},
           NEW j, {i \in Lines(sdp, IsConn) : i < First(sdp, IsMedia)} = {j}, sdp[j].addr # Empty
    PROVE  MediaPass(sdp)[Len(sdp)].host = sdp[j].addr
<1> DEFINE n == Len(sdp)
           p == MediaPass(sdp)
           S == {k \in 0 .. n : j <= k /\ k < a => p[k].session = sdp[j].addr}
           T == {k \in 0 .. n : a <= k => p[k].host = sdp[j].addr}
<1>1. /\ n \in Nat
      /\ Lines(sdp, IsMedia) = {i \in 1 .. n : IsMedia(sdp[i])}
      /\ Lines(sdp, IsAudio) = {i \in 1 .. n : IsAudio(sdp[i])}
      /\ Lines(sdp, IsConn) = {i \in 1 .. n : IsConn(sdp[i])}
      /\ Lines(sdp, IsAudio) \subseteq Lines(sdp, IsMedia)
      /\ Lines(sdp, IsMedia) \cap Lines(sdp, IsConn) = {}
    BY DescriptionLines
<1>2. a \in 1 .. n /\ a \in Lines(sdp, IsMedia) /\ IsAudio(sdp[a])
    BY <1>1 DEF IsLastAudio
<1> DEFINE f == First(sdp, IsMedia)
<1>3. f \in 1 .. n /\ f \in Lines(sdp, IsMedia) /\ \A v \in Lines(sdp, IsMedia) : f <= v
    <2>1. Lines(sdp, IsMedia) \subseteq 1 .. n /\ Lines(sdp, IsMedia) # {}
        BY <1>1, <1>2
    <2>2. f = Min(Lines(sdp, IsMedia) \cup {n + 1})
        BY DEF First
    <2> HIDE DEF f
    <2>3. f \in Lines(sdp, IsMedia) /\ \A v \in Lines(sdp, IsMedia) : f <= v
        BY <1>1, <2>1, <2>2, FirstOf
    <2> QED
        BY <2>1, <2>3
<1> HIDE DEF f
<1>4. j \in 1 .. n /\ IsConn(sdp[j]) /\ j < f /\ \A i \in 1 .. n : IsConn(sdp[i]) /\ i < f => i = j
    BY <1>1 DEF f
<1>5. f <= a
    BY <1>2, <1>3
<1>6. 0 \in S
    BY <1>1, <1>4
<1>7. ASSUME NEW k \in 0 .. n - 1, k \in S PROVE k + 1 \in S
    <2> SUFFICES ASSUME j <= k + 1, k + 1 < a PROVE p[k + 1].session = sdp[j].addr
        BY <1>1
    <2>1. CASE k + 1 = j
        <3>1. \A m \in 1 .. n : ~AudioAt(sdp, m, k)
            BY <1>1, <1>3, <1>4, <2>1 DEF AudioAt
        <3>2. ~p[k].inAudio
            BY <1>1, <3>1, InAudioIs
        <3> QED
            BY <1>4, <2>1, <3>2, MediaStep
    <2>2. CASE k + 1 # j
        <3>1. p[k].session = sdp[j].addr
            BY <1>1, <1>2, <1>4, <1>7, <2>2
        <3>2. ASSUME IsConn(sdp[k + 1]), ~p[k].inAudio PROVE FALSE
            <4>1. k + 1 \in 1 .. n /\ f <= k + 1 /\ k + 1 \in Lines(sdp, IsConn)
                BY <1>1, <1>2, <1>3, <1>4, <2>2, <3>2
            <4>2. f <= k
                BY <1>1, <1>3, <4>1
            <4> DEFINE V == {v \in Lines(sdp, IsMedia) : v <= k}
            <4>3. V \subseteq 0 .. k /\ V # {}
                BY <1>1, <1>3, <4>2
            <4>4. PICK v \in V : \A w \in V : w <= v
                <5> HIDE DEF V
                <5> QED
                    BY <1>1, <4>3, GreatestUpTo, k \in Nat
            <4>5. v \in 1 .. n /\ v <= k /\ \A w \in Lines(sdp, IsMedia) : w <= v \/ k < w
                BY <1>1, <4>4
            <4>6. ~IsAudio(sdp[v])
                <5>1. ASSUME IsAudio(sdp[v]) PROVE AudioAt(sdp, v, k)
                    BY <1>1, <4>5, <5>1 DEF AudioAt
                <5> QED
                    BY <1>1, <3>2, <4>5, <5>1, InAudioIs
            <4>7. k + 1 <= SectionEnd(sdp, v)
                <5>1. \A w \in Lines(sdp, IsMedia) : w <= v \/ k + 1 < w
                    BY <1>1, <4>1, <4>5
                <5>2. k + 1 \in v + 1 .. n
                    BY <1>1, <4>1, <4>5
                <5> QED
                    BY <4>5, <5>1, <5>2, SectionEndIs
            <4>8. k + 1 \in OwnConns(sdp, v)
                BY <4>1, <4>5, <4>7 DEF OwnConns
            <4> QED
                BY <1>1, <1>2, <4>4, <4>5, <4>6, <4>8
        <3> QED
            BY <3>1, <3>2, MediaStep
    <2> QED
        BY <2>1, <2>2
<1>8. \A k \in 0 .. n : k \in S
    <2> HIDE DEF S
    <2> QED
        BY <1>1, <1>6, <1>7, UpTo
<1>9. 0 \in T
    BY <1>1, <1>2
<1>10. ASSUME NEW k \in 0 .. n - 1, k \in T PROVE k + 1 \in T
    <2>1. CASE k + 1 = a
        <3>1. p[k].session = sdp[j].addr
            BY <1>1, <1>2, <1>3, <1>4, <1>5, <1>8, <2>1
        <3> QED
            BY <1>2, <2>1, <3>1, MediaStep
    <2>2. CASE a < k + 1
        <3>1. p[k].host = sdp[j].addr
            BY <1>1, <1>2, <1>10, <2>2
        <3>2. p[k + 1].host = p[k].host
            BY <1>1, <1>2, <2>2, <3>1, HostStays
        <3> QED
            BY <1>1, <3>1, <3>2
    <2>3. CASE k + 1 < a
        BY <1>1, <1>2, <2>3
    <2> QED
        BY <1>1, <1>2, <2>1, <2>2, <2>3
<1>11. n \in T
    <2> HIDE DEF T
    <2> QED
        BY <1>1, <1>9, <1>10, UpTo, n \in 0 .. n
<1> QED
    BY <1>1, <1>2, <1>11

-----------------------------------------------------------------------------
(* parseMedia *)

\* LastAudio is the last audio line.
LEMMA LastAudioIs ==
    ASSUME NEW sdp \in Description, Lines(sdp, IsAudio) # {}
    PROVE  IsLastAudio(sdp, LastAudio(sdp))
<1>1. Len(sdp) \in Nat /\ Lines(sdp, IsAudio) \subseteq 0 .. Len(sdp)
    <2>1. Len(sdp) \in Nat /\ Lines(sdp, IsAudio) = {i \in 1 .. Len(sdp) : IsAudio(sdp[i])}
        BY DescriptionLines
    <2> QED
        BY <2>1
<1>2. \E m \in Lines(sdp, IsAudio) : \A i \in Lines(sdp, IsAudio) : i <= m
    BY <1>1, GreatestUpTo
<1> QED
    BY <1>2 DEF LastAudio, IsLastAudio

\* FirstAudio is the first audio line.
LEMMA FirstAudioIs ==
    ASSUME NEW sdp \in Description, Lines(sdp, IsAudio) # {}
    PROVE  /\ FirstAudio(sdp) \in Lines(sdp, IsAudio) /\ FirstAudio(sdp) \in 1 .. Len(sdp)
           /\ \A i \in Lines(sdp, IsAudio) : FirstAudio(sdp) <= i
<1>1. Len(sdp) \in Nat /\ Lines(sdp, IsAudio) \subseteq 1 .. Len(sdp)
    <2>1. Len(sdp) \in Nat /\ Lines(sdp, IsAudio) = {i \in 1 .. Len(sdp) : IsAudio(sdp[i])}
        BY DescriptionLines
    <2> QED
        BY <2>1
<1>2. FirstAudio(sdp) = Min(Lines(sdp, IsAudio) \cup {Len(sdp) + 1})
    BY DEF FirstAudio, First
<1>3. /\ FirstAudio(sdp) \in Lines(sdp, IsAudio)
      /\ \A i \in Lines(sdp, IsAudio) : FirstAudio(sdp) <= i
    BY <1>1, <1>2, FirstOf
<1> QED
    BY <1>1, <1>3

\* In a well-formed description one c= line governs a section, and StreamAt reads it.
LEMMA StreamAtIs ==
    ASSUME NEW sdp \in Description, WellFormed(sdp), NEW i \in Lines(sdp, IsMedia)
    PROVE  \E j \in Lines(sdp, IsConn) :
                /\ Governing(sdp, i) = {j} /\ sdp[j].addr # Empty
                /\ StreamAt(sdp, i) = [host |-> sdp[j].addr, port |-> sdp[i].port]
<1>1. PICK j \in DOMAIN sdp : Governing(sdp, i) = {j}
    BY DEF WellFormed
<1>2. j \in Lines(sdp, IsConn)
    BY <1>1 DEF Governing, OwnConns
<1>3. (CHOOSE m \in DOMAIN sdp : m \in Governing(sdp, i)) = j
    BY <1>1
<1> QED
    BY <1>1, <1>2, <1>3 DEF WellFormed, StreamAt

\* What parseMedia finds is the stream of the last audio section.
LEMMA PassReadsLast ==
    ASSUME NEW sdp \in Description, WellFormed(sdp), NEW a, IsLastAudio(sdp, a),
           ~Misattributed(sdp, a)
    PROVE  LET end == MediaPass(sdp)[Len(sdp)]
           IN  StreamAt(sdp, a) = [host |-> end.host, port |-> end.port]
<1>1. a \in Lines(sdp, IsMedia)
    BY DescriptionLines DEF IsLastAudio
<1>2. PICK j \in Lines(sdp, IsConn) :
            /\ Governing(sdp, a) = {j} /\ sdp[j].addr # Empty
            /\ StreamAt(sdp, a) = [host |-> sdp[j].addr, port |-> sdp[a].port]
    BY <1>1, StreamAtIs
<1>3. MediaPass(sdp)[Len(sdp)].port = sdp[a].port
    BY PortIs
<1>4. MediaPass(sdp)[Len(sdp)].host = sdp[j].addr
    <2>1. CASE OwnConns(sdp, a) # {}
        <3>1. OwnConns(sdp, a) = {j}
            BY <1>2, <2>1 DEF Governing
        <3> QED
            BY <1>2, <3>1, OwnHost
    <2>2. CASE OwnConns(sdp, a) = {}
        <3>1. {i \in Lines(sdp, IsConn) : i < First(sdp, IsMedia)} = {j}
            BY <1>2, <2>2 DEF Governing
        <3>2. \A v \in Lines(sdp, IsMedia) : v < a /\ ~IsAudio(sdp[v]) => OwnConns(sdp, v) = {}
            BY <2>2 DEF Misattributed
        <3> QED
            BY <1>2, <2>2, <3>1, <3>2, SessionHost
    <2> QED
        BY <2>1, <2>2
<1> QED
    BY <1>2, <1>3, <1>4

\* parseMedia's result is what the pass holds in the end.
LEMMA ParseMediaIs ==
    ASSUME NEW sdp \in Description
    PROVE  LET end == MediaPass(sdp)[Len(sdp)]
               found == [host |-> end.host, port |-> end.port]
           IN  /\ found # Nil
               /\ parseMedia(sdp) = IF end.port = 0 \/ end.host \notin IPLiterals THEN Nil ELSE found
               /\ parseMedia(sdp) # Nil => Lines(sdp, IsAudio) # {} /\ parseMedia(sdp) = found
<1>1. PICK end : end = MediaPass(sdp)[Len(sdp)]
    OBVIOUS
<1>2. end \in MediaStates
    BY <1>1, MediaPassSteps, DescriptionLines
<1>3. [host |-> end.host, port |-> end.port] # Nil
    <2>1. end.host \in Text /\ end.port \in Int
        BY <1>2 DEF MediaStates
    <2> QED
        BY <2>1, NilAssumption
<1>4. parseMedia(sdp) = IF end.port = 0 \/ end.host \notin IPLiterals THEN Nil
                        ELSE [host |-> end.host, port |-> end.port]
    BY <1>1 DEF parseMedia
<1>5. Lines(sdp, IsAudio) = {} => end.port = 0
    BY <1>1, PortIs
<1> QED
    BY <1>1, <1>3, <1>4, <1>5

\* What parseMedia returns is where the peer receives its last audio section.
LEMMA ParsedIsPeer ==
    ASSUME NEW sdp \in Description, parseMedia(sdp) # Nil
    PROVE  ReadsPeer(sdp, parseMedia(sdp))
<1> SUFFICES ASSUME WellFormed(sdp), ~Misattributed(sdp, LastAudio(sdp))
             PROVE  parseMedia(sdp) = StreamAt(sdp, LastAudio(sdp))
    BY DEF ReadsPeer
<1> QED
    BY ParseMediaIs, LastAudioIs, PassReadsLast

\* A peer that can be reached is not refused.
LEMMA ReachableIsParsed ==
    ASSUME NEW sdp \in Description, Reachable(sdp)
    PROVE  parseMedia(sdp) # Nil
<1>1. IsLastAudio(sdp, FirstAudio(sdp))
    BY FirstAudioIs DEF Reachable, OneAudio, IsLastAudio
<1>2. StreamAt(sdp, FirstAudio(sdp))
        = [host |-> MediaPass(sdp)[Len(sdp)].host, port |-> MediaPass(sdp)[Len(sdp)].port]
    BY <1>1, PassReadsLast DEF Reachable
<1>3. StreamAt(sdp, FirstAudio(sdp)).port # 0 /\ StreamAt(sdp, FirstAudio(sdp)).host \in IPLiterals
    BY DEF Reachable
<1> QED
    BY <1>2, <1>3, ParseMediaIs

-----------------------------------------------------------------------------
(* rewriteToAnchor *)

\* The first c= line and the first audio line, if any.
LEMMA FirstConnIs ==
    ASSUME NEW sdp \in Description
    PROVE  /\ First(sdp, IsConn) \in 1 .. Len(sdp) + 1
           /\ First(sdp, IsConn) <= Len(sdp) => First(sdp, IsConn) \in Lines(sdp, IsConn)
           /\ First(sdp, IsAudio) \in 1 .. Len(sdp) + 1
           /\ First(sdp, IsAudio) <= Len(sdp) => First(sdp, IsAudio) \in Lines(sdp, IsAudio)
<1>1. /\ Len(sdp) \in Nat
      /\ Lines(sdp, IsAudio) = {i \in 1 .. Len(sdp) : IsAudio(sdp[i])}
      /\ Lines(sdp, IsConn) = {i \in 1 .. Len(sdp) : IsConn(sdp[i])}
    BY DescriptionLines
<1>2. Lines(sdp, IsAudio) \subseteq 1 .. Len(sdp) /\ Lines(sdp, IsConn) \subseteq 1 .. Len(sdp)
    BY <1>1
<1> QED
    BY <1>1, <1>2, FirstOf DEF First

\* What rewriteToAnchor makes of each line.
LEMMA RewriteLine ==
    ASSUME NEW sdp \in Description, NEW host \in Text, NEW port \in Int, NEW i \in 1 .. Len(sdp)
    PROVE  LET l == sdp[i]
               r == rewriteToAnchor(sdp, host, port)[i]
           IN  /\ r \in Line /\ r.k = l.k
               /\ IsMedia(l) => r.media = l.media /\ r.fmts = l.fmts
               /\ IsRtpmap(l) => r = l
               /\ i = First(sdp, IsAudio) => r.port = port
               /\ i = First(sdp, IsConn) => r.addr = host
               /\ i # First(sdp, IsConn) /\ IsConn(l) => r = l
<1> DEFINE c == First(sdp, IsConn)
           a == First(sdp, IsAudio)
<1>1. PICK l, r : l = sdp[i] /\ r = rewriteToAnchor(sdp, host, port)[i]
    OBVIOUS
<1>2. /\ Len(sdp) \in Nat /\ DOMAIN sdp = 1 .. Len(sdp) /\ l \in Line
      /\ Lines(sdp, IsAudio) = {n \in 1 .. Len(sdp) : IsAudio(sdp[n])}
      /\ Lines(sdp, IsConn) = {n \in 1 .. Len(sdp) : IsConn(sdp[n])}
    BY <1>1, DescriptionLines
<1>3. r = IF i = c THEN ConnLine(host) ELSE IF i = a THEN [l EXCEPT !.port = port] ELSE l
    BY <1>1, <1>2 DEF rewriteToAnchor
<1>4. (i = c => IsConn(l)) /\ (i = a => IsAudio(l))
    <2>1. (c <= Len(sdp) => c \in Lines(sdp, IsConn)) /\ (a <= Len(sdp) => a \in Lines(sdp, IsAudio))
        BY FirstConnIs
    <2> HIDE DEF c, a
    <2>2. (i = c => i \in Lines(sdp, IsConn)) /\ (i = a => i \in Lines(sdp, IsAudio))
        BY <1>2, <2>1
    <2> QED
        BY <1>1, <1>2, <2>2
<1> HIDE DEF c, a
<1>5. CASE i = c
    <2>1. r = ConnLine(host) /\ l.k = "c" /\ i # a
        BY <1>3, <1>4, <1>5 DEF IsConn, IsAudio
    <2>2. r \in Line /\ r.k = "c" /\ r.addr = host
        BY <2>1 DEF ConnLine, Line
    <2> QED
        BY <1>1, <1>5, <2>1, <2>2 DEF IsMedia, IsRtpmap, c, a
<1>6. CASE i # c /\ i = a
    <2>1. r = [l EXCEPT !.port = port] /\ IsAudio(l)
        BY <1>3, <1>4, <1>6
    <2>2. l \in MediaLine
        BY <1>2, <2>1, LineFields
    <2>3. /\ r \in MediaLine /\ r.k = l.k /\ r.media = l.media /\ r.fmts = l.fmts
          /\ r.port = port /\ l.k = "m"
        BY <2>1, <2>2 DEF MediaLine
    <2>4. r \in Line
        BY <2>3 DEF Line
    <2> QED
        BY <1>1, <1>6, <2>3, <2>4 DEF IsConn, IsRtpmap, c, a
<1>7. CASE i # c /\ i # a
    BY <1>1, <1>2, <1>3, <1>7 DEF c, a
<1> QED
    BY <1>5, <1>6, <1>7

\* The rewritten description has the same lines at the same places.
LEMMA RewriteKeeps ==
    ASSUME NEW sdp \in Description, NEW host \in Text, NEW port \in Int
    PROVE  LET out == rewriteToAnchor(sdp, host, port)
           IN  /\ out \in Description /\ Len(out) = Len(sdp)
               /\ Lines(out, IsMedia) = Lines(sdp, IsMedia)
               /\ Lines(out, IsAudio) = Lines(sdp, IsAudio)
               /\ Lines(out, IsConn) = Lines(sdp, IsConn)
               /\ Lines(out, IsRtpmap) = Lines(sdp, IsRtpmap)
               /\ FirstAudio(out) = FirstAudio(sdp)
               /\ First(out, IsMedia) = First(sdp, IsMedia)
               /\ \A i : SectionEnd(out, i) = SectionEnd(sdp, i)
               /\ \A i : Governing(out, i) = Governing(sdp, i)
<1> DEFINE out == rewriteToAnchor(sdp, host, port)
<1>1. Len(sdp) \in Nat /\ DOMAIN sdp = 1 .. Len(sdp)
    BY DescriptionLines
<1>2. DOMAIN out = 1 .. Len(sdp)
    BY <1>1 DEF rewriteToAnchor
<1>3. \A i \in 1 .. Len(sdp) : out[i] \in Line /\ out[i].k = sdp[i].k
                               /\ (IsMedia(sdp[i]) => out[i].media = sdp[i].media)
    BY RewriteLine, ZenonT(30)
<1>4. out = [i \in 1 .. Len(sdp) |-> out[i]]
    BY <1>1, <1>2 DEF rewriteToAnchor
<1> HIDE DEF out
<1>5. out \in Description /\ Len(out) = Len(sdp)
    BY <1>1, <1>3, <1>4 DEF Description
<1>6. /\ Lines(out, IsMedia) = Lines(sdp, IsMedia) /\ Lines(out, IsAudio) = Lines(sdp, IsAudio)
      /\ Lines(out, IsConn) = Lines(sdp, IsConn) /\ Lines(out, IsRtpmap) = Lines(sdp, IsRtpmap)
    BY <1>1, <1>2, <1>3 DEF Lines, IsMedia, IsAudio, IsConn, IsRtpmap
<1>7. /\ FirstAudio(out) = FirstAudio(sdp) /\ First(out, IsMedia) = First(sdp, IsMedia)
      /\ \A i : SectionEnd(out, i) = SectionEnd(sdp, i)
    BY <1>5, <1>6 DEF FirstAudio, First, SectionEnd
<1>8. \A i : OwnConns(out, i) = OwnConns(sdp, i)
    BY <1>6, <1>7 DEF OwnConns
<1>9. \A i : Governing(out, i) = Governing(sdp, i)
    BY <1>6, <1>7, <1>8 DEF Governing
<1> QED
    BY <1>5, <1>6, <1>7, <1>9 DEF out

\* The peer that gets the rewritten description sends to the anchor exactly when the line
\* rewriteToAnchor replaces governs the first audio section, or named the anchor before.
LEMMA RewriteReads ==
    ASSUME NEW sdp \in Description, NEW port \in Int, WellFormed(sdp), Lines(sdp, IsAudio) # {}
    PROVE  ReadsAnchor(rewriteToAnchor(sdp, Host, port), port) <=> RewriteReaches(sdp)
<1> DEFINE out == rewriteToAnchor(sdp, Host, port)
           a == FirstAudio(sdp)
           c == First(sdp, IsConn)
<1>1. Host \in Text
    BY AnchorAssumption
<1>2. a \in Lines(sdp, IsMedia) /\ a \in 1 .. Len(sdp) /\ a = First(sdp, IsAudio)
    BY FirstAudioIs, DescriptionLines DEF FirstAudio
<1>3. PICK j \in Lines(sdp, IsConn) :
            /\ Governing(sdp, a) = {j}
            /\ StreamAt(sdp, a) = [host |-> sdp[j].addr, port |-> sdp[a].port]
    BY <1>2, StreamAtIs
<1>4. j \in 1 .. Len(sdp) /\ IsConn(sdp[j]) /\ DOMAIN sdp = 1 .. Len(sdp) /\ Len(sdp) \in Nat
    <2>1. /\ Lines(sdp, IsConn) = {i \in 1 .. Len(sdp) : IsConn(sdp[i])}
          /\ DOMAIN sdp = 1 .. Len(sdp) /\ Len(sdp) \in Nat
        BY DescriptionLines
    <2> QED
        BY <2>1
<1>5. FirstAudio(out) = a /\ Governing(out, a) = {j} /\ DOMAIN out = 1 .. Len(sdp)
    <2>1. Len(out) = Len(sdp) /\ out \in Description
        BY <1>1, RewriteKeeps
    <2>2. DOMAIN out = 1 .. Len(sdp)
        BY <2>1, DescriptionLines
    <2> QED
        BY <1>1, <1>3, <2>2, RewriteKeeps
<1>6. /\ out[a].port = port
      /\ j = c => out[j].addr = Host
      /\ j # c => out[j] = sdp[j]
    <2>1. out[a].port = port
        BY <1>1, <1>2, RewriteLine, ZenonT(30)
    <2>2. j = c => out[j].addr = Host
        BY <1>1, <1>4, RewriteLine, ZenonT(30)
    <2>3. j # c => out[j] = sdp[j]
        BY <1>1, <1>4, RewriteLine
    <2> QED
        BY <2>1, <2>2, <2>3
<1> HIDE DEF out, a, c
<1>7. (CHOOSE m \in DOMAIN out : m \in Governing(out, a)) = j
    BY <1>4, <1>5
<1>8. StreamAt(out, a) = [host |-> out[j].addr, port |-> port]
    BY <1>6, <1>7 DEF StreamAt
<1>9. ReadsAnchor(out, port) <=> out[j].addr = Host
    BY <1>5, <1>8 DEF ReadsAnchor
<1>10. RewriteReaches(sdp) <=> j = c \/ sdp[j].addr = Host
    <2>1. StreamAt(sdp, a).host = sdp[j].addr
        BY <1>3
    <2> QED
        BY <1>3, <2>1 DEF RewriteReaches, a, c
<1>11. ReadsAnchor(out, port) <=> RewriteReaches(sdp)
    BY <1>6, <1>9, <1>10
<1> QED
    BY <1>11 DEF out

-----------------------------------------------------------------------------
(* Keep *)

\* The states of Keep's pass.
LEMMA KeepSteps ==
    ASSUME NEW T, NEW s \in Seq(T), NEW at
    PROVE  /\ KeepPass(s, at)[0] = <<>>
           /\ \A i \in 1 .. Len(s) :
                KeepPass(s, at)[i] = IF i \in at THEN Append(KeepPass(s, at)[i - 1], s[i])
                                     ELSE KeepPass(s, at)[i - 1]
           /\ \A i \in 0 .. Len(s) : KeepPass(s, at)[i] \in Seq(T)
<1> DEFINE n == Len(s)
           Read(acc, i) == IF i \in at THEN Append(acc, s[i]) ELSE acc
           G == [i \in 1 .. n |-> [acc \in Seq(T) |-> Read(acc, i)]]
           Eq(p) == p = [i \in 0 .. n |-> IF i = 0 THEN <<>> ELSE Read(p[i - 1], i)]
           p == KeepPass(s, at)
           none == <<>>
<1>1. n \in Nat /\ DOMAIN s = 1 .. n /\ \A i \in 1 .. n : s[i] \in T
    OBVIOUS
<1>2. ASSUME NEW acc \in Seq(T), NEW i \in 1 .. n PROVE Read(acc, i) \in Seq(T)
    BY <1>1
<1>3. G \in [1 .. n -> [Seq(T) -> Seq(T)]] /\ none \in Seq(T)
    BY <1>2
<1>4. PICK f : IsRun(f, n, Seq(T), none, G)
    <2> HIDE DEF G, none
    <2> QED
        BY <1>1, <1>3, PassExists
<1>5. ASSUME NEW i \in 1 .. n PROVE f[i] = Read(f[i - 1], i)
    <2>1. f[i - 1] \in Seq(T)
        <3>1. f \in [0 .. n -> Seq(T)]
            BY <1>4 DEF IsRun
        <3>2. i - 1 \in 0 .. n
            BY <1>1
        <3> QED
            BY <3>1, <3>2
    <2>2. f[i] = G[i][f[i - 1]]
        BY <1>4 DEF IsRun
    <2> QED
        BY <2>1, <2>2
<1>6. Eq(f)
    <2> HIDE DEF Read, G
    <2> QED
        BY <1>1, <1>4, <1>5 DEF IsRun
<1>7. p = CHOOSE q : q = [i \in 0 .. Len([k \in DOMAIN s |-> k]) |->
                            IF i = 0 THEN <<>> ELSE Read(q[i - 1], [k \in DOMAIN s |-> k][i])]
    BY DEF KeepPass, Pass
<1>8. \A q : Eq(q) <=> q = [i \in 0 .. Len([k \in DOMAIN s |-> k]) |->
                            IF i = 0 THEN <<>> ELSE Read(q[i - 1], [k \in DOMAIN s |-> k][i])]
    <2>1. Len([k \in DOMAIN s |-> k]) = n
        BY <1>1
    <2>2. \A i \in 1 .. n : [k \in DOMAIN s |-> k][i] = i
        BY <1>1
    <2> HIDE DEF Read, n
    <2> QED
        BY <1>1, <2>1, <2>2
<1>9. Eq(p)
    <2> HIDE DEF Eq, p, Read
    <2> QED
        BY <1>6, <1>7, <1>8
<1>10. p[0] = <<>> /\ \A i \in 1 .. n : p[i] = Read(p[i - 1], i)
    <2> HIDE DEF p, Read
    <2> QED
        BY <1>1, <1>9
<1>11. \A i \in 0 .. n : p[i] \in Seq(T)
    <2> DEFINE S == {i \in 0 .. n : p[i] \in Seq(T)}
    <2> HIDE DEF p, n, Read
    <2>1. 0 \in S
        <3>1. p[0] \in Seq(T)
            BY <1>3, <1>10
        <3> QED
            BY <1>1, <3>1
    <2>2. ASSUME NEW i \in 0 .. n - 1, i \in S PROVE i + 1 \in S
        <3>1. i + 1 \in 1 .. n /\ (i + 1) - 1 = i
            BY <1>1
        <3>2. p[i + 1] = Read(p[i], i + 1)
            BY <1>10, <3>1
        <3> QED
            BY <1>1, <1>2, <2>2, <3>1, <3>2
    <2> HIDE DEF S
    <2>3. \A i \in 0 .. n : i \in S
        BY <1>1, <2>1, <2>2, UpTo
    <2> QED
        BY <2>3 DEF S
<1> QED
    BY <1>10, <1>11

\* What is kept comes from the positions that are.
LEMMA KeepFrom ==
    ASSUME NEW T, NEW s \in Seq(T), NEW at
    PROVE  /\ Keep(s, at) \in Seq(T)
           /\ \A m \in 1 .. Len(Keep(s, at)) :
                \E i \in 1 .. Len(s) : i \in at /\ Keep(s, at)[m] = s[i]
<1> DEFINE n == Len(s)
           p == KeepPass(s, at)
           From(q) == \A m \in 1 .. Len(q) : \E i \in 1 .. n : i \in at /\ q[m] = s[i]
           S == {k \in 0 .. n : From(p[k])}
<1>1. n \in Nat /\ \A i \in 1 .. n : s[i] \in T
    OBVIOUS
<1>2. /\ p[0] = <<>>
      /\ \A i \in 1 .. n : p[i] = IF i \in at THEN Append(p[i - 1], s[i]) ELSE p[i - 1]
      /\ \A i \in 0 .. n : p[i] \in Seq(T)
    BY KeepSteps
<1> HIDE DEF p, n
<1>3. 0 \in S
    BY <1>1, <1>2
<1>4. ASSUME NEW k \in 0 .. n - 1, k \in S PROVE k + 1 \in S
    <2>1. k + 1 \in 1 .. n /\ (k + 1) - 1 = k /\ k \in 0 .. n
        BY <1>1
    <2>2. p[k + 1] = IF k + 1 \in at THEN Append(p[k], s[k + 1]) ELSE p[k]
        BY <1>2, <2>1
    <2>3. From(p[k]) /\ p[k] \in Seq(T)
        BY <1>2, <1>4, <2>1
    <2>4. CASE k + 1 \in at
        <3>1. From(Append(p[k], s[k + 1]))
            BY <1>1, <2>1, <2>3, <2>4
        <3>2. From(p[k + 1])
            <4>1. p[k + 1] = Append(p[k], s[k + 1])
                BY <2>2, <2>4
            <4> HIDE DEF From
            <4> QED
                BY <3>1, <4>1
        <3> QED
            BY <1>1, <2>1, <3>2
    <2>5. CASE k + 1 \notin at
        BY <2>1, <2>2, <2>3, <2>5
    <2> QED
        BY <2>4, <2>5
<1>5. n \in S
    <2> HIDE DEF S
    <2> QED
        BY <1>1, <1>3, <1>4, UpTo, n \in 0 .. n
<1> QED
    BY <1>1, <1>2, <1>5 DEF Keep, n, p

-----------------------------------------------------------------------------
(* Codecs and the offers the engine writes *)

Codecs == [fmts : Seq(Nat), attrs : Description]

\* Every attribute that is copied is an rtpmap or an fmtp line.
OnlyMaps(attrs) == \A i \in 1 .. Len(attrs) : attrs[i].k \in {"rtpmap", "fmtp"}

\* The first r of the attributes are rtpmap lines, the others fmtp lines.
MapsFirst(attrs, r) ==
    /\ r \in 0 .. Len(attrs)
    /\ \A i \in 1 .. r : attrs[i].k = "rtpmap"
    /\ \A i \in r + 1 .. Len(attrs) : attrs[i].k = "fmtp"

\* The lines of a section, by their positions.
LEMMA SectionIs ==
    ASSUME NEW sdp \in Description, NEW i \in 1 .. Len(sdp)
    PROVE  /\ Section(sdp, i) \in Description
           /\ Len(Section(sdp, i)) = SectionEnd(sdp, i) - i
           /\ \A n \in 1 .. SectionEnd(sdp, i) - i : Section(sdp, i)[n] = sdp[i + n]
<1> DEFINE e == SectionEnd(sdp, i)
<1>1. e \in i .. Len(sdp) /\ Len(sdp) \in Nat /\ \A k \in 1 .. Len(sdp) : sdp[k] \in Line
    BY SectionEndIs, DescriptionLines
<1>2. Section(sdp, i) = SubSeq(sdp, i + 1, e)
    BY DEF Section
<1> HIDE DEF e
<1>3. i + 1 \in Int /\ e \in Int /\ \A k \in i + 1 .. e : sdp[k] \in Line
    BY <1>1
<1>4. /\ SubSeq(sdp, i + 1, e) \in Seq(Line)
      /\ Len(SubSeq(sdp, i + 1, e)) = IF i + 1 <= e THEN e - (i + 1) + 1 ELSE 0
      /\ \A n \in 1 .. e - (i + 1) + 1 : SubSeq(sdp, i + 1, e)[n] = sdp[(i + 1) + n - 1]
    BY <1>3, SubSeqProperties
<1>5. Len(SubSeq(sdp, i + 1, e)) = e - i
    BY <1>1, <1>4
<1>6. ASSUME NEW n \in 1 .. e - i PROVE SubSeq(sdp, i + 1, e)[n] = sdp[i + n]
    <2>1. e - (i + 1) + 1 = e - i /\ (i + 1) + n - 1 = i + n
        BY <1>1
    <2> QED
        BY <1>4, <2>1
<1> QED
    BY <1>2, <1>4, <1>5, <1>6 DEF e, Description

\* CodecsOf copies the payload types, then the rtpmap and the fmtp lines.
LEMMA CodecsOfIs ==
    ASSUME NEW section \in Description, NEW fmts \in Seq(Nat)
    PROVE  /\ CodecsOf(fmts, section) \in Codecs
           /\ CodecsOf(fmts, section).fmts = fmts
           /\ OnlyMaps(CodecsOf(fmts, section).attrs)
           /\ \E r : MapsFirst(CodecsOf(fmts, section).attrs, r)
<1> DEFINE r == Keep(section, Lines(section, IsRtpmap))
           f == Keep(section, Lines(section, IsFmtp))
<1>1. /\ r \in Seq(Line)
      /\ \A m \in 1 .. Len(r) :
            \E i \in 1 .. Len(section) : i \in Lines(section, IsRtpmap) /\ r[m] = section[i]
    BY KeepFrom DEF Description
<1>2. /\ f \in Seq(Line)
      /\ \A m \in 1 .. Len(f) :
            \E i \in 1 .. Len(section) : i \in Lines(section, IsFmtp) /\ f[m] = section[i]
    BY KeepFrom DEF Description
<1>3. CodecsOf(fmts, section) = [fmts |-> fmts, attrs |-> r \o f]
    BY DEF CodecsOf
<1> HIDE DEF r, f
<1>4. \A m \in 1 .. Len(r) : r[m].k = "rtpmap"
    BY <1>1 DEF Lines, IsRtpmap
<1>5. \A m \in 1 .. Len(f) : f[m].k = "fmtp"
    BY <1>2 DEF Lines, IsFmtp
<1>6. /\ r \o f \in Seq(Line) /\ Len(r \o f) = Len(r) + Len(f)
      /\ \A i \in 1 .. Len(r) + Len(f) :
            (r \o f)[i] = IF i <= Len(r) THEN r[i] ELSE f[i - Len(r)]
    BY <1>1, <1>2, ConcatProperties
<1>7. Len(r) \in Nat /\ Len(f) \in Nat
    BY <1>1, <1>2
<1>8. ASSUME NEW i \in 1 .. Len(r \o f) PROVE (r \o f)[i].k \in {"rtpmap", "fmtp"}
    <2>1. CASE i <= Len(r)
        BY <1>4, <1>6, <1>7, <2>1
    <2>2. CASE ~(i <= Len(r))
        <3>1. i - Len(r) \in 1 .. Len(f) /\ (r \o f)[i] = f[i - Len(r)]
            BY <1>6, <1>7, <2>2
        <3> QED
            BY <1>5, <3>1
    <2> QED
        BY <2>1, <2>2
<1>9. MapsFirst(r \o f, Len(r))
    <2>1. \A i \in 1 .. Len(r) : (r \o f)[i].k = "rtpmap"
        BY <1>4, <1>6, <1>7
    <2>2. ASSUME NEW i \in Len(r) + 1 .. Len(r) + Len(f) PROVE (r \o f)[i].k = "fmtp"
        <3>1. i - Len(r) \in 1 .. Len(f) /\ (r \o f)[i] = f[i - Len(r)]
            BY <1>6, <1>7
        <3> QED
            BY <1>5, <3>1
    <2> QED
        BY <1>6, <1>7, <2>1, <2>2 DEF MapsFirst
<1> QED
    BY <1>3, <1>6, <1>8, <1>9 DEF Codecs, OnlyMaps, Description

\* What extractAudioCodecs returns when it does not fail.
LEMMA ExtractIs ==
    ASSUME NEW sdp \in Description, extractAudioCodecs(sdp) # Nil
    PROVE  /\ extractAudioCodecs(sdp) \in Codecs
           /\ extractAudioCodecs(sdp).fmts # <<>>
           /\ OnlyMaps(extractAudioCodecs(sdp).attrs)
           /\ \E r : MapsFirst(extractAudioCodecs(sdp).attrs, r)
<1> DEFINE i == First(sdp, IsAudio)
<1>1. i \in 1 .. Len(sdp) + 1 /\ (i <= Len(sdp) => i \in Lines(sdp, IsAudio)) /\ Len(sdp) \in Nat
    BY FirstConnIs, DescriptionLines
<1>2. /\ ~(i > Len(sdp)) /\ sdp[i].fmts # <<>>
      /\ extractAudioCodecs(sdp) = CodecsOf(sdp[i].fmts, Section(sdp, i))
    BY DEF extractAudioCodecs
<1> HIDE DEF i
<1>3. i \in 1 .. Len(sdp) /\ i \in Lines(sdp, IsAudio)
    BY <1>1, <1>2
<1>4. sdp[i].fmts \in Seq(Nat)
    <2>1. sdp[i] \in Line /\ IsAudio(sdp[i])
        BY <1>3, DescriptionLines
    <2> QED
        BY <2>1, LineFields
<1>5. Section(sdp, i) \in Description
    BY <1>3, SectionIs
<1> QED
    BY <1>2, <1>4, <1>5, CodecsOfIs

\* The lines of a block.
LEMMA BlockIs ==
    ASSUME NEW host \in Text, NEW port \in Int, NEW codecs \in Codecs, NEW dir \in Text
    PROVE  LET b == Block(host, port, codecs, dir)
               n == Len(codecs.attrs)
           IN  /\ n \in Nat /\ b \in Description /\ Len(b) = n + 3
               /\ b[1] = AudioLine(port, codecs.fmts) /\ b[2] = ConnLine(host)
               /\ \A i \in 3 .. n + 2 : b[i] = codecs.attrs[i - 2]
               /\ b[n + 3] = DirLine(dir)
<1> DEFINE top == <<AudioLine(port, codecs.fmts), ConnLine(host)>>
           attrs == codecs.attrs
           end == <<DirLine(dir)>>
           n == Len(attrs)
<1>1. attrs \in Seq(Line) /\ n \in Nat /\ codecs.fmts \in Seq(Nat)
    BY DEF Codecs, Description
<1>2. AudioLine(port, codecs.fmts) \in Line /\ ConnLine(host) \in Line /\ DirLine(dir) \in Line
    <2>1. AudioLine(port, codecs.fmts) \in MediaLine
        <3>1. "audio" \in Text /\ FALSE \in BOOLEAN
            BY TextAssumption
        <3> QED
            BY <1>1, <3>1 DEF AudioLine, MediaLine
    <2>2. ConnLine(host) \in [k : {"c"}, addr : Text] /\ DirLine(dir) \in [k : {"dir"}, dir : Text]
        BY DEF ConnLine, DirLine
    <2> QED
        BY <2>1, <2>2 DEF Line
<1>3. top \in Seq(Line) /\ Len(top) = 2 /\ top[1] = AudioLine(port, codecs.fmts) /\ top[2] = ConnLine(host)
    BY <1>2
<1>4. end \in Seq(Line) /\ Len(end) = 1 /\ end[1] = DirLine(dir)
    BY <1>2
<1>5. Block(host, port, codecs, dir) = (top \o attrs) \o end
    BY DEF Block
<1> HIDE DEF top, attrs, end, n
<1>6. /\ top \o attrs \in Seq(Line) /\ Len(top \o attrs) = n + 2
      /\ \A i \in 1 .. n + 2 : (top \o attrs)[i] = IF i <= 2 THEN top[i] ELSE attrs[i - 2]
    <2>1. /\ top \o attrs \in Seq(Line) /\ Len(top \o attrs) = Len(top) + Len(attrs)
          /\ \A i \in 1 .. Len(top) + Len(attrs) :
                (top \o attrs)[i] = IF i <= Len(top) THEN top[i] ELSE attrs[i - Len(top)]
        BY <1>1, <1>3, ConcatProperties
    <2>2. Len(top) + Len(attrs) = n + 2 /\ Len(top) = 2
        BY <1>1, <1>3 DEF n
    <2> QED
        BY <2>1, <2>2
<1>7. /\ (top \o attrs) \o end \in Seq(Line) /\ Len((top \o attrs) \o end) = n + 3
      /\ \A i \in 1 .. n + 3 : ((top \o attrs) \o end)[i]
                = IF i <= n + 2 THEN (top \o attrs)[i] ELSE end[i - (n + 2)]
    <2>0. PICK t : t = top \o attrs
        OBVIOUS
    <2>1. /\ t \o end \in Seq(Line) /\ Len(t \o end) = Len(t) + Len(end)
          /\ \A i \in 1 .. Len(t) + Len(end) :
                (t \o end)[i] = IF i <= Len(t) THEN t[i] ELSE end[i - Len(t)]
        <3>1. t \in Seq(Line)
            BY <1>6, <2>0
        <3> QED
            BY <1>4, <3>1, ConcatProperties
    <2>2. Len(t) + Len(end) = n + 3 /\ Len(t) = n + 2
        BY <1>1, <1>4, <1>6, <2>0
    <2> QED
        BY <2>0, <2>1, <2>2
<1>8. PICK b : b = (top \o attrs) \o end
    OBVIOUS
<1>9. /\ b \in Seq(Line) /\ Len(b) = n + 3
      /\ b[1] = AudioLine(port, codecs.fmts) /\ b[2] = ConnLine(host) /\ b[n + 3] = DirLine(dir)
    BY <1>1, <1>3, <1>4, <1>6, <1>7, <1>8
<1>10. \A i \in 3 .. n + 2 : b[i] = attrs[i - 2]
    <2> TAKE i \in 3 .. n + 2
    <2>1. i \in 1 .. n + 2 /\ i \in 1 .. n + 3 /\ i <= n + 2 /\ ~(i <= 2)
        BY <1>1
    <2>2. b[i] = (top \o attrs)[i]
        BY <1>7, <1>8, <2>1
    <2> QED
        BY <1>6, <2>1, <2>2
<1> QED
    BY <1>1, <1>5, <1>8, <1>9, <1>10 DEF n, attrs, Description

\* A block has one m= line, its first, and one c= line, its second.
LEMMA BlockLines ==
    ASSUME NEW host \in Text, NEW port \in Int, NEW codecs \in Codecs, NEW dir \in Text,
           OnlyMaps(codecs.attrs)
    PROVE  LET b == Block(host, port, codecs, dir)
           IN  /\ Lines(b, IsMedia) = {1} /\ Lines(b, IsAudio) = {1} /\ Lines(b, IsConn) = {2}
<1> DEFINE n == Len(codecs.attrs)
<1>1. PICK b : b = Block(host, port, codecs, dir)
    OBVIOUS
<1>2. /\ n \in Nat /\ b \in Description /\ Len(b) = n + 3
      /\ b[1] = AudioLine(port, codecs.fmts) /\ b[2] = ConnLine(host)
      /\ \A i \in 3 .. n + 2 : b[i] = codecs.attrs[i - 2]
      /\ b[n + 3] = DirLine(dir)
    BY <1>1, BlockIs
<1>3. /\ DOMAIN b = 1 .. n + 3
      /\ b[1].k = "m" /\ b[1].media = "audio" /\ b[2].k = "c" /\ b[n + 3].k = "dir"
    <2>1. DOMAIN b = 1 .. n + 3
        BY <1>2, DescriptionLines
    <2> QED
        BY <1>2, <2>1 DEF AudioLine, ConnLine, DirLine
<1>4. \A i \in 3 .. n + 2 : b[i].k \in {"rtpmap", "fmtp"}
    <2> TAKE i \in 3 .. n + 2
    <2>1. i - 2 \in 1 .. n
        BY <1>2
    <2> QED
        BY <1>2, <2>1 DEF OnlyMaps
<1> HIDE DEF n
<1>5. \A i \in 1 .. n + 3 : i = 1 \/ i = 2 \/ i \in 3 .. n + 2 \/ i = n + 3
    BY <1>2
<1>6. 1 \in 1 .. n + 3 /\ 2 \in 1 .. n + 3 /\ 1 # n + 3 /\ 2 # n + 3
    BY <1>2
<1>7. Lines(b, IsMedia) = {1}
    BY <1>3, <1>4, <1>5, <1>6 DEF Lines, IsMedia
<1>8. Lines(b, IsAudio) = {1}
    BY <1>3, <1>4, <1>5, <1>6 DEF Lines, IsAudio
<1>9. Lines(b, IsConn) = {2}
    BY <1>3, <1>4, <1>5, <1>6 DEF Lines, IsConn
<1> QED
    BY <1>1, <1>7, <1>8, <1>9

\* A peer that gets one of the engine's own blocks sends to the port in it.
LEMMA BlockReads ==
    ASSUME NEW port \in Int, NEW codecs \in Codecs, NEW dir \in Text, OnlyMaps(codecs.attrs)
    PROVE  ReadsAnchor(Block(Host, port, codecs, dir), port)
<1>1. PICK b : b = Block(Host, port, codecs, dir)
    OBVIOUS
<1>2. Host \in Text
    BY AnchorAssumption
<1>3. /\ b \in Description /\ Len(b) \in Nat /\ Len(b) >= 3
      /\ b[1] = AudioLine(port, codecs.fmts) /\ b[2] = ConnLine(Host)
    <2>1. /\ Len(codecs.attrs) \in Nat /\ b \in Description /\ Len(b) = Len(codecs.attrs) + 3
          /\ b[1] = AudioLine(port, codecs.fmts) /\ b[2] = ConnLine(Host)
        BY <1>1, <1>2, BlockIs
    <2> QED
        BY <2>1
<1>4. Lines(b, IsMedia) = {1} /\ Lines(b, IsAudio) = {1} /\ Lines(b, IsConn) = {2}
    BY <1>1, <1>2, BlockLines
<1>5. FirstAudio(b) = 1
    BY <1>3, <1>4, FirstAudioIs
<1>6. 2 <= SectionEnd(b, 1)
    <2>1. 1 \in 1 .. Len(b) /\ 2 \in 1 + 1 .. Len(b)
        BY <1>3
    <2>2. \A v \in Lines(b, IsMedia) : v <= 1 \/ 2 < v
        BY <1>4
    <2> QED
        BY <1>3, <2>1, <2>2, SectionEndIs
<1>7. OwnConns(b, 1) = {2}
    BY <1>4, <1>6 DEF OwnConns
<1>8. Governing(b, 1) = {2}
    BY <1>7 DEF Governing
<1>9. 2 \in DOMAIN b
    BY <1>3, DescriptionLines
<1>10. (CHOOSE j \in DOMAIN b : j \in Governing(b, 1)) = 2
    BY <1>8, <1>9
<1>11. b[2].addr = Host /\ b[1].port = port
    BY <1>3 DEF AudioLine, ConnLine
<1> QED
    BY <1>1, <1>5, <1>10, <1>11 DEF ReadsAnchor, StreamAt

-----------------------------------------------------------------------------
(* The agreed codec *)

\* The static table holds strings.
LEMMA StaticNames ==
    ASSUME NEW pt \in Nat
    PROVE  staticAudioRTPMap(pt) \in Text
<1>1. {Empty, "PCMU", "GSM", "PCMA", "G722", "G729"} \subseteq Text
    BY TextAssumption
<1> QED
    BY <1>1 DEF staticAudioRTPMap

\* Positions are naturals.
LEMMA RtpmapLinesNat ==
    ASSUME NEW sdp \in Description
    PROVE  Lines(sdp, IsRtpmap) \subseteq Nat
<1>1. Len(sdp) \in Nat
    BY DescriptionLines
<1>2. DOMAIN sdp = 1 .. Len(sdp)
    BY DescriptionLines
<1>3. Lines(sdp, IsRtpmap) \subseteq 1 .. Len(sdp)
    BY <1>2 DEF Lines
<1>4. 1 .. Len(sdp) \subseteq Nat
    BY <1>1
<1> QED
    BY <1>3, <1>4

\* selectedAudioCodec's result: the first payload type of the first audio line, under the name
\* that one of its rtpmap lines, or else the static table, gives it.
IsSelected(sdp, s) ==
    LET m == sdp[FirstAudio(sdp)]
    IN  /\ s \in [pt : Nat, name : Text] /\ s # Nil
        /\ m.fmts \in Seq(Nat) /\ s.pt = Head(m.fmts)
        /\ s.pt \in {m.fmts[n] : n \in DOMAIN m.fmts}
        /\ \/ \E l \in Maps(sdp) : l.pt = s.pt /\ l.name = s.name
           \/ (\A l \in Maps(sdp) : l.pt # s.pt) /\ s.name = staticAudioRTPMap(s.pt)

\* selectedAudioCodec succeeds when the first audio line has a payload type.
LEMMA SelectedIs ==
    ASSUME NEW sdp \in Description, Lines(sdp, IsAudio) # {}, sdp[FirstAudio(sdp)].fmts # <<>>
    PROVE  IsSelected(sdp, selectedAudioCodec(sdp))
<1> DEFINE i == First(sdp, IsAudio)
           fmts == sdp[i].fmts
           pt == Head(fmts)
           maps == {n \in Lines(sdp, IsRtpmap) :
                        i < n /\ n <= SectionEnd(sdp, i) /\ sdp[n].pt = pt}
           name == IF maps # {} THEN sdp[Min(maps)].name ELSE staticAudioRTPMap(pt)
           s == [pt |-> pt, name |-> name]
<1>1. i \in 1 .. Len(sdp) /\ i \in Lines(sdp, IsAudio) /\ Len(sdp) \in Nat
    BY FirstAudioIs, DescriptionLines DEF FirstAudio
<1>2. fmts \in Seq(Nat) /\ fmts # <<>>
    <2>1. sdp[i] \in Line /\ IsAudio(sdp[i])
        BY <1>1, DescriptionLines
    <2> QED
        BY <2>1, LineFields DEF FirstAudio
<1>3. selectedAudioCodec(sdp) = s
    BY <1>1, <1>2 DEF selectedAudioCodec
<1>4. pt \in Nat /\ 1 \in DOMAIN fmts /\ pt = fmts[1]
    <2> HIDE DEF fmts
    <2> QED
        BY <1>2
<1>5. \A n \in Lines(sdp, IsRtpmap) : n \in 1 .. Len(sdp) /\ sdp[n].pt \in Nat /\ sdp[n].name \in Text
    <2> TAKE n \in Lines(sdp, IsRtpmap)
    <2>1. n \in 1 .. Len(sdp) /\ sdp[n] \in Line /\ IsRtpmap(sdp[n])
        BY DescriptionLines
    <2> QED
        BY <2>1, LineFields
<1>6. Maps(sdp) = {sdp[j] : j \in {n \in Lines(sdp, IsRtpmap) : i < n /\ n <= SectionEnd(sdp, i)}}
    BY DEF Maps, FirstAudio
<1> HIDE DEF i, fmts, pt
<1>7. /\ name \in Text
      /\ \/ \E l \in Maps(sdp) : l.pt = pt /\ l.name = name
         \/ (\A l \in Maps(sdp) : l.pt # pt) /\ name = staticAudioRTPMap(pt)
    <2>1. CASE maps # {}
        <3>1. maps \subseteq Nat
            <4>1. maps \subseteq Lines(sdp, IsRtpmap)
                OBVIOUS
            <4>2. Lines(sdp, IsRtpmap) \subseteq Nat
                BY RtpmapLinesNat
            <4> HIDE DEF maps
            <4> QED
                BY <4>1, <4>2
        <3>2. Min(maps) \in maps
            <4> HIDE DEF maps
            <4> QED
                BY <2>1, <3>1, LeastNat
        <3>3. PICK n \in maps : n = Min(maps)
            BY <3>2
        <3>4. name = sdp[n].name
            BY <2>1, <3>3
        <3>5. sdp[n] \in Maps(sdp) /\ sdp[n].pt = pt /\ sdp[n].name \in Text
            <4> HIDE DEF name
            <4> QED
                BY <1>5, <1>6, <3>3
        <3> HIDE DEF name, maps
        <3> QED
            BY <3>4, <3>5
    <2>2. CASE maps = {}
        <3>1. name = staticAudioRTPMap(pt)
            BY <2>2
        <3>2. \A l \in Maps(sdp) : l.pt # pt
            <4> HIDE DEF name
            <4> QED
                BY <1>6, <2>2
        <3> HIDE DEF name, maps
        <3> QED
            BY <1>4, <3>1, <3>2, StaticNames
    <2> QED
        BY <2>1, <2>2
<1>8. s \in [pt : Nat, name : Text] /\ s.pt = pt /\ s.name = name
    <2> HIDE DEF name, maps
    <2> QED
        BY <1>4, <1>7
<1>9. s # Nil
    <2> HIDE DEF s
    <2> QED
        BY <1>8, NilAssumption
<1> HIDE DEF s, name, maps
<1>10. pt \in {fmts[n] : n \in DOMAIN fmts}
    BY <1>4
<1>11. fmts = sdp[FirstAudio(sdp)].fmts /\ pt = Head(fmts)
    BY DEF fmts, i, pt, FirstAudio
<1> QED
    BY <1>2, <1>3, <1>7, <1>8, <1>9, <1>10, <1>11 DEF IsSelected

\* selectedAudioCodec's error is for a description without audio or with too short a line.
LEMMA SelectedHas ==
    ASSUME NEW sdp \in Description, selectedAudioCodec(sdp) # Nil
    PROVE  IsSelected(sdp, selectedAudioCodec(sdp))
<1>1. First(sdp, IsAudio) \in 1 .. Len(sdp) + 1 /\ Len(sdp) \in Nat
    BY FirstConnIs, DescriptionLines
<1>2. ~(First(sdp, IsAudio) > Len(sdp)) /\ sdp[First(sdp, IsAudio)].fmts # <<>>
    BY DEF selectedAudioCodec
<1>3. First(sdp, IsAudio) \in Lines(sdp, IsAudio)
    BY <1>1, <1>2, FirstConnIs
<1> QED
    BY <1>2, <1>3, SelectedIs DEF FirstAudio

\* A plain caller is answered the codec that the PBX answered.
LEMMA RewriteSelects ==
    ASSUME NEW sdp \in Description, NEW host \in Text, NEW port \in Int
    PROVE  selectedAudioCodec(rewriteToAnchor(sdp, host, port)) = selectedAudioCodec(sdp)
<1>1. PICK out : out = rewriteToAnchor(sdp, host, port)
    OBVIOUS
<1>2. PICK i : i = First(sdp, IsAudio)
    OBVIOUS
<1>3. /\ Len(out) = Len(sdp) /\ Lines(out, IsRtpmap) = Lines(sdp, IsRtpmap)
      /\ First(out, IsAudio) = i /\ SectionEnd(out, i) = SectionEnd(sdp, i)
    BY <1>1, <1>2, RewriteKeeps DEF FirstAudio
<1>4. /\ i \in 1 .. Len(sdp) + 1 /\ Len(sdp) \in Nat
      /\ i <= Len(sdp) => i \in Lines(sdp, IsAudio)
    BY <1>2, FirstConnIs, DescriptionLines
<1>5. CASE i > Len(sdp)
    BY <1>1, <1>2, <1>3, <1>5 DEF selectedAudioCodec
<1>6. CASE ~(i > Len(sdp))
    <2>1. i \in 1 .. Len(sdp) /\ IsMedia(sdp[i])
        <3>1. i \in 1 .. Len(sdp) /\ i \in Lines(sdp, IsAudio)
            BY <1>4, <1>6
        <3>2. i \in Lines(sdp, IsMedia)
            BY <3>1, DescriptionLines
        <3> QED
            BY <3>1, <3>2, DescriptionLines
    <2>2. out[i].fmts = sdp[i].fmts
        BY <1>1, <2>1, RewriteLine
    <2>3. \A n \in Lines(sdp, IsRtpmap) : out[n] = sdp[n]
        <3> TAKE n \in Lines(sdp, IsRtpmap)
        <3>1. n \in 1 .. Len(sdp) /\ IsRtpmap(sdp[n])
            BY DescriptionLines
        <3> QED
            BY <1>1, <3>1, RewriteLine
    <2> DEFINE pt == Head(sdp[i].fmts)
               maps == {n \in Lines(sdp, IsRtpmap) :
                            i < n /\ n <= SectionEnd(sdp, i) /\ sdp[n].pt = pt}
               outs == {n \in Lines(out, IsRtpmap) :
                            i < n /\ n <= SectionEnd(out, i) /\ out[n].pt = pt}
    <2>4. outs = maps
        BY <1>3, <2>3
    <2>5. maps # {} => out[Min(maps)] = sdp[Min(maps)]
        <3>1. maps \subseteq Lines(sdp, IsRtpmap)
            OBVIOUS
        <3>2. Lines(sdp, IsRtpmap) \subseteq Nat
            BY RtpmapLinesNat
        <3> HIDE DEF maps
        <3> QED
            BY <2>3, <3>1, <3>2, LeastNat
    <2>6. selectedAudioCodec(sdp) =
            IF sdp[i].fmts = <<>> THEN Nil
            ELSE [pt |-> pt, name |-> IF maps # {} THEN sdp[Min(maps)].name ELSE staticAudioRTPMap(pt)]
        BY <1>2, <1>6 DEF selectedAudioCodec
    <2>7. selectedAudioCodec(out) =
            IF sdp[i].fmts = <<>> THEN Nil
            ELSE [pt |-> pt, name |-> IF outs # {} THEN out[Min(outs)].name ELSE staticAudioRTPMap(pt)]
        BY <1>3, <1>6, <2>2 DEF selectedAudioCodec
    <2> HIDE DEF maps, outs, pt
    <2> QED
        BY <1>1, <2>4, <2>5, <2>6, <2>7
<1> QED
    BY <1>5, <1>6

-----------------------------------------------------------------------------
(* parseTapAnswer's pass *)

\* Induction from a to b.
LEMMA UpFrom ==
    ASSUME NEW a \in Nat, NEW b \in Nat, NEW S, a \in S, \A i \in a .. b - 1 : i \in S => i + 1 \in S
    PROVE  \A i \in a .. b : i \in S
<1> DEFINE bad == (a .. b) \ S
<1> SUFFICES ASSUME bad # {} PROVE FALSE
    OBVIOUS
<1>1. Min(bad) \in bad /\ \A i \in bad : Min(bad) <= i
    BY LeastNat
<1>2. PICK m \in bad : \A i \in bad : m <= i
    BY <1>1
<1>3. m # a /\ m - 1 \in a .. b - 1
    BY <1>2
<1>4. m - 1 \in S
    BY <1>2, <1>3
<1> QED
    BY <1>2, <1>3, <1>4

Streams == Seq([host : Text, port : Int])
TapStates == [session : Text, streams : Streams]
TapStart == [session |-> Empty, streams |-> <<>>]

\* What one line does to the streams that are read so far and to the session's address.
TapReads(p, l, q) ==
    /\ IsAudio(l) =>
        /\ Len(q.streams) = Len(p.streams) + 1 /\ q.session = p.session
        /\ q.streams[Len(p.streams) + 1] = [host |-> p.session, port |-> l.port]
        /\ \A m \in 1 .. Len(p.streams) : q.streams[m] = p.streams[m]
    /\ ~IsAudio(l) =>
        /\ Len(q.streams) = Len(p.streams)
        /\ \A m \in 1 .. Len(p.streams) - 1 : q.streams[m] = p.streams[m]
    /\ IsConn(l) /\ Len(p.streams) = 0 => q.session = l.addr
    /\ IsConn(l) /\ Len(p.streams) > 0 =>
        /\ q.session = p.session
        /\ q.streams[Len(p.streams)].host = l.addr
        /\ q.streams[Len(p.streams)].port = p.streams[Len(p.streams)].port
    /\ ~IsAudio(l) /\ ~IsConn(l) => q = p

\* ReadTap keeps the state's type and does what TapReads says.
LEMMA ReadTapIs ==
    ASSUME NEW p \in TapStates, NEW l \in Line
    PROVE  ReadTap(p, l) \in TapStates /\ TapReads(p, l, ReadTap(p, l))
<1>1. p.session \in Text /\ p.streams \in Seq([host : Text, port : Int]) /\ Len(p.streams) \in Nat
    BY DEF TapStates, Streams
<1>2. p = [session |-> p.session, streams |-> p.streams]
    BY DEF TapStates
<1>3. PICK n \in Nat : n = Len(p.streams)
    BY <1>1
<1>4. PICK q : q = ReadTap(p, l)
    OBVIOUS
<1>5. CASE IsAudio(l)
    <2>1. l.port \in Int /\ ~IsConn(l)
        BY <1>5, LineFields DEF IsAudio, IsConn
    <2>2. PICK s : s = [host |-> p.session, port |-> l.port]
        OBVIOUS
    <2>3. s \in [host : Text, port : Int]
        BY <1>1, <2>1, <2>2
    <2>4. q = [p EXCEPT !.streams = Append(p.streams, s)]
        BY <1>4, <1>5, <2>1, <2>2 DEF ReadTap, TapStates
    <2>5. q = [session |-> p.session, streams |-> Append(p.streams, s)]
        BY <1>2, <2>4
    <2>6. q.session = p.session /\ q.streams = Append(p.streams, s)
        BY <2>5
    <2>7. /\ Append(p.streams, s) \in Seq([host : Text, port : Int])
          /\ Len(Append(p.streams, s)) = n + 1
          /\ Append(p.streams, s)[n + 1] = s
          /\ \A m \in 1 .. n : Append(p.streams, s)[m] = p.streams[m]
        BY <1>1, <1>3, <2>3
    <2>8. q \in TapStates
        BY <1>1, <2>5, <2>7 DEF TapStates, Streams
    <2> QED
        BY <1>3, <1>4, <1>5, <2>1, <2>2, <2>6, <2>7, <2>8 DEF TapReads
<1>6. CASE IsConn(l) /\ n # 0
    <2>1. l.addr \in Text /\ ~IsAudio(l) /\ p.streams # <<>>
        BY <1>1, <1>3, <1>6, LineFields DEF IsAudio, IsConn
    <2>2. PICK s : s = [p.streams[n] EXCEPT !.host = l.addr]
        OBVIOUS
    <2>3. s \in [host : Text, port : Int] /\ s.host = l.addr /\ s.port = p.streams[n].port
        <3>1. p.streams[n] \in [host : Text, port : Int]
            <4>1. n \in 1 .. Len(p.streams)
                BY <1>1, <1>3, <1>6
            <4> QED
                BY <1>1, <4>1, ElementOfSeq
        <3> QED
            BY <2>1, <2>2, <3>1
    <2>4. q = [p EXCEPT !.streams[n].host = l.addr]
        BY <1>3, <1>4, <1>6, <2>1 DEF ReadTap
    <2>5. q = [session |-> p.session, streams |-> [p.streams EXCEPT ![n] = s]]
        BY <1>2, <2>2, <2>4
    <2>6. q.session = p.session /\ q.streams = [p.streams EXCEPT ![n] = s]
        BY <2>5
    <2>7. /\ [p.streams EXCEPT ![n] = s] \in Seq([host : Text, port : Int])
          /\ Len([p.streams EXCEPT ![n] = s]) = n
          /\ [p.streams EXCEPT ![n] = s][n] = s
          /\ \A m \in 1 .. n - 1 : [p.streams EXCEPT ![n] = s][m] = p.streams[m]
        BY <1>1, <1>3, <1>6, <2>3
    <2>8. q \in TapStates
        BY <1>1, <2>5, <2>7 DEF TapStates, Streams
    <2> QED
        BY <1>3, <1>4, <1>6, <2>1, <2>3, <2>6, <2>7, <2>8 DEF TapReads
<1>7. CASE IsConn(l) /\ n = 0
    <2>1. l.addr \in Text /\ ~IsAudio(l) /\ p.streams = <<>>
        <3>1. p.streams = <<>>
            BY <1>1, <1>3, <1>7, EmptySeq
        <3> QED
            BY <1>7, <3>1, LineFields DEF IsAudio, IsConn
    <2>2. q = [p EXCEPT !.session = l.addr]
        BY <1>4, <1>7, <2>1 DEF ReadTap
    <2>3. q = [session |-> l.addr, streams |-> p.streams]
        BY <1>2, <2>2
    <2>4. q.session = l.addr /\ q.streams = p.streams
        BY <2>3
    <2>5. q \in TapStates
        BY <1>1, <2>1, <2>3 DEF TapStates, Streams
    <2> QED
        BY <1>3, <1>4, <1>7, <2>1, <2>4, <2>5 DEF TapReads
<1>8. CASE ~IsAudio(l) /\ ~IsConn(l)
    <2>1. q = p
        BY <1>4, <1>8 DEF ReadTap
    <2> QED
        BY <1>4, <1>8, <2>1 DEF TapReads
<1> QED
    BY <1>5, <1>6, <1>7, <1>8

\* The states of the pass: one step of ReadTap for each line.
LEMMA TapPassSteps ==
    ASSUME NEW sdp \in Description
    PROVE  /\ TapPass(sdp)[0] = TapStart
           /\ \A i \in 1 .. Len(sdp) : TapReads(TapPass(sdp)[i - 1], sdp[i], TapPass(sdp)[i])
           /\ \A i \in 0 .. Len(sdp) : TapPass(sdp)[i] \in TapStates
<1> DEFINE n == Len(sdp)
           G == [i \in 1 .. n |-> [acc \in TapStates |-> ReadTap(acc, sdp[i])]]
           Eq(p) == p = [i \in 0 .. n |-> IF i = 0 THEN TapStart ELSE ReadTap(p[i - 1], sdp[i])]
           p == TapPass(sdp)
<1>1. n \in Nat /\ \A i \in 1 .. n : sdp[i] \in Line
    BY DEF Description
<1>2. TapStart \in TapStates
    <2>1. Empty \in Text
        BY TextAssumption
    <2>2. <<>> \in Streams
        BY DEF Streams
    <2> QED
        BY <2>1, <2>2, Zenon DEF TapStart, TapStates
<1>3. G \in [1 .. n -> [TapStates -> TapStates]]
    BY <1>1, ReadTapIs
<1>4. PICK f : IsRun(f, n, TapStates, TapStart, G)
    <2> HIDE DEF G
    <2> QED
        BY <1>1, <1>2, <1>3, PassExists
<1>5. ASSUME NEW i \in 1 .. n PROVE f[i] = ReadTap(f[i - 1], sdp[i])
    <2>1. f[i - 1] \in TapStates
        BY <1>1, <1>4 DEF IsRun
    <2> QED
        BY <1>1, <1>4, <2>1 DEF IsRun
<1>6. Eq(f)
    BY <1>1, <1>4, <1>5 DEF IsRun
<1>7. p = CHOOSE q : Eq(q)
    BY DEF TapPass, Pass, TapStart
<1>8. Eq(p)
    <2> HIDE DEF Eq, p
    <2> QED
        BY <1>6, <1>7
<1>9. p[0] = TapStart /\ \A i \in 1 .. n : p[i] = ReadTap(p[i - 1], sdp[i])
    <2> HIDE DEF p
    <2> QED
        BY <1>1, <1>8
<1>10. \A i \in 0 .. n : p[i] \in TapStates
    <2> DEFINE S == {i \in 0 .. n : p[i] \in TapStates}
    <2> HIDE DEF p, n
    <2>1. 0 \in S
        BY <1>1, <1>2, <1>9
    <2>2. ASSUME NEW i \in 0 .. n - 1, i \in S PROVE i + 1 \in S
        <3>1. i + 1 \in 1 .. n /\ (i + 1) - 1 = i
            BY <1>1
        <3>2. p[i + 1] = ReadTap(p[i], sdp[i + 1])
            BY <1>9, <3>1
        <3> QED
            BY <1>1, <2>2, <3>1, <3>2, ReadTapIs
    <2> HIDE DEF S
    <2>3. \A i \in 0 .. n : i \in S
        BY <1>1, <2>1, <2>2, UpTo
    <2> QED
        BY <2>3 DEF S
<1>11. \A i \in 1 .. n : TapReads(p[i - 1], sdp[i], p[i])
    <2> TAKE i \in 1 .. n
    <2> HIDE DEF p, n
    <2>1. p[i - 1] \in TapStates /\ p[i] = ReadTap(p[i - 1], sdp[i]) /\ sdp[i] \in Line
        BY <1>1, <1>9, <1>10
    <2> QED
        BY <2>1, ReadTapIs
<1> QED
    BY <1>9, <1>10, <1>11

\* The audio line at a is the nth, and the next is at b, or there is none and b is the end.
Between(sdp, n, a, b) ==
    /\ n \in Nat \ {0} /\ a \in Lines(sdp, IsAudio) /\ b \in a + 1 .. Len(sdp) + 1
    /\ b <= Len(sdp) => b \in Lines(sdp, IsAudio)
    /\ \A i \in Lines(sdp, IsAudio) : i <= a \/ b <= i
    /\ Len(TapPass(sdp)[a - 1].streams) = n - 1
ConnsBetween(sdp, a, b) == {j \in Lines(sdp, IsConn) : a < j /\ j < b}

\* One step of the pass, in a form that is easy to use.
LEMMA TapStep ==
    ASSUME NEW sdp \in Description, NEW k \in 0 .. Len(sdp) - 1
    PROVE  /\ k + 1 \in 1 .. Len(sdp) /\ TapReads(TapPass(sdp)[k], sdp[k + 1], TapPass(sdp)[k + 1])
           /\ Len(TapPass(sdp)[k].streams) \in Nat
           /\ k + 1 \in Lines(sdp, IsAudio) <=> IsAudio(sdp[k + 1])
           /\ k + 1 \in Lines(sdp, IsConn) <=> IsConn(sdp[k + 1])
<1>1. k + 1 \in 1 .. Len(sdp) /\ k \in 0 .. Len(sdp) /\ (k + 1) - 1 = k
    BY DescriptionLines
<1>2. TapReads(TapPass(sdp)[k], sdp[k + 1], TapPass(sdp)[k + 1])
    BY <1>1, TapPassSteps
<1>3. TapPass(sdp)[k] \in TapStates
    BY <1>1, TapPassSteps
<1>4. Len(TapPass(sdp)[k].streams) \in Nat
    BY <1>3 DEF TapStates, Streams
<1> QED
    BY <1>1, <1>2, <1>4, DescriptionLines

\* Between a and b the nth stream is the one that is read, and nothing later touches it.
LEMMA StreamHeld ==
    ASSUME NEW sdp \in Description, NEW n, NEW a, NEW b, Between(sdp, n, a, b)
    PROVE  LET p == TapPass(sdp)
           IN  /\ \A k \in a .. b - 1 : Len(p[k].streams) = n /\ p[k].streams[n].port = sdp[a].port
               /\ \A k \in b - 1 .. Len(sdp) :
                    Len(p[k].streams) >= n /\ p[k].streams[n] = p[b - 1].streams[n]
               /\ b <= Len(sdp) => Len(p[b].streams) = n + 1
<1> DEFINE p == TapPass(sdp)
           Held(k) == Len(p[k].streams) = n /\ p[k].streams[n].port = sdp[a].port
           Kept(k) == /\ Len(p[k].streams) >= n /\ p[k].streams[n] = p[b - 1].streams[n]
                      /\ b <= k => Len(p[k].streams) > n
           S == {k \in a .. b - 1 : Held(k)}
           T == {k \in b - 1 .. Len(sdp) : Kept(k)}
<1>1. /\ Len(sdp) \in Nat /\ a \in 1 .. Len(sdp) /\ b \in a + 1 .. Len(sdp) + 1 /\ n \in Nat \ {0}
      /\ a \in Lines(sdp, IsAudio) /\ Len(p[a - 1].streams) = n - 1
      /\ b <= Len(sdp) => b \in Lines(sdp, IsAudio)
      /\ \A i \in Lines(sdp, IsAudio) : i <= a \/ b <= i
    BY DescriptionLines DEF Between
<1>2. ASSUME NEW k \in 0 .. Len(sdp) - 1
      PROVE  /\ TapReads(p[k], sdp[k + 1], p[k + 1]) /\ Len(p[k].streams) \in Nat
             /\ k + 1 \in Lines(sdp, IsAudio) <=> IsAudio(sdp[k + 1])
             /\ k + 1 \in Lines(sdp, IsConn) <=> IsConn(sdp[k + 1])
    BY TapStep
<1> HIDE DEF p
<1>3. Held(a)
    <2>1. a - 1 \in 0 .. Len(sdp) - 1 /\ (a - 1) + 1 = a
        BY <1>1
    <2>2. TapReads(p[a - 1], sdp[a], p[a]) /\ IsAudio(sdp[a])
        BY <1>1, <1>2, <2>1
    <2>3. /\ Len(p[a].streams) = (n - 1) + 1
          /\ p[a].streams[(n - 1) + 1] = [host |-> p[a - 1].session, port |-> sdp[a].port]
        BY <1>1, <2>2 DEF TapReads
    <2>4. (n - 1) + 1 = n
        BY <1>1
    <2> QED
        BY <2>3, <2>4
<1>4. ASSUME NEW k \in a .. (b - 1) - 1, k \in S PROVE k + 1 \in S
    <2>1. k \in 0 .. Len(sdp) - 1 /\ k + 1 \in a .. b - 1 /\ k + 1 \notin Lines(sdp, IsAudio)
        BY <1>1
    <2>2. TapReads(p[k], sdp[k + 1], p[k + 1]) /\ ~IsAudio(sdp[k + 1])
        BY <1>2, <2>1
    <2>3. Held(k)
        BY <1>4
    <2>4. Held(k + 1)
        <3>1. Len(p[k + 1].streams) = n
            BY <2>2, <2>3 DEF TapReads
        <3>2. p[k + 1].streams[n].port = p[k].streams[n].port
            <4>1. CASE IsConn(sdp[k + 1])
                BY <1>1, <2>2, <2>3, <4>1 DEF TapReads
            <4>2. CASE ~IsConn(sdp[k + 1])
                BY <2>2, <4>2 DEF TapReads
            <4> QED
                BY <4>1, <4>2
        <3> QED
            BY <2>3, <3>1, <3>2
    <2> QED
        BY <2>1, <2>4
<1>5. \A k \in a .. b - 1 : Held(k)
    <2>1. a \in S
        BY <1>1, <1>3
    <2>2. a \in Nat /\ b - 1 \in Nat
        BY <1>1
    <2>3. \A k \in a .. b - 1 : k \in S
        <3> HIDE DEF S
        <3> QED
            BY <1>4, <2>1, <2>2, UpFrom
    <2> QED
        BY <2>3
<1>6. Kept(b - 1)
    BY <1>1, <1>5
<1>7. ASSUME NEW k \in b - 1 .. Len(sdp) - 1, k \in T PROVE k + 1 \in T
    <2>1. k \in 0 .. Len(sdp) - 1 /\ k + 1 \in b - 1 .. Len(sdp) /\ b <= k + 1
        BY <1>1
    <2>2. TapReads(p[k], sdp[k + 1], p[k + 1]) /\ Len(p[k].streams) \in Nat
        BY <1>2, <2>1
    <2>3. Kept(k)
        BY <1>7
    <2>4. CASE IsAudio(sdp[k + 1])
        <3>1. Len(p[k + 1].streams) = Len(p[k].streams) + 1 /\ p[k + 1].streams[n] = p[k].streams[n]
            BY <1>1, <2>2, <2>3, <2>4 DEF TapReads
        <3>2. Len(p[k + 1].streams) >= n /\ Len(p[k + 1].streams) > n
            <4>1. PICK m : m = Len(p[k].streams)
                OBVIOUS
            <4>2. m \in Nat /\ m >= n /\ Len(p[k + 1].streams) = m + 1
                BY <2>2, <2>3, <3>1, <4>1
            <4> QED
                BY <1>1, <4>2
        <3>3. Kept(k + 1)
            BY <2>3, <3>1, <3>2
        <3> QED
            BY <2>1, <3>3
    <2>5. CASE ~IsAudio(sdp[k + 1])
        <3>1. b <= k
            <4>1. b # k + 1
                <5>1. k + 1 \notin Lines(sdp, IsAudio)
                    BY <1>2, <2>1, <2>5
                <5>2. k + 1 <= Len(sdp)
                    BY <1>1, <2>1
                <5> QED
                    BY <1>1, <5>1, <5>2
            <4> QED
                BY <1>1, <2>1, <4>1
        <3>2. Len(p[k + 1].streams) = Len(p[k].streams) /\ p[k + 1].streams[n] = p[k].streams[n]
            BY <1>1, <2>2, <2>3, <2>5, <3>1 DEF TapReads
        <3> QED
            BY <1>1, <2>1, <2>2, <2>3, <3>1, <3>2
    <2> QED
        BY <2>4, <2>5
<1>8. \A k \in b - 1 .. Len(sdp) : Kept(k)
    <2>1. b - 1 \in T
        BY <1>1, <1>6
    <2>2. b - 1 \in Nat /\ Len(sdp) \in Nat
        BY <1>1
    <2>3. \A k \in b - 1 .. Len(sdp) : k \in T
        <3> HIDE DEF T
        <3> QED
            BY <1>7, <2>1, <2>2, UpFrom
    <2> QED
        BY <2>3
<1>9. ASSUME b <= Len(sdp) PROVE Len(p[b].streams) = n + 1
    <2>1. b - 1 \in 0 .. Len(sdp) - 1 /\ (b - 1) + 1 = b /\ b - 1 \in a .. b - 1
        BY <1>1, <1>9
    <2>2. TapReads(p[b - 1], sdp[b], p[b]) /\ IsAudio(sdp[b])
        BY <1>1, <1>2, <1>9, <2>1
    <2>3. Len(p[b - 1].streams) = n
        BY <1>5, <2>1
    <2> QED
        BY <2>2, <2>3 DEF TapReads
<1> QED
    BY <1>5, <1>8, <1>9 DEF p

\* The address of the nth stream: that of the only c= line between a and b, or the session's.
LEMMA StreamHost ==
    ASSUME NEW sdp \in Description, NEW n, NEW a, NEW b, Between(sdp, n, a, b)
    PROVE  LET p == TapPass(sdp)
           IN  /\ ConnsBetween(sdp, a, b) = {} => p[b - 1].streams[n].host = p[a - 1].session
               /\ \A j : ConnsBetween(sdp, a, b) = {j} => p[b - 1].streams[n].host = sdp[j].addr
<1> DEFINE p == TapPass(sdp)
<1>1. /\ Len(sdp) \in Nat /\ a \in 1 .. Len(sdp) /\ b \in a + 1 .. Len(sdp) + 1 /\ n \in Nat \ {0}
      /\ a \in Lines(sdp, IsAudio) /\ Len(p[a - 1].streams) = n - 1
      /\ \A i \in Lines(sdp, IsAudio) : i <= a \/ b <= i
    BY DescriptionLines DEF Between
<1>2. ASSUME NEW k \in 0 .. Len(sdp) - 1
      PROVE  /\ TapReads(p[k], sdp[k + 1], p[k + 1]) /\ Len(p[k].streams) \in Nat
             /\ k + 1 \in Lines(sdp, IsAudio) <=> IsAudio(sdp[k + 1])
             /\ k + 1 \in Lines(sdp, IsConn) <=> IsConn(sdp[k + 1])
    BY TapStep
<1>3. \A k \in a .. b - 1 : Len(p[k].streams) = n
    BY StreamHeld
<1> HIDE DEF p
<1>4. ASSUME NEW k \in a .. b - 2
      PROVE  /\ IsConn(sdp[k + 1]) => p[k + 1].streams[n].host = sdp[k + 1].addr
             /\ ~IsConn(sdp[k + 1]) => p[k + 1].streams[n].host = p[k].streams[n].host
    <2>1. k \in 0 .. Len(sdp) - 1 /\ k \in a .. b - 1 /\ k + 1 \notin Lines(sdp, IsAudio)
        BY <1>1
    <2>2. TapReads(p[k], sdp[k + 1], p[k + 1]) /\ ~IsAudio(sdp[k + 1]) /\ Len(p[k].streams) = n
        BY <1>2, <1>3, <2>1
    <2> QED
        BY <1>1, <2>2 DEF TapReads
<1>5. ASSUME NEW c \in a .. b - 1, NEW h, p[c].streams[n].host = h,
             \A k \in c .. b - 2 : k + 1 \notin Lines(sdp, IsConn)
      PROVE  p[b - 1].streams[n].host = h
    <2> DEFINE S == {k \in c .. b - 1 : p[k].streams[n].host = h}
    <2>1. c \in S
        BY <1>1, <1>5
    <2>2. ASSUME NEW k \in c .. (b - 1) - 1, k \in S PROVE k + 1 \in S
        <3>1. k \in a .. b - 2 /\ k \in c .. b - 2 /\ k \in 0 .. Len(sdp) - 1 /\ k + 1 \in c .. b - 1
            BY <1>1
        <3>2. ~IsConn(sdp[k + 1])
            BY <1>2, <1>5, <3>1
        <3> QED
            BY <1>4, <2>2, <3>1, <3>2
    <2>3. c \in Nat /\ b - 1 \in Nat /\ b - 1 \in c .. b - 1
        BY <1>1
    <2>4. b - 1 \in S
        <3> HIDE DEF S
        <3> QED
            BY <2>1, <2>2, <2>3, UpFrom
    <2> QED
        BY <2>4
<1>6. ASSUME ConnsBetween(sdp, a, b) = {} PROVE p[b - 1].streams[n].host = p[a - 1].session
    <2>1. a - 1 \in 0 .. Len(sdp) - 1 /\ (a - 1) + 1 = a
        BY <1>1
    <2>2. TapReads(p[a - 1], sdp[a], p[a]) /\ IsAudio(sdp[a])
        BY <1>1, <1>2, <2>1
    <2>3. p[a].streams[(n - 1) + 1] = [host |-> p[a - 1].session, port |-> sdp[a].port]
        BY <1>1, <2>2 DEF TapReads
    <2>4. p[a].streams[n].host = p[a - 1].session
        <3>1. (n - 1) + 1 = n
            BY <1>1
        <3> QED
            BY <2>3, <3>1
    <2>5. \A k \in a .. b - 2 : k + 1 \notin Lines(sdp, IsConn)
        BY <1>1, <1>6 DEF ConnsBetween
    <2>6. a \in a .. b - 1
        BY <1>1
    <2> QED
        BY <1>5, <2>4, <2>5, <2>6
<1>7. ASSUME NEW j, ConnsBetween(sdp, a, b) = {j} PROVE p[b - 1].streams[n].host = sdp[j].addr
    <2>1. j \in Lines(sdp, IsConn) /\ a < j /\ j < b /\ j \in 1 .. Len(sdp)
        <3>1. j \in Lines(sdp, IsConn) /\ a < j /\ j < b
            BY <1>7 DEF ConnsBetween
        <3> QED
            BY <3>1, DescriptionLines
    <2>2. j - 1 \in a .. b - 2 /\ (j - 1) + 1 = j /\ j \in a .. b - 1 /\ j - 1 \in 0 .. Len(sdp) - 1
        BY <1>1, <2>1
    <2>3. p[j].streams[n].host = sdp[j].addr
        BY <1>2, <1>4, <2>1, <2>2
    <2>4. \A k \in j .. b - 2 : k + 1 \notin Lines(sdp, IsConn)
        BY <1>1, <1>7, <2>1 DEF ConnsBetween
    <2> QED
        BY <1>5, <2>2, <2>3, <2>4
<1> QED
    BY <1>6, <1>7 DEF p

\* The audio line after the one at a, or the end.
LEMMA NextAudio ==
    ASSUME NEW sdp \in Description, NEW a \in Lines(sdp, IsAudio)
    PROVE  \E b \in a + 1 .. Len(sdp) + 1 :
                /\ b <= Len(sdp) => b \in Lines(sdp, IsAudio)
                /\ \A i \in Lines(sdp, IsAudio) : i <= a \/ b <= i
<1> DEFINE S == {i \in Lines(sdp, IsAudio) : a < i}
           b == Min(S \cup {Len(sdp) + 1})
<1>1. Len(sdp) \in Nat /\ a \in 1 .. Len(sdp) /\ \A i \in Lines(sdp, IsAudio) : i \in 1 .. Len(sdp)
    BY DescriptionLines
<1>2. S \subseteq 1 .. Len(sdp)
    BY <1>1
<1>3. b \in 1 .. Len(sdp) + 1 /\ (\A i \in S : b <= i) /\ (b <= Len(sdp) => b \in S)
    <2> HIDE DEF S
    <2> QED
        BY <1>1, <1>2, FirstOf
<1> HIDE DEF b
<1>4. b \in a + 1 .. Len(sdp) + 1
    BY <1>1, <1>3
<1>5. \A i \in Lines(sdp, IsAudio) : i <= a \/ b <= i
    BY <1>1, <1>3
<1> QED
    BY <1>3, <1>4, <1>5

\* Up to the first audio line no stream is open, and the last c= line is the session's.
LEMMA BeforeAudio ==
    ASSUME NEW sdp \in Description, NEW a \in 1 .. Len(sdp) + 1,
           \A i \in Lines(sdp, IsAudio) : a <= i
    PROVE  LET p == TapPass(sdp)
           IN  /\ \A k \in 0 .. a - 1 : Len(p[k].streams) = 0
               /\ \A j : {i \in Lines(sdp, IsConn) : i < a} = {j} => p[a - 1].session = sdp[j].addr
<1> DEFINE p == TapPass(sdp)
           S == {k \in 0 .. a - 1 : Len(p[k].streams) = 0}
<1>1. Len(sdp) \in Nat
    BY DescriptionLines
<1>2. ASSUME NEW k \in 0 .. Len(sdp) - 1
      PROVE  /\ TapReads(p[k], sdp[k + 1], p[k + 1]) /\ Len(p[k].streams) \in Nat
             /\ k + 1 \in Lines(sdp, IsAudio) <=> IsAudio(sdp[k + 1])
             /\ k + 1 \in Lines(sdp, IsConn) <=> IsConn(sdp[k + 1])
    BY TapStep
<1>3. Len(p[0].streams) = 0
    <2>1. p[0] = TapStart
        BY TapPassSteps
    <2>2. TapStart.streams = <<>>
        BY DEF TapStart
    <2> HIDE DEF p
    <2> QED
        BY <2>1, <2>2
<1> HIDE DEF p
<1>4. ASSUME NEW k \in 0 .. a - 2
      PROVE  k \in 0 .. Len(sdp) - 1 /\ k + 1 \notin Lines(sdp, IsAudio) /\ k + 1 \in 0 .. a - 1
    BY <1>1
<1>5. \A k \in 0 .. a - 1 : Len(p[k].streams) = 0
    <2>1. 0 \in S
        BY <1>1, <1>3
    <2>2. ASSUME NEW k \in 0 .. (a - 1) - 1, k \in S PROVE k + 1 \in S
        <3>1. k \in 0 .. a - 2
            BY <1>1
        <3>2. TapReads(p[k], sdp[k + 1], p[k + 1]) /\ ~IsAudio(sdp[k + 1])
            BY <1>2, <1>4, <3>1
        <3> QED
            BY <1>4, <2>2, <3>1, <3>2 DEF TapReads
    <2>3. a - 1 \in Nat
        BY <1>1
    <2>4. \A k \in 0 .. a - 1 : k \in S
        <3> HIDE DEF S
        <3> QED
            BY <2>1, <2>2, <2>3, UpTo
    <2> QED
        BY <2>4
<1>6. ASSUME NEW j, {i \in Lines(sdp, IsConn) : i < a} = {j}
      PROVE  p[a - 1].session = sdp[j].addr
    <2> DEFINE T == {k \in j .. a - 1 : p[k].session = sdp[j].addr}
    <2>1. j \in 1 .. Len(sdp) /\ j < a /\ j \in Lines(sdp, IsConn)
        <3>1. j < a /\ j \in Lines(sdp, IsConn)
            BY <1>6
        <3> QED
            BY <3>1, DescriptionLines
    <2>2. j - 1 \in 0 .. a - 2 /\ (j - 1) + 1 = j /\ j - 1 \in 0 .. a - 1
        BY <1>1, <2>1
    <2>3. j \in T
        <3>1. TapReads(p[j - 1], sdp[j], p[j]) /\ IsConn(sdp[j]) /\ Len(p[j - 1].streams) = 0
            BY <1>2, <1>4, <1>5, <2>1, <2>2
        <3>2. p[j].session = sdp[j].addr
            BY <3>1 DEF TapReads
        <3> QED
            BY <1>1, <2>1, <3>2
    <2>4. ASSUME NEW k \in j .. (a - 1) - 1, k \in T PROVE k + 1 \in T
        <3>1. k \in 0 .. a - 2 /\ k + 1 \in j .. a - 1 /\ k + 1 < a /\ k + 1 # j
            BY <1>1, <2>1
        <3>2. k + 1 \notin Lines(sdp, IsConn)
            BY <1>6, <3>1
        <3>3. /\ TapReads(p[k], sdp[k + 1], p[k + 1]) /\ ~IsAudio(sdp[k + 1]) /\ ~IsConn(sdp[k + 1])
            BY <1>2, <1>4, <3>1, <3>2
        <3>4. p[k + 1] = p[k]
            BY <3>3 DEF TapReads
        <3> QED
            BY <2>4, <3>1, <3>4
    <2>5. j \in Nat /\ a - 1 \in Nat /\ a - 1 \in j .. a - 1
        BY <1>1, <2>1
    <2>6. a - 1 \in T
        <3> HIDE DEF T
        <3> QED
            BY <2>3, <2>4, <2>5, UpFrom
    <2> QED
        BY <2>6
<1> QED
    BY <1>5, <1>6 DEF p

\* From the first audio line on, the session's address stays.
LEMMA SessionStays ==
    ASSUME NEW sdp \in Description, Lines(sdp, IsAudio) # {}
    PROVE  LET p == TapPass(sdp)
               a == FirstAudio(sdp)
           IN  \A k \in a - 1 .. Len(sdp) : p[k].session = p[a - 1].session
<1> DEFINE p == TapPass(sdp)
           a == FirstAudio(sdp)
           S == {k \in a - 1 .. Len(sdp) : p[k].session = p[a - 1].session}
<1>1. /\ Len(sdp) \in Nat /\ a \in Lines(sdp, IsAudio) /\ a \in 1 .. Len(sdp)
      /\ \A i \in Lines(sdp, IsAudio) : a <= i
    BY FirstAudioIs, DescriptionLines
<1> HIDE DEF a
<1>2. PICK b \in a + 1 .. Len(sdp) + 1 :
            /\ b <= Len(sdp) => b \in Lines(sdp, IsAudio)
            /\ \A i \in Lines(sdp, IsAudio) : i <= a \/ b <= i
    BY <1>1, NextAudio
<1>3. Between(sdp, 1, a, b)
    <2>1. a \in 1 .. Len(sdp) + 1 /\ a - 1 \in 0 .. a - 1 /\ 1 - 1 = 0
        BY <1>1
    <2>2. Len(p[a - 1].streams) = 0
        BY <1>1, <2>1, BeforeAudio
    <2> QED
        BY <1>1, <1>2, <2>1, <2>2 DEF Between
<1>4. ASSUME NEW k \in 0 .. Len(sdp) - 1
      PROVE  /\ TapReads(p[k], sdp[k + 1], p[k + 1]) /\ Len(p[k].streams) \in Nat
             /\ k + 1 \in Lines(sdp, IsAudio) <=> IsAudio(sdp[k + 1])
             /\ k + 1 \in Lines(sdp, IsConn) <=> IsConn(sdp[k + 1])
    BY TapStep
<1>5. PICK n, c : Between(sdp, n, a, c)
    BY <1>3
<1>6. \A k \in a .. Len(sdp) : Len(p[k].streams) >= 1
    <2>1. /\ \A k \in a .. c - 1 : Len(p[k].streams) = n /\ p[k].streams[n].port = sdp[a].port
          /\ \A k \in c - 1 .. Len(sdp) :
                Len(p[k].streams) >= n /\ p[k].streams[n] = p[c - 1].streams[n]
        BY <1>5, StreamHeld, SMTT(30)
    <2>2. n \in Nat \ {0} /\ c \in a + 1 .. Len(sdp) + 1
        BY <1>5 DEF Between
    <2> HIDE DEF p
    <2>3. ASSUME NEW k \in a .. Len(sdp) PROVE Len(p[k].streams) >= n /\ Len(p[k].streams) \in Nat
        <3>1. k \in a .. c - 1 \/ k \in c - 1 .. Len(sdp)
            BY <1>1, <2>2
        <3>2. k \in 0 .. Len(sdp)
            BY <1>1
        <3>3. Len(p[k].streams) \in Nat
            <4>1. p[k] \in TapStates
                BY <3>2, TapPassSteps DEF p
            <4> QED
                BY <4>1 DEF TapStates, Streams
        <3> QED
            BY <2>1, <2>2, <3>1, <3>3
    <2> QED
        BY <2>2, <2>3
<1> HIDE DEF p
<1>7. a - 1 \in S
    BY <1>1
<1>8. ASSUME NEW k \in a - 1 .. Len(sdp) - 1, k \in S PROVE k + 1 \in S
    <2>1. k \in 0 .. Len(sdp) - 1 /\ k + 1 \in a - 1 .. Len(sdp)
        BY <1>1
    <2>2. TapReads(p[k], sdp[k + 1], p[k + 1]) /\ Len(p[k].streams) \in Nat
        BY <1>4, <2>1
    <2>3. p[k + 1].session = p[k].session
        <3>1. CASE IsAudio(sdp[k + 1])
            BY <2>2, <3>1 DEF TapReads
        <3>2. CASE ~IsAudio(sdp[k + 1])
            <4>1. k + 1 # a
                BY <1>1, <1>4, <2>1, <3>2
            <4>2. k \in a .. Len(sdp)
                BY <1>1, <2>1, <4>1
            <4>3. Len(p[k].streams) > 0
                BY <1>6, <2>2, <4>2
            <4> QED
                BY <2>2, <3>2, <4>3 DEF TapReads
        <3> QED
            BY <3>1, <3>2
    <2> QED
        BY <1>8, <2>1, <2>3
<1>9. \A k \in a - 1 .. Len(sdp) : k \in S
    <2>1. a - 1 \in Nat
        BY <1>1
    <2> HIDE DEF S
    <2> QED
        BY <1>1, <1>7, <1>8, <2>1, UpFrom
<1> QED
    BY <1>9 DEF p, a

\* A c= line that follows an m= line is in the section of one.
LEMMA InSection ==
    ASSUME NEW sdp \in Description, NEW c \in Lines(sdp, IsConn), NEW f \in Lines(sdp, IsMedia), f < c
    PROVE  \E v \in Lines(sdp, IsMedia) : v < c /\ c \in OwnConns(sdp, v)
<1> DEFINE S == {v \in Lines(sdp, IsMedia) : v < c}
<1>1. /\ Len(sdp) \in Nat /\ c \in 1 .. Len(sdp) /\ c \notin Lines(sdp, IsMedia)
      /\ \A v \in Lines(sdp, IsMedia) : v \in 1 .. Len(sdp)
    BY DescriptionLines
<1>2. S \subseteq 0 .. c /\ S # {} /\ c \in Nat
    <2>1. f \in S
        OBVIOUS
    <2>2. \A v \in S : v \in 0 .. c
        BY <1>1
    <2>3. c \in Nat
        BY <1>1
    <2> HIDE DEF S
    <2> QED
        BY <2>1, <2>2, <2>3
<1>3. PICK v \in S : \A i \in S : i <= v
    <2> HIDE DEF S
    <2> QED
        BY <1>2, GreatestUpTo
<1>4. v \in 1 .. Len(sdp) /\ c \in v + 1 .. Len(sdp)
    BY <1>1, <1>3
<1>5. \A i \in Lines(sdp, IsMedia) : i <= v \/ c < i
    BY <1>1, <1>3
<1>6. c <= SectionEnd(sdp, v)
    BY <1>4, <1>5, SectionEndIs
<1> QED
    BY <1>3, <1>6 DEF OwnConns

\* The nth stream in the end: what it was when the next audio line came.
LEMMA FinalStream ==
    ASSUME NEW sdp \in Description, NEW n, NEW a, NEW b, Between(sdp, n, a, b)
    PROVE  LET p == TapPass(sdp)
           IN  /\ Len(p[Len(sdp)].streams) >= n
               /\ p[Len(sdp)].streams[n] = [host |-> p[b - 1].streams[n].host, port |-> sdp[a].port]
<1> DEFINE p == TapPass(sdp)
<1>1. Len(sdp) \in Nat /\ a \in 1 .. Len(sdp) /\ b \in a + 1 .. Len(sdp) + 1 /\ n \in Nat \ {0}
    BY DescriptionLines DEF Between
<1>2. b - 1 \in a .. b - 1 /\ b - 1 \in 0 .. Len(sdp) /\ Len(sdp) \in b - 1 .. Len(sdp)
    BY <1>1
<1>3. Len(p[b - 1].streams) = n /\ p[b - 1].streams[n].port = sdp[a].port
    <2>1. \A k \in a .. b - 1 : Len(p[k].streams) = n /\ p[k].streams[n].port = sdp[a].port
        BY StreamHeld
    <2> HIDE DEF p
    <2> QED
        BY <1>2, <2>1
<1>4. Len(p[Len(sdp)].streams) >= n /\ p[Len(sdp)].streams[n] = p[b - 1].streams[n]
    <2>1. \A k \in b - 1 .. Len(sdp) :
            Len(p[k].streams) >= n /\ p[k].streams[n] = p[b - 1].streams[n]
        BY StreamHeld
    <2> HIDE DEF p
    <2> QED
        BY <1>2, <2>1
<1>5. p[b - 1].streams[n] \in [host : Text, port : Int]
    <2>1. p[b - 1] \in TapStates
        BY <1>2, TapPassSteps
    <2>2. p[b - 1].streams \in Seq([host : Text, port : Int])
        BY <2>1 DEF TapStates, Streams
    <2>3. n \in 1 .. Len(p[b - 1].streams)
        BY <1>1, <1>3
    <2> HIDE DEF p
    <2> QED
        BY <2>2, <2>3, ElementOfSeq
<1> HIDE DEF p
<1>6. p[b - 1].streams[n] = [host |-> p[b - 1].streams[n].host, port |-> sdp[a].port]
    BY <1>3, <1>5
<1> QED
    BY <1>4, <1>6 DEF p

\* parseTapAnswer reads of the nth audio section what a peer does.
LEMMA TapStreamIs ==
    ASSUME NEW sdp \in Description, WellFormed(sdp), NEW n, NEW a, NEW b, Between(sdp, n, a, b),
           ~Overwritten(sdp, a), ~Borrowed(sdp, a)
    PROVE  TapPass(sdp)[Len(sdp)].streams[n] = StreamAt(sdp, a)
<1> DEFINE p == TapPass(sdp)
           own == OwnConns(sdp, a)
           first == FirstAudio(sdp)
<1>1. /\ Len(sdp) \in Nat /\ a \in 1 .. Len(sdp) /\ b \in a + 1 .. Len(sdp) + 1 /\ n \in Nat \ {0}
      /\ a \in Lines(sdp, IsAudio) /\ a \in Lines(sdp, IsMedia)
      /\ b <= Len(sdp) => b \in Lines(sdp, IsAudio)
      /\ \A i \in Lines(sdp, IsAudio) : i <= a \/ b <= i
    BY DescriptionLines DEF Between
<1>2. PICK j \in Lines(sdp, IsConn) :
            /\ Governing(sdp, a) = {j}
            /\ StreamAt(sdp, a) = [host |-> sdp[j].addr, port |-> sdp[a].port]
    BY <1>1, StreamAtIs
<1>3. ConnsBetween(sdp, a, b) = own
    <2>1. ASSUME NEW c \in Lines(sdp, IsConn), a < c, c < b PROVE c <= SectionEnd(sdp, a)
        <3>1. c \in 1 .. Len(sdp) /\ SectionEnd(sdp, a) \in a .. Len(sdp)
            BY <1>1, DescriptionLines, SectionEndIs
        <3>2. \A i \in Lines(sdp, IsAudio) : i <= a \/ i > c
            <4> TAKE i \in Lines(sdp, IsAudio)
            <4>1. i \in 1 .. Len(sdp) /\ (i <= a \/ b <= i)
                BY <1>1, DescriptionLines
            <4> QED
                BY <1>1, <2>1, <3>1, <4>1
        <3>3. ~(c > SectionEnd(sdp, a))
            BY <3>2 DEF Overwritten
        <3> QED
            BY <3>1, <3>3
    <2>2. ASSUME NEW c \in own PROVE c \in Lines(sdp, IsConn) /\ a < c /\ c < b
        <3>1. c \in Lines(sdp, IsConn) /\ a < c /\ c <= SectionEnd(sdp, a)
            BY DEF OwnConns
        <3>2. c \in a + 1 .. Len(sdp)
            <4>1. c \in 1 .. Len(sdp)
                BY <3>1, DescriptionLines
            <4> QED
                BY <1>1, <3>1, <4>1
        <3>3. \A v \in Lines(sdp, IsMedia) : v <= a \/ c < v
            BY <1>1, <3>1, <3>2, SectionEndIs
        <3>4. b <= Len(sdp) => b \in Lines(sdp, IsMedia)
            BY <1>1, DescriptionLines
        <3> QED
            BY <1>1, <3>1, <3>2, <3>3, <3>4
    <2> QED
        BY <2>1, <2>2 DEF ConnsBetween, OwnConns
<1>4. p[b - 1].streams[n].host = sdp[j].addr
    <2>1. CASE own # {}
        <3>1. own = {j}
            BY <1>2, <2>1 DEF Governing
        <3> QED
            BY <1>3, <3>1, StreamHost
    <2>2. CASE own = {}
        <3>1. p[b - 1].streams[n].host = p[a - 1].session
            BY <1>3, <2>2, StreamHost
        <3>2. /\ first \in Lines(sdp, IsAudio) /\ first \in 1 .. Len(sdp)
              /\ \A i \in Lines(sdp, IsAudio) : first <= i
            BY <1>1, FirstAudioIs
        <3>3. p[a - 1].session = p[first - 1].session
            <4>1. a - 1 \in first - 1 .. Len(sdp)
                BY <1>1, <3>2
            <4> QED
                BY <1>1, <4>1, SessionStays
        <3>4. {i \in Lines(sdp, IsConn) : i < First(sdp, IsMedia)} = {j}
            BY <1>2, <2>2 DEF Governing
        <3>5. /\ First(sdp, IsMedia) \in Lines(sdp, IsMedia)
              /\ \A v \in Lines(sdp, IsMedia) : First(sdp, IsMedia) <= v
              /\ Lines(sdp, IsMedia) \subseteq 1 .. Len(sdp)
            <4>1. Lines(sdp, IsMedia) \subseteq 1 .. Len(sdp)
                BY DescriptionLines
            <4> QED
                BY <1>1, <4>1, FirstOf DEF First
        <3>6. {i \in Lines(sdp, IsConn) : i < first} = {j}
            <4>1. ASSUME NEW c \in Lines(sdp, IsConn), c < first PROVE c < First(sdp, IsMedia)
                <5> SUFFICES ASSUME ~(c < First(sdp, IsMedia)) PROVE FALSE
                    OBVIOUS
                <5>1. c \in 1 .. Len(sdp) /\ c \notin Lines(sdp, IsMedia)
                    BY DescriptionLines
                <5>2. First(sdp, IsMedia) < c
                    BY <3>5, <5>1
                <5>3. PICK v \in Lines(sdp, IsMedia) : v < c /\ c \in OwnConns(sdp, v)
                    BY <3>5, <5>2, InSection
                <5>4. v < first
                    BY <1>1, <3>2, <3>5, <4>1, <5>1, <5>3
                <5> QED
                    BY <2>2, <5>3, <5>4 DEF Borrowed
            <4>2. First(sdp, IsMedia) <= first
                BY <3>2, <3>5, DescriptionLines
            <4>3. ASSUME NEW c \in Lines(sdp, IsConn), c < First(sdp, IsMedia) PROVE c < first
                <5>1. c \in 1 .. Len(sdp) /\ First(sdp, IsMedia) \in 1 .. Len(sdp)
                    BY <3>5, DescriptionLines
                <5> QED
                    BY <3>2, <4>2, <4>3, <5>1
            <4> QED
                BY <3>4, <4>1, <4>3
        <3>7. p[first - 1].session = sdp[j].addr
            <4>1. first \in 1 .. Len(sdp) + 1
                BY <1>1, <3>2
            <4> QED
                BY <3>2, <3>6, <4>1, BeforeAudio
        <3> QED
            BY <3>1, <3>3, <3>7
    <2> QED
        BY <2>1, <2>2
<1>5. p[Len(sdp)].streams[n] = [host |-> p[b - 1].streams[n].host, port |-> sdp[a].port]
    BY FinalStream
<1> QED
    BY <1>2, <1>4, <1>5 DEF p

\* No two audio lines have the same number.
LEMMA NthAudioIs ==
    ASSUME NEW sdp \in Description, NEW n, NEW i \in Lines(sdp, IsAudio),
           Cardinality({j \in Lines(sdp, IsAudio) : j <= i}) = n
    PROVE  NthAudio(sdp, n) = i
<1> DEFINE upto(k) == {j \in Lines(sdp, IsAudio) : j <= k}
<1>1. Len(sdp) \in Nat /\ \A k \in Lines(sdp, IsAudio) : k \in 1 .. Len(sdp)
    BY DescriptionLines
<1>2. ASSUME NEW k \in Lines(sdp, IsAudio) PROVE IsFiniteSet(upto(k))
    <2>1. upto(k) \subseteq 1 .. Len(sdp)
        BY <1>1
    <2>2. IsFiniteSet(1 .. Len(sdp))
        BY <1>1, FS_Interval
    <2> HIDE DEF upto
    <2> QED
        BY <2>1, <2>2, FS_Subset
<1>3. ASSUME NEW k \in Lines(sdp, IsAudio), NEW m \in Lines(sdp, IsAudio), k < m
      PROVE  Cardinality(upto(k)) # Cardinality(upto(m))
    <2>1. upto(k) \subseteq upto(m)
        BY <1>1, <1>3
    <2>2. m \in upto(m) /\ m \notin upto(k)
        BY <1>1, <1>3
    <2>3. IsFiniteSet(upto(m))
        BY <1>2
    <2> HIDE DEF upto
    <2> QED
        BY <2>1, <2>2, <2>3, FS_Subset
<1>4. \A k \in Lines(sdp, IsAudio) : Cardinality(upto(k)) = n => k = i
    <2> SUFFICES ASSUME NEW k \in Lines(sdp, IsAudio), Cardinality(upto(k)) = n, k # i PROVE FALSE
        OBVIOUS
    <2>1. k < i \/ i < k
        BY <1>1
    <2>2. Cardinality(upto(i)) = n
        OBVIOUS
    <2> HIDE DEF upto
    <2> QED
        BY <1>3, <2>1, <2>2
<1>5. NthAudio(sdp, n) = CHOOSE k \in Lines(sdp, IsAudio) : Cardinality(upto(k)) = n
    BY DEF NthAudio
<1>6. Cardinality(upto(i)) = n
    OBVIOUS
<1> HIDE DEF upto
<1> QED
    BY <1>4, <1>5, <1>6

\* The first two audio lines, at a and at b.
TwoAudio(sdp, a, b) ==
    /\ a \in Lines(sdp, IsAudio) /\ b \in Lines(sdp, IsAudio) /\ a < b
    /\ \A i \in Lines(sdp, IsAudio) : a <= i /\ (i <= a \/ b <= i)

\* The first two audio lines open the first two streams.
LEMMA TwoAudioIs ==
    ASSUME NEW sdp \in Description, NEW a, NEW b, TwoAudio(sdp, a, b)
    PROVE  /\ NthAudio(sdp, 1) = a /\ NthAudio(sdp, 2) = b
           /\ Between(sdp, 1, a, b) /\ \E c : Between(sdp, 2, b, c)
<1> DEFINE p == TapPass(sdp)
<1>1. /\ Len(sdp) \in Nat /\ a \in 1 .. Len(sdp) /\ b \in 1 .. Len(sdp) /\ a < b
      /\ a \in Lines(sdp, IsAudio) /\ b \in Lines(sdp, IsAudio)
      /\ \A i \in Lines(sdp, IsAudio) : i \in 1 .. Len(sdp) /\ a <= i /\ (i <= a \/ b <= i)
    BY DescriptionLines DEF TwoAudio
<1>2. NthAudio(sdp, 1) = a
    <2>1. {j \in Lines(sdp, IsAudio) : j <= a} = {a}
        <3>1. \A j \in Lines(sdp, IsAudio) : j <= a <=> j = a
            BY <1>1
        <3> QED
            BY <1>1, <3>1
    <2>2. Cardinality({j \in Lines(sdp, IsAudio) : j <= a}) = 1
        BY <2>1, FS_Singleton
    <2> QED
        BY <1>1, <2>2, NthAudioIs
<1>3. NthAudio(sdp, 2) = b
    <2>1. {j \in Lines(sdp, IsAudio) : j <= b} = {a} \cup {b}
        <3>1. \A j \in Lines(sdp, IsAudio) : j <= b <=> j = a \/ j = b
            BY <1>1
        <3> QED
            BY <1>1, <3>1
    <2>2. IsFiniteSet({a}) /\ Cardinality({a}) = 1
        BY FS_Singleton
    <2>3. b \notin {a}
        BY <1>1
    <2>4. Cardinality({a} \cup {b}) = 1 + 1
        BY <2>2, <2>3, FS_AddElement
    <2>5. Cardinality({j \in Lines(sdp, IsAudio) : j <= b}) = 2
        BY <2>1, <2>4
    <2> QED
        BY <1>1, <2>5, NthAudioIs
<1>4. Between(sdp, 1, a, b)
    <2>1. a \in 1 .. Len(sdp) + 1 /\ a - 1 \in 0 .. a - 1 /\ 1 - 1 = 0 /\ b \in a + 1 .. Len(sdp) + 1
        BY <1>1
    <2>2. Len(p[a - 1].streams) = 0
        BY <1>1, <2>1, BeforeAudio
    <2> QED
        BY <1>1, <2>1, <2>2 DEF Between
<1>5. PICK c \in b + 1 .. Len(sdp) + 1 :
            /\ c <= Len(sdp) => c \in Lines(sdp, IsAudio)
            /\ \A i \in Lines(sdp, IsAudio) : i <= b \/ c <= i
    BY <1>1, NextAudio
<1>6. Len(p[b - 1].streams) = 1
    <2>1. PICK n : Between(sdp, n, a, b)
        BY <1>4
    <2>2. \A k \in a .. b - 1 : Len(p[k].streams) = n /\ p[k].streams[n].port = sdp[a].port
        BY <2>1, StreamHeld
    <2>3. b - 1 \in a .. b - 1
        BY <1>1
    <2>4. n = 1
        BY <1>4, <2>1 DEF Between
    <2> HIDE DEF p
    <2> QED
        BY <2>2, <2>3, <2>4
<1>7. Between(sdp, 2, b, c)
    BY <1>1, <1>5, <1>6 DEF Between
<1> QED
    BY <1>2, <1>3, <1>4, <1>7

\* parseTapAnswer finds two streams only if there are two audio lines.
LEMMA TwoStreams ==
    ASSUME NEW sdp \in Description, Len(TapPass(sdp)[Len(sdp)].streams) >= 2
    PROVE  \E a, b : TwoAudio(sdp, a, b)
<1> DEFINE p == TapPass(sdp)
<1>1. Len(sdp) \in Nat /\ \A i \in Lines(sdp, IsAudio) : i \in 1 .. Len(sdp)
    BY DescriptionLines
<1>2. Lines(sdp, IsAudio) # {}
    <2> SUFFICES ASSUME Lines(sdp, IsAudio) = {} PROVE FALSE
        OBVIOUS
    <2>1. Len(sdp) + 1 \in 1 .. Len(sdp) + 1 /\ Len(sdp) \in 0 .. (Len(sdp) + 1) - 1
        BY <1>1
    <2>2. \A k \in 0 .. (Len(sdp) + 1) - 1 : Len(p[k].streams) = 0
        BY <2>1, BeforeAudio
    <2>3. Len(p[Len(sdp)].streams) = 0
        BY <2>1, <2>2
    <2> QED
        BY <2>3
<1>3. PICK a : a = FirstAudio(sdp)
    OBVIOUS
<1>4. a \in Lines(sdp, IsAudio) /\ \A i \in Lines(sdp, IsAudio) : a <= i
    BY <1>2, <1>3, FirstAudioIs
<1>5. PICK b \in a + 1 .. Len(sdp) + 1 :
            /\ b <= Len(sdp) => b \in Lines(sdp, IsAudio)
            /\ \A i \in Lines(sdp, IsAudio) : i <= a \/ b <= i
    BY <1>4, NextAudio
<1>6. b <= Len(sdp)
    <2> SUFFICES ASSUME ~(b <= Len(sdp)) PROVE FALSE
        OBVIOUS
    <2>1. b = Len(sdp) + 1 /\ a \in 1 .. Len(sdp) + 1 /\ a - 1 \in 0 .. a - 1
        BY <1>1, <1>4, <1>5
    <2>2. Len(p[a - 1].streams) = 0
        BY <1>4, <2>1, BeforeAudio
    <2>3. Between(sdp, 1, a, b)
        BY <1>1, <1>4, <1>5, <2>2 DEF Between
    <2>4. PICK n : Between(sdp, n, a, b)
        BY <2>3
    <2>5. \A k \in a .. b - 1 : Len(p[k].streams) = n /\ p[k].streams[n].port = sdp[a].port
        BY <2>4, StreamHeld
    <2>6. Len(sdp) \in a .. b - 1
        BY <1>1, <1>4, <2>1
    <2>7. Len(p[Len(sdp)].streams) = 1
        <3>1. n = 1
            BY <2>3, <2>4 DEF Between
        <3> HIDE DEF p
        <3> QED
            BY <2>5, <2>6, <3>1
    <2> QED
        BY <2>7
<1>7. TwoAudio(sdp, a, b)
    BY <1>1, <1>4, <1>5, <1>6 DEF TwoAudio
<1> QED
    BY <1>7

\* parseTapAnswer reads the first two audio sections, as a peer does.
LEMMA TapAnswerRead ==
    ASSUME NEW sdp \in Description, WellFormed(sdp), parseTapAnswer(sdp) # Nil, NEW n \in 1 .. 2,
           ~Overwritten(sdp, NthAudio(sdp, n)), ~Borrowed(sdp, NthAudio(sdp, n))
    PROVE  parseTapAnswer(sdp)[n] = StreamAt(sdp, NthAudio(sdp, n))
<1>1. PICK s : s = TapPass(sdp)[Len(sdp)].streams
    OBVIOUS
<1>2. ~(Len(s) < 2) /\ parseTapAnswer(sdp) = <<s[1], s[2]>>
    BY <1>1 DEF parseTapAnswer
<1>3. Len(s) \in Nat
    <2>1. Len(sdp) \in 0 .. Len(sdp)
        BY DescriptionLines
    <2>2. TapPass(sdp)[Len(sdp)] \in TapStates
        BY <2>1, TapPassSteps
    <2> QED
        BY <1>1, <2>2 DEF TapStates, Streams
<1>4. Len(TapPass(sdp)[Len(sdp)].streams) >= 2
    BY <1>1, <1>2, <1>3
<1>5. PICK a, b : TwoAudio(sdp, a, b)
    BY <1>4, TwoStreams
<1>6. /\ NthAudio(sdp, 1) = a /\ NthAudio(sdp, 2) = b
      /\ Between(sdp, 1, a, b) /\ \E c : Between(sdp, 2, b, c)
    BY <1>5, TwoAudioIs
<1>7. PICK m, d, e : m = n /\ d = NthAudio(sdp, n) /\ Between(sdp, m, d, e)
    BY <1>6
<1>8. TapPass(sdp)[Len(sdp)].streams[m] = StreamAt(sdp, d)
    BY <1>7, TapStreamIs
<1>9. parseTapAnswer(sdp)[n] = s[n]
    BY <1>2
<1> QED
    BY <1>1, <1>7, <1>8, <1>9

-----------------------------------------------------------------------------
(* The recorder's answer *)

\* The positions in at, of 1 .. n, are e[1] < e[2] < ... < e[m].
Enumerates(e, m, at, n) ==
    /\ m \in Nat /\ e \in [1 .. m -> 1 .. n]
    /\ \A i, j \in 1 .. m : i < j => e[i] < e[j]
    /\ \A i \in 1 .. n : i \in at <=> \E j \in 1 .. m : e[j] = i

\* What Keep keeps, in order.
LEMMA KeepAt ==
    ASSUME NEW T, NEW s \in Seq(T), NEW at, NEW m, NEW e, Enumerates(e, m, at, Len(s))
    PROVE  /\ Len(Keep(s, at)) = m
           /\ \A j \in 1 .. m : Keep(s, at)[j] = s[e[j]]
<1> DEFINE n == Len(s)
           p == KeepPass(s, at)
           Kept(k, c) == /\ Len(p[k]) = c
                         /\ \A j \in 1 .. c : e[j] <= k /\ p[k][j] = s[e[j]]
                         /\ \A j \in c + 1 .. m : e[j] > k
           S == {k \in 0 .. n : \E c \in 0 .. m : Kept(k, c)}
<1>0. m \in Nat /\ e \in [1 .. m -> 1 .. n] /\ \A i, j \in 1 .. m : i < j => e[i] < e[j]
    BY DEF Enumerates
<1>1. n \in Nat /\ (\A i \in 1 .. n : s[i] \in T) /\ \A j \in 1 .. m : e[j] \in 1 .. n
    BY <1>0
<1>2. /\ p[0] = <<>>
      /\ \A i \in 1 .. n : p[i] = IF i \in at THEN Append(p[i - 1], s[i]) ELSE p[i - 1]
      /\ \A i \in 0 .. n : p[i] \in Seq(T)
    BY KeepSteps
<1>3. \A i \in 1 .. n : i \in at <=> \E j \in 1 .. m : e[j] = i
    BY DEF Enumerates
<1> HIDE DEF p, n
<1>4. 0 \in S
    <2>1. Kept(0, 0)
        BY <1>1, <1>2
    <2>2. 0 \in 0 .. m /\ 0 \in 0 .. n
        BY <1>0, <1>1
    <2> HIDE DEF Kept
    <2> QED
        BY <2>1, <2>2
<1>5. ASSUME NEW k \in 0 .. n - 1, k \in S PROVE k + 1 \in S
    <2>1. k + 1 \in 1 .. n /\ (k + 1) - 1 = k /\ k \in 0 .. n /\ k + 1 \in 0 .. n
        BY <1>1
    <2>2. PICK c \in 0 .. m : Kept(k, c)
        BY <1>5
    <2>3. p[k] \in Seq(T) /\ p[k + 1] = IF k + 1 \in at THEN Append(p[k], s[k + 1]) ELSE p[k]
        BY <1>2, <2>1
    <2>4. CASE k + 1 \in at
        <3>1. PICK j \in 1 .. m : e[j] = k + 1
            BY <1>3, <2>1, <2>4
        <3>2. j = c + 1
            <4>1. ~(j <= c)
                BY <1>0, <1>1, <2>1, <2>2, <3>1
            <4>2. ~(j > c + 1)
                <5> SUFFICES ASSUME j > c + 1 PROVE FALSE
                    OBVIOUS
                <5>1. c + 1 \in 1 .. m /\ c + 1 \in c + 1 .. m
                    BY <1>0
                <5>2. e[c + 1] < e[j] /\ e[c + 1] > k /\ e[c + 1] \in 1 .. n
                    BY <1>0, <1>1, <2>2, <5>1
                <5> QED
                    BY <2>1, <3>1, <5>2
            <4> QED
                BY <1>0, <4>1, <4>2
        <3>3. p[k + 1] = Append(p[k], s[k + 1]) /\ Len(p[k]) = c
            BY <2>2, <2>3, <2>4
        <3>4. s[k + 1] \in T
            BY <1>1, <2>1
        <3>5. /\ Len(p[k + 1]) = c + 1 /\ p[k + 1][c + 1] = s[k + 1]
              /\ \A i \in 1 .. c : p[k + 1][i] = p[k][i]
            <4>1. PICK q, x : q = p[k] /\ x = s[k + 1]
                OBVIOUS
            <4>2. q \in Seq(T) /\ x \in T /\ Len(q) = c /\ p[k + 1] = Append(q, x)
                BY <2>3, <3>3, <3>4, <4>1
            <4>3. /\ Len(Append(q, x)) = c + 1 /\ Append(q, x)[c + 1] = x
                  /\ \A i \in 1 .. c : Append(q, x)[i] = q[i]
                BY <4>2
            <4> QED
                BY <4>1, <4>2, <4>3
        <3>6. ASSUME NEW i \in 1 .. c + 1 PROVE e[i] <= k + 1 /\ p[k + 1][i] = s[e[i]]
            <4>1. CASE i \in 1 .. c
                <5>1. e[i] <= k /\ p[k][i] = s[e[i]] /\ e[i] \in 1 .. n
                    BY <1>0, <1>1, <2>2, <4>1
                <5> QED
                    BY <2>1, <3>5, <4>1, <5>1
            <4>2. CASE i = c + 1
                BY <2>1, <3>1, <3>2, <3>5, <4>2
            <4> QED
                BY <4>1, <4>2
        <3>7. ASSUME NEW i \in (c + 1) + 1 .. m PROVE e[i] > k + 1
            <4>1. i \in 1 .. m /\ j < i
                BY <1>0, <3>2
            <4>2. e[j] < e[i] /\ e[i] \in 1 .. n
                BY <1>0, <1>1, <4>1
            <4> QED
                BY <1>1, <3>1, <4>2
        <3>8. Kept(k + 1, c + 1) /\ c + 1 \in 0 .. m
            BY <1>0, <3>2, <3>5, <3>6, <3>7
        <3> HIDE DEF Kept
        <3> QED
            BY <2>1, <3>8
    <2>5. CASE k + 1 \notin at
        <3>1. p[k + 1] = p[k]
            BY <2>3, <2>5
        <3>2. ASSUME NEW i \in c + 1 .. m PROVE e[i] > k + 1
            <4>1. i \in 1 .. m /\ e[i] \in 1 .. n /\ e[i] > k
                BY <1>0, <1>1, <2>2
            <4>2. e[i] # k + 1
                BY <1>3, <2>1, <2>5, <4>1
            <4> QED
                BY <2>1, <4>1, <4>2
        <3>3. ASSUME NEW i \in 1 .. c PROVE e[i] <= k + 1
            <4>1. e[i] \in 1 .. n /\ e[i] <= k
                BY <1>0, <1>1, <2>2
            <4> QED
                BY <2>1, <4>1
        <3>4. Kept(k + 1, c)
            BY <2>2, <3>1, <3>2, <3>3
        <3> HIDE DEF Kept
        <3> QED
            BY <2>1, <3>4
    <2> QED
        BY <2>4, <2>5
<1>6. n \in S
    <2> HIDE DEF S
    <2> QED
        BY <1>1, <1>4, <1>5, UpTo, n \in 0 .. n
<1>7. PICK c \in 0 .. m : Kept(n, c)
    BY <1>6
<1>8. c = m
    <2> SUFFICES ASSUME c # m PROVE FALSE
        OBVIOUS
    <2>1. c + 1 \in 1 .. m /\ c + 1 \in c + 1 .. m
        BY <1>0
    <2>2. e[c + 1] > n /\ e[c + 1] \in 1 .. n
        BY <1>1, <1>7, <2>1
    <2> QED
        BY <1>1, <2>2
<1>9. Keep(s, at) = p[n]
    BY DEF Keep, p, n
<1> QED
    BY <1>0, <1>7, <1>8, <1>9

\* The codecs read from the section of a block are those it was written with.
LEMMA CodecsCopied ==
    ASSUME NEW c \in Codecs, NEW r, MapsFirst(c.attrs, r), NEW s \in Description,
           Len(s) = Len(c.attrs) + 2, IsConn(s[1]), s[Len(c.attrs) + 2].k = "dir",
           \A k \in 1 .. Len(c.attrs) : s[k + 1] = c.attrs[k]
    PROVE  CodecsOf(c.fmts, s) = c
<1> DEFINE attrs == c.attrs
           n == Len(attrs)
           maps == Lines(s, IsRtpmap)
           fmtps == Lines(s, IsFmtp)
<1>1. attrs \in Seq(Line) /\ n \in Nat /\ r \in 0 .. n /\ Len(s) = n + 2 /\ s \in Seq(Line)
    BY DEF Codecs, Description, MapsFirst
<1>2. /\ DOMAIN s = 1 .. n + 2 /\ s[1].k = "c" /\ s[n + 2].k = "dir"
      /\ \A k \in 1 .. n : s[k + 1] = attrs[k]
    BY <1>1, DescriptionLines DEF IsConn
<1>3. /\ \A k \in 1 .. r : attrs[k].k = "rtpmap"
      /\ \A k \in r + 1 .. n : attrs[k].k = "fmtp"
    BY DEF MapsFirst
<1>4. c = [fmts |-> c.fmts, attrs |-> attrs]
    BY DEF Codecs
<1> HIDE DEF attrs, n
<1>5. ASSUME NEW i \in 1 .. n + 2
      PROVE  /\ i \in 2 .. r + 1 => s[i].k = "rtpmap"
             /\ i \in r + 2 .. n + 1 => s[i].k = "fmtp"
             /\ i = 1 \/ i = n + 2 => s[i].k \in {"c", "dir"}
             /\ i = 1 \/ i \in 2 .. r + 1 \/ i \in r + 2 .. n + 1 \/ i = n + 2
    <2>1. ASSUME i \in 2 .. r + 1 PROVE s[i].k = "rtpmap"
        <3>1. i - 1 \in 1 .. r /\ i - 1 \in 1 .. n /\ (i - 1) + 1 = i
            BY <1>1, <2>1
        <3> QED
            BY <1>2, <1>3, <3>1
    <2>2. ASSUME i \in r + 2 .. n + 1 PROVE s[i].k = "fmtp"
        <3>1. i - 1 \in r + 1 .. n /\ i - 1 \in 1 .. n /\ (i - 1) + 1 = i
            BY <1>1, <2>2
        <3> QED
            BY <1>2, <1>3, <3>1
    <2>3. i = 1 \/ i = n + 2 => s[i].k \in {"c", "dir"}
        BY <1>2
    <2>4. i = 1 \/ i \in 2 .. r + 1 \/ i \in r + 2 .. n + 1 \/ i = n + 2
        BY <1>1
    <2> QED
        BY <2>1, <2>2, <2>3, <2>4
<1>6. \A i \in 1 .. n + 2 : i \in maps <=> i \in 2 .. r + 1
    <2> TAKE i \in 1 .. n + 2
    <2>1. i \in maps <=> s[i].k = "rtpmap"
        BY <1>2 DEF Lines, IsRtpmap
    <2> QED
        BY <1>5, <2>1
<1>7. \A i \in 1 .. n + 2 : i \in fmtps <=> i \in r + 2 .. n + 1
    <2> TAKE i \in 1 .. n + 2
    <2>1. i \in fmtps <=> s[i].k = "fmtp"
        BY <1>2 DEF Lines, IsFmtp
    <2> QED
        BY <1>5, <2>1
<1> HIDE DEF maps, fmtps
<1>8. PICK R : R = Keep(s, maps)
    OBVIOUS
<1>9. PICK F : F = Keep(s, fmtps)
    OBVIOUS
<1>10. R \in Seq(Line) /\ Len(R) = r /\ \A j \in 1 .. r : R[j] = attrs[j]
    <2>1. PICK e : e = [j \in 1 .. r |-> j + 1]
        OBVIOUS
    <2>2. r \in Nat /\ e \in [1 .. r -> 1 .. Len(s)] /\ \A j \in 1 .. r : e[j] = j + 1
        BY <1>1, <2>1
    <2>3. \A i, j \in 1 .. r : i < j => e[i] < e[j]
        BY <1>1, <2>2
    <2>4. \A i \in 1 .. Len(s) : i \in maps <=> \E j \in 1 .. r : e[j] = i
        <3> TAKE i \in 1 .. Len(s)
        <3>1. i \in 1 .. n + 2
            BY <1>1
        <3>2. ASSUME i \in 2 .. r + 1 PROVE \E j \in 1 .. r : e[j] = i
            <4>1. i - 1 \in 1 .. r /\ e[i - 1] = i
                BY <1>1, <2>2, <3>2
            <4> QED
                BY <4>1
        <3>3. ASSUME NEW j \in 1 .. r, e[j] = i PROVE i \in 2 .. r + 1
            BY <1>1, <2>2, <3>3
        <3> QED
            BY <1>6, <3>1, <3>2, <3>3
    <2>5. Len(R) = r /\ \A j \in 1 .. r : R[j] = s[e[j]]
        <3>1. Enumerates(e, r, maps, Len(s))
            BY <2>2, <2>3, <2>4 DEF Enumerates
        <3> QED
            BY <1>1, <1>8, <3>1, KeepAt
    <2>6. \A j \in 1 .. r : R[j] = attrs[j]
        BY <1>1, <1>2, <2>2, <2>5
    <2> QED
        BY <1>1, <1>8, <2>5, <2>6, KeepFrom
<1>11. F \in Seq(Line) /\ Len(F) = n - r /\ \A j \in 1 .. n - r : F[j] = attrs[r + j]
    <2>0. PICK m \in Nat : m = n - r
        BY <1>1
    <2>1. PICK e : e = [j \in 1 .. m |-> (r + j) + 1]
        OBVIOUS
    <2>2. e \in [1 .. m -> 1 .. Len(s)] /\ \A j \in 1 .. m : e[j] = (r + j) + 1
        BY <1>1, <2>0, <2>1
    <2>3. \A i, j \in 1 .. m : i < j => e[i] < e[j]
        BY <1>1, <2>2
    <2>4. \A i \in 1 .. Len(s) : i \in fmtps <=> \E j \in 1 .. m : e[j] = i
        <3> TAKE i \in 1 .. Len(s)
        <3>1. i \in 1 .. n + 2
            BY <1>1
        <3>2. ASSUME i \in r + 2 .. n + 1 PROVE \E j \in 1 .. m : e[j] = i
            <4>1. i - (r + 1) \in 1 .. m /\ e[i - (r + 1)] = i
                BY <1>1, <2>0, <2>2, <3>2
            <4> QED
                BY <4>1
        <3>3. ASSUME NEW j \in 1 .. m, e[j] = i PROVE i \in r + 2 .. n + 1
            BY <1>1, <2>0, <2>2, <3>3
        <3> QED
            BY <1>7, <3>1, <3>2, <3>3
    <2>5. Len(F) = m /\ \A j \in 1 .. m : F[j] = s[e[j]]
        <3>1. PICK k : k = m
            OBVIOUS
        <3>2. Enumerates(e, k, fmtps, Len(s))
            BY <2>2, <2>3, <2>4, <3>1 DEF Enumerates
        <3>3. Len(F) = k /\ \A j \in 1 .. k : F[j] = s[e[j]]
            BY <1>1, <1>9, <3>2, KeepAt
        <3> QED
            BY <3>1, <3>3
    <2>6. \A j \in 1 .. m : F[j] = attrs[r + j]
        <3> TAKE j \in 1 .. m
        <3>1. r + j \in 1 .. n /\ F[j] = s[(r + j) + 1]
            BY <1>1, <2>0, <2>2, <2>5
        <3> QED
            BY <1>2, <3>1
    <2> QED
        BY <1>1, <1>9, <2>0, <2>5, <2>6, KeepFrom
<1>12. R \o F = attrs
    <2>1. /\ R \o F \in Seq(Line) /\ Len(R \o F) = Len(R) + Len(F)
          /\ \A i \in 1 .. Len(R) + Len(F) :
                (R \o F)[i] = IF i <= Len(R) THEN R[i] ELSE F[i - Len(R)]
        BY <1>10, <1>11, ConcatProperties, ZenonT(30)
    <2>2. Len(R \o F) = n
        BY <1>1, <1>10, <1>11, <2>1
    <2>3. ASSUME NEW i \in 1 .. n PROVE (R \o F)[i] = attrs[i]
        <3>0. Len(R) = r /\ i \in 1 .. Len(R) + Len(F)
            BY <1>1, <1>10, <1>11
        <3>1. (R \o F)[i] = IF i <= r THEN R[i] ELSE F[i - r]
            BY <2>1, <3>0
        <3>2. CASE i <= r
            BY <1>1, <1>10, <3>1, <3>2
        <3>3. CASE ~(i <= r)
            <4>1. i - r \in 1 .. n - r /\ r + (i - r) = i
                BY <1>1, <3>3
            <4> QED
                BY <1>11, <3>1, <3>3, <4>1
        <3> QED
            BY <3>2, <3>3
    <2>4. Len(attrs) = n
        BY DEF n
    <2> QED
        BY <1>1, <2>1, <2>2, <2>3, <2>4, SeqEqual
<1>13. CodecsOf(c.fmts, s) = [fmts |-> c.fmts, attrs |-> R \o F]
    BY <1>8, <1>9 DEF CodecsOf, maps, fmtps
<1> QED
    BY <1>4, <1>12, <1>13

\* Two blocks, one after the other: what the tap is offered and what the recorder answers.
TwoBlocks(host, p1, p2, c) == Block(host, p1, c, "recvonly") \o Block(host, p2, c, "recvonly")

\* The lines of d after the first o are those of a block.
BlockAt(d, o, host, port, c) ==
    /\ d[o + 1] = AudioLine(port, c.fmts) /\ d[o + 2] = ConnLine(host)
    /\ \A k \in 1 .. Len(c.attrs) : d[o + (k + 2)] = c.attrs[k]
    /\ d[o + (Len(c.attrs) + 3)].k = "dir"

\* The lines of two blocks, by their positions.
LEMMA TwoBlocksAre ==
    ASSUME NEW host \in Text, NEW p1 \in Int, NEW p2 \in Int, NEW c \in Codecs
    PROVE  LET d == TwoBlocks(host, p1, p2, c)
               m == Len(c.attrs) + 3
           IN  /\ Len(c.attrs) \in Nat /\ d \in Description /\ Len(d) = m + m
               /\ BlockAt(d, 0, host, p1, c) /\ BlockAt(d, m, host, p2, c)
<1> DEFINE n == Len(c.attrs)
           m == n + 3
<1>1. PICK a, b : a = Block(host, p1, c, "recvonly") /\ b = Block(host, p2, c, "recvonly")
    OBVIOUS
<1>2. "recvonly" \in Text
    BY TextAssumption
<1>3. /\ n \in Nat /\ a \in Description /\ Len(a) = n + 3
      /\ a[1] = AudioLine(p1, c.fmts) /\ a[2] = ConnLine(host)
      /\ \A i \in 3 .. n + 2 : a[i] = c.attrs[i - 2]
      /\ a[n + 3] = DirLine("recvonly")
    BY <1>1, <1>2, BlockIs
<1>4. /\ b \in Description /\ Len(b) = n + 3
      /\ b[1] = AudioLine(p2, c.fmts) /\ b[2] = ConnLine(host)
      /\ \A i \in 3 .. n + 2 : b[i] = c.attrs[i - 2]
      /\ b[n + 3] = DirLine("recvonly")
    BY <1>1, <1>2, BlockIs
<1>5. PICK d : d = a \o b
    OBVIOUS
<1>6. /\ d \in Seq(Line) /\ Len(d) = Len(a) + Len(b)
      /\ \A i \in 1 .. Len(a) + Len(b) : d[i] = IF i <= Len(a) THEN a[i] ELSE b[i - Len(a)]
    BY <1>3, <1>4, <1>5, ConcatProperties DEF Description
<1> HIDE DEF n
<1>7. ASSUME NEW i \in 1 .. m PROVE d[0 + i] = a[i] /\ d[m + i] = b[i]
    <2>1. 0 + i = i /\ i \in 1 .. m + m /\ i <= m /\ m + i \in 1 .. m + m /\ ~(m + i <= m)
        BY <1>3
    <2>2. (m + i) - m = i
        BY <1>3
    <2> QED
        BY <1>3, <1>4, <1>6, <2>1, <2>2
<1>8. 1 \in 1 .. m /\ 2 \in 1 .. m /\ n + 3 \in 1 .. m
    BY <1>3
<1>9. \A k \in 1 .. n : k + 2 \in 1 .. m /\ k + 2 \in 3 .. n + 2 /\ (k + 2) - 2 = k
    BY <1>3
<1>10. DirLine("recvonly").k = "dir"
    BY DEF DirLine
<1>11. BlockAt(d, 0, host, p1, c)
    <2>1. d[0 + 1] = AudioLine(p1, c.fmts) /\ d[0 + 2] = ConnLine(host) /\ d[0 + (n + 3)].k = "dir"
        BY <1>3, <1>7, <1>8, <1>10
    <2>2. \A k \in 1 .. n : d[0 + (k + 2)] = c.attrs[k]
        BY <1>3, <1>7, <1>9
    <2> QED
        BY <2>1, <2>2 DEF BlockAt, n
<1>12. BlockAt(d, m, host, p2, c)
    <2>1. d[m + 1] = AudioLine(p2, c.fmts) /\ d[m + 2] = ConnLine(host) /\ d[m + (n + 3)].k = "dir"
        BY <1>4, <1>7, <1>8, <1>10
    <2>2. \A k \in 1 .. n : d[m + (k + 2)] = c.attrs[k]
        BY <1>4, <1>7, <1>9
    <2> QED
        BY <2>1, <2>2 DEF BlockAt, n
<1> QED
    BY <1>1, <1>3, <1>4, <1>5, <1>6, <1>11, <1>12 DEF TwoBlocks, Description, n

\* Which lines of two blocks are of which kind, and where the sections end.
LEMMA TwoBlockLines ==
    ASSUME NEW host \in Text, NEW p1 \in Int, NEW p2 \in Int, NEW c \in Codecs, OnlyMaps(c.attrs)
    PROVE  LET d == TwoBlocks(host, p1, p2, c)
               m == Len(c.attrs) + 3
           IN  /\ Lines(d, IsMedia) = {1, m + 1} /\ Lines(d, IsAudio) = {1, m + 1}
               /\ Lines(d, IsConn) = {2, m + 2}
<1> DEFINE n == Len(c.attrs)
<1>1. PICK d : d = TwoBlocks(host, p1, p2, c)
    OBVIOUS
<1>2. /\ n \in Nat /\ d \in Description /\ Len(d) = (n + 3) + (n + 3)
      /\ BlockAt(d, 0, host, p1, c) /\ BlockAt(d, n + 3, host, p2, c)
    BY <1>1, TwoBlocksAre
<1>3. PICK m \in Nat : m = n + 3
    BY <1>2
<1>4. DOMAIN d = 1 .. m + m
    BY <1>2, <1>3, DescriptionLines
<1>5. \A k \in 1 .. n : c.attrs[k].k \in {"rtpmap", "fmtp"}
    BY DEF OnlyMaps
<1>6. ASSUME NEW o, NEW port, BlockAt(d, o, host, port, c)
      PROVE  /\ IsMedia(d[o + 1]) /\ IsAudio(d[o + 1]) /\ ~IsConn(d[o + 1])
             /\ IsConn(d[o + 2]) /\ ~IsMedia(d[o + 2]) /\ ~IsAudio(d[o + 2])
             /\ \A k \in 3 .. m :
                    ~IsMedia(d[o + k]) /\ ~IsAudio(d[o + k]) /\ ~IsConn(d[o + k])
    <2>1. IsMedia(d[o + 1]) /\ IsAudio(d[o + 1]) /\ ~IsConn(d[o + 1])
        BY <1>6 DEF BlockAt, AudioLine, IsMedia, IsAudio, IsConn
    <2>2. IsConn(d[o + 2]) /\ ~IsMedia(d[o + 2]) /\ ~IsAudio(d[o + 2])
        BY <1>6 DEF BlockAt, ConnLine, IsMedia, IsAudio, IsConn
    <2>3. ASSUME NEW k \in 3 .. m PROVE d[o + k].k \in {"rtpmap", "fmtp", "dir"}
        <3>1. CASE k = m
            BY <1>3, <1>6, <3>1 DEF BlockAt
        <3>2. CASE k # m
            <4>1. k - 2 \in 1 .. n /\ (k - 2) + 2 = k
                BY <1>2, <1>3, <3>2
            <4>2. d[o + ((k - 2) + 2)] = c.attrs[k - 2]
                BY <1>6, <4>1 DEF BlockAt
            <4> QED
                BY <1>5, <4>1, <4>2
        <3> QED
            BY <3>1, <3>2
    <2>4. \A k \in 3 .. m : ~IsMedia(d[o + k]) /\ ~IsAudio(d[o + k]) /\ ~IsConn(d[o + k])
        BY <2>3 DEF IsMedia, IsAudio, IsConn
    <2> QED
        BY <2>1, <2>2, <2>4
<1>7. /\ IsMedia(d[1]) /\ IsAudio(d[1]) /\ ~IsConn(d[1])
      /\ IsConn(d[2]) /\ ~IsMedia(d[2]) /\ ~IsAudio(d[2])
      /\ \A k \in 3 .. m : ~IsMedia(d[k]) /\ ~IsAudio(d[k]) /\ ~IsConn(d[k])
    <2>1. 0 + 1 = 1 /\ 0 + 2 = 2 /\ \A k \in 3 .. m : 0 + k = k
        BY <1>3
    <2> QED
        BY <1>2, <1>6, <2>1
<1>8. /\ IsMedia(d[m + 1]) /\ IsAudio(d[m + 1]) /\ ~IsConn(d[m + 1])
      /\ IsConn(d[m + 2]) /\ ~IsMedia(d[m + 2]) /\ ~IsAudio(d[m + 2])
      /\ \A k \in 3 .. m : ~IsMedia(d[m + k]) /\ ~IsAudio(d[m + k]) /\ ~IsConn(d[m + k])
    BY <1>2, <1>3, <1>6
<1>9. m >= 3 /\ 1 \in DOMAIN d /\ 2 \in DOMAIN d /\ m + 1 \in DOMAIN d /\ m + 2 \in DOMAIN d
    BY <1>2, <1>3, <1>4
<1>10. ASSUME NEW i \in DOMAIN d
       PROVE  \/ i \in {1, 2, m + 1, m + 2}
              \/ ~IsMedia(d[i]) /\ ~IsAudio(d[i]) /\ ~IsConn(d[i])
    <2>1. CASE i <= m
        <3>1. i \in {1, 2} \/ i \in 3 .. m
            BY <1>4, <1>9, <2>1
        <3> QED
            BY <1>7, <3>1
    <2>2. CASE ~(i <= m)
        <3>1. i = m + 1 \/ i = m + 2 \/ i - m \in 3 .. m
            BY <1>4, <1>9, <2>2
        <3>2. m + (i - m) = i
            BY <1>4
        <3> QED
            BY <1>8, <3>1, <3>2
    <2> QED
        BY <2>1, <2>2
<1>11. Lines(d, IsMedia) = {1, m + 1}
    BY <1>7, <1>8, <1>9, <1>10 DEF Lines
<1>12. Lines(d, IsAudio) = {1, m + 1}
    BY <1>7, <1>8, <1>9, <1>10 DEF Lines
<1>13. Lines(d, IsConn) = {2, m + 2}
    BY <1>7, <1>8, <1>9, <1>10 DEF Lines
<1> QED
    BY <1>1, <1>3, <1>11, <1>12, <1>13

\* parseOffer reads two entries, each with the codecs that the blocks were written with.
LEMMA TwoBlockCodecs ==
    ASSUME NEW host \in Text, NEW p1 \in Int, NEW p2 \in Int, NEW c \in Codecs, OnlyMaps(c.attrs),
           NEW r, MapsFirst(c.attrs, r), c.fmts # <<>>
    PROVE  parseOffer(TwoBlocks(host, p1, p2, c)) = [n \in 1 .. 2 |-> c]
<1> DEFINE n == Len(c.attrs)
<1>1. PICK d : d = TwoBlocks(host, p1, p2, c)
    OBVIOUS
<1>2. /\ n \in Nat /\ d \in Description /\ Len(d) = (n + 3) + (n + 3)
      /\ BlockAt(d, 0, host, p1, c) /\ BlockAt(d, n + 3, host, p2, c)
    BY <1>1, TwoBlocksAre
<1>3. PICK m \in Nat : m = n + 3
    BY <1>2
<1>4. DOMAIN d = 1 .. m + m /\ Len(d) = m + m
    BY <1>2, <1>3, DescriptionLines
<1>5. Lines(d, IsMedia) = {1, m + 1} /\ Lines(d, IsAudio) = {1, m + 1}
    BY <1>1, <1>3, TwoBlockLines
<1>6. ASSUME NEW o \in {0, m}, NEW port, BlockAt(d, o, host, port, c)
      PROVE  CodecsOf(d[o + 1].fmts, Section(d, o + 1)) = c /\ d[o + 1].fmts # <<>>
    <2>1. o + 1 \in 1 .. Len(d) /\ o \in Nat
        BY <1>2, <1>3, <1>4
    <2>2. SectionEnd(d, o + 1) = o + m
        <3>1. SectionEnd(d, o + 1) \in o + 1 .. Len(d)
            BY <1>2, <2>1, SectionEndIs
        <3>2. \A j \in (o + 1) + 1 .. Len(d) :
                j <= SectionEnd(d, o + 1) <=> \A v \in Lines(d, IsMedia) : v <= o + 1 \/ j < v
            BY <1>2, <2>1, SectionEndIs
        <3>3. PICK e \in Int : e = SectionEnd(d, o + 1)
            BY <2>1, <3>1
        <3>4. o + m <= e
            <4>1. o + m \in (o + 1) + 1 .. Len(d)
                BY <1>2, <1>3, <1>4
            <4>2. \A v \in Lines(d, IsMedia) : v <= o + 1 \/ o + m < v
                BY <1>2, <1>3, <1>5
            <4> QED
                BY <3>2, <3>3, <4>1, <4>2
        <3>5. e <= o + m
            <4> SUFFICES ASSUME ~(e <= o + m) PROVE FALSE
                OBVIOUS
            <4>1. CASE o = 0
                <5>1. m + 1 \in (o + 1) + 1 .. Len(d) /\ m + 1 <= e
                    BY <1>2, <1>3, <1>4, <4>1
                <5>2. m + 1 <= o + 1 \/ m + 1 < m + 1
                    BY <1>5, <3>2, <3>3, <5>1
                <5> QED
                    BY <1>2, <1>3, <4>1, <5>2
            <4>2. CASE o = m
                BY <1>4, <3>1, <3>3, <4>2
            <4> QED
                BY <4>1, <4>2
        <3> QED
            BY <2>1, <3>3, <3>4, <3>5
    <2>3. PICK s : s = Section(d, o + 1)
        OBVIOUS
    <2>4. /\ s \in Description /\ Len(s) = SectionEnd(d, o + 1) - (o + 1)
          /\ \A k \in 1 .. SectionEnd(d, o + 1) - (o + 1) : s[k] = d[(o + 1) + k]
        BY <1>2, <2>1, <2>3, SectionIs
    <2>5. SectionEnd(d, o + 1) - (o + 1) = n + 2
        BY <1>2, <1>3, <2>1, <2>2
    <2>6. Len(s) = n + 2 /\ \A k \in 1 .. n + 2 : s[k] = d[o + (k + 1)]
        <3>1. \A k \in 1 .. n + 2 : (o + 1) + k = o + (k + 1)
            BY <1>2, <2>1
        <3> QED
            BY <2>4, <2>5, <3>1
    <2>7. 1 \in 1 .. n + 2 /\ n + 2 \in 1 .. n + 2 /\ 1 + 1 = 2 /\ (n + 2) + 1 = n + 3
        BY <1>2
    <2>8. IsConn(s[1]) /\ s[n + 2].k = "dir"
        <3>1. s[1] = d[o + 2] /\ s[n + 2] = d[o + (n + 3)]
            BY <2>6, <2>7
        <3> QED
            BY <1>6, <3>1 DEF BlockAt, ConnLine, IsConn
    <2>9. \A k \in 1 .. n : s[k + 1] = c.attrs[k]
        <3> TAKE k \in 1 .. n
        <3>1. k + 1 \in 1 .. n + 2 /\ (k + 1) + 1 = k + 2
            BY <1>2
        <3>2. s[k + 1] = d[o + (k + 2)]
            BY <2>6, <3>1
        <3> QED
            BY <1>6, <3>2 DEF BlockAt
    <2>10. CodecsOf(c.fmts, s) = c
        BY <2>4, <2>6, <2>8, <2>9, CodecsCopied
    <2>11. d[o + 1].fmts = c.fmts
        BY <1>6 DEF BlockAt, AudioLine
    <2> QED
        BY <2>3, <2>10, <2>11
<1>7. PICK q : q = [i \in DOMAIN d |-> i]
    OBVIOUS
<1>8. q \in Seq(Nat) /\ Len(q) = m + m /\ \A i \in 1 .. m + m : q[i] = i
    BY <1>4, <1>7
<1>9. PICK audio : audio = Keep(q, Lines(d, IsAudio))
    OBVIOUS
<1>10. audio \in Seq(Nat) /\ Len(audio) = 2 /\ audio[1] = 1 /\ audio[2] = m + 1
    <2>1. PICK e : e = [j \in 1 .. 2 |-> IF j = 1 THEN 1 ELSE m + 1]
        OBVIOUS
    <2>2. /\ e[1] = 1 /\ e[2] = m + 1 /\ 1 \in 1 .. m + m /\ m + 1 \in 1 .. m + m
          /\ \A j \in 1 .. 2 : j = 1 \/ j = 2
        BY <1>2, <1>3, <2>1
    <2>3. e \in [1 .. 2 -> 1 .. m + m]
        BY <2>1, <2>2
    <2>4. \A i, j \in 1 .. 2 : i < j => e[i] < e[j]
        BY <1>2, <1>3, <2>2
    <2>5. \A i \in 1 .. m + m : i \in Lines(d, IsAudio) <=> \E j \in 1 .. 2 : e[j] = i
        BY <1>5, <2>2
    <2>6. PICK two : two = 2
        OBVIOUS
    <2>7. Enumerates(e, two, Lines(d, IsAudio), Len(q))
        BY <1>8, <2>3, <2>4, <2>5, <2>6 DEF Enumerates
    <2>8. Len(audio) = two /\ \A j \in 1 .. two : audio[j] = q[e[j]]
        BY <1>8, <1>9, <2>7, KeepAt
    <2>9. audio[1] = q[1] /\ audio[2] = q[m + 1] /\ Len(audio) = 2
        BY <2>2, <2>6, <2>8
    <2>10. audio \in Seq(Nat)
        BY <1>8, <1>9, KeepFrom
    <2> QED
        BY <1>8, <2>2, <2>9, <2>10
<1>11. /\ CodecsOf(d[1].fmts, Section(d, 1)) = c /\ d[1].fmts # <<>>
       /\ CodecsOf(d[m + 1].fmts, Section(d, m + 1)) = c /\ d[m + 1].fmts # <<>>
    <2>1. CodecsOf(d[0 + 1].fmts, Section(d, 0 + 1)) = c /\ d[0 + 1].fmts # <<>>
        BY <1>2, <1>6
    <2>2. CodecsOf(d[m + 1].fmts, Section(d, m + 1)) = c /\ d[m + 1].fmts # <<>>
        BY <1>2, <1>3, <1>6
    <2>3. 0 + 1 = 1
        OBVIOUS
    <2> QED
        BY <2>1, <2>2, <2>3
<1>12. DOMAIN audio = 1 .. 2 /\ audio # <<>>
    <2>1. DOMAIN audio = 1 .. Len(audio)
        BY <1>10, LenProperties
    <2>2. Len(audio) = 2
        BY <1>10
    <2>3. Len(<<>>) = 0
        BY EmptySeq
    <2>4. Len(audio) # Len(<<>>)
        BY <2>2, <2>3
    <2>5. audio # <<>>
        BY <2>4
    <2> QED
        BY <2>1, <2>2, <2>5
<1>13. \A j \in DOMAIN audio :
            d[audio[j]].fmts # <<>> /\ CodecsOf(d[audio[j]].fmts, Section(d, audio[j])) = c
    BY <1>10, <1>11, <1>12
<1>14. parseOffer(d) = IF audio = <<>> \/ \E j \in DOMAIN audio : d[audio[j]].fmts = <<>> THEN Nil
                       ELSE [j \in DOMAIN audio |-> CodecsOf(d[audio[j]].fmts, Section(d, audio[j]))]
    BY <1>7, <1>9 DEF parseOffer
<1>15. parseOffer(d) = [j \in DOMAIN audio |-> CodecsOf(d[audio[j]].fmts, Section(d, audio[j]))]
    BY <1>12, <1>13, <1>14
<1> QED
    BY <1>1, <1>12, <1>13, <1>15

\* parseTapAnswer reads the two streams that the blocks were written with.
LEMMA TwoBlockStreams ==
    ASSUME NEW host \in Text, NEW p1 \in Int, NEW p2 \in Int, NEW c \in Codecs, OnlyMaps(c.attrs)
    PROVE  parseTapAnswer(TwoBlocks(host, p1, p2, c))
                = <<[host |-> host, port |-> p1], [host |-> host, port |-> p2]>>
<1> DEFINE n == Len(c.attrs)
<1>1. PICK d : d = TwoBlocks(host, p1, p2, c)
    OBVIOUS
<1>2. /\ n \in Nat /\ d \in Description /\ Len(d) = (n + 3) + (n + 3)
      /\ BlockAt(d, 0, host, p1, c) /\ BlockAt(d, n + 3, host, p2, c)
    BY <1>1, TwoBlocksAre
<1>3. PICK m \in Nat : m = n + 3
    BY <1>2
<1>4. Lines(d, IsAudio) = {1, m + 1} /\ Lines(d, IsConn) = {2, m + 2}
    BY <1>1, <1>3, TwoBlockLines
<1>5. m >= 3 /\ Len(d) = m + m
    BY <1>2, <1>3
<1>6. PICK a, b : a = 1 /\ b = m + 1
    OBVIOUS
<1>7. TwoAudio(d, a, b)
    BY <1>4, <1>5, <1>6 DEF TwoAudio
<1>8. Between(d, 1, a, b) /\ \E e : Between(d, 2, b, e)
    BY <1>2, <1>7, TwoAudioIs
<1>9. PICK e : Between(d, 2, b, e)
    BY <1>8
<1>10. e = m + m + 1
    <2>1. e \in b + 1 .. Len(d) + 1 /\ (e <= Len(d) => e \in Lines(d, IsAudio))
        BY <1>9 DEF Between
    <2> QED
        BY <1>4, <1>5, <1>6, <2>1
<1>11. ConnsBetween(d, a, b) = {2}
    BY <1>4, <1>5, <1>6 DEF ConnsBetween
<1>12. ConnsBetween(d, b, e) = {m + 2}
    BY <1>4, <1>5, <1>6, <1>10 DEF ConnsBetween
<1>13. /\ d[1].port = p1 /\ d[2].addr = host
       /\ d[m + 1].port = p2 /\ d[m + 2].addr = host
    <2>1. /\ d[0 + 1] = AudioLine(p1, c.fmts) /\ d[0 + 2] = ConnLine(host)
          /\ d[m + 1] = AudioLine(p2, c.fmts) /\ d[m + 2] = ConnLine(host)
        BY <1>2, <1>3 DEF BlockAt
    <2>2. 0 + 1 = 1 /\ 0 + 2 = 2
        OBVIOUS
    <2> QED
        BY <2>1, <2>2 DEF AudioLine, ConnLine
<1>14. PICK s : s = TapPass(d)[Len(d)].streams
    OBVIOUS
<1>15. ASSUME NEW k, NEW i, NEW f, NEW j, Between(d, k, i, f), ConnsBetween(d, i, f) = {j}
       PROVE  s[k] = [host |-> d[j].addr, port |-> d[i].port] /\ Len(s) >= k
    <2>1. /\ Len(s) >= k
          /\ s[k] = [host |-> TapPass(d)[f - 1].streams[k].host, port |-> d[i].port]
        <3>1. d \in Description
            BY <1>2
        <3>2. /\ Len(TapPass(d)[Len(d)].streams) >= k
              /\ TapPass(d)[Len(d)].streams[k]
                    = [host |-> TapPass(d)[f - 1].streams[k].host, port |-> d[i].port]
            BY <1>15, <3>1, FinalStream
        <3> QED
            BY <1>14, <3>2
    <2>2. TapPass(d)[f - 1].streams[k].host = d[j].addr
        BY <1>2, <1>15, StreamHost
    <2> QED
        BY <2>1, <2>2
<1>16. s[1] = [host |-> host, port |-> p1]
    <2>1. s[1] = [host |-> d[2].addr, port |-> d[a].port]
        BY <1>8, <1>11, <1>15
    <2> QED
        BY <1>6, <1>13, <2>1
<1>17. s[2] = [host |-> host, port |-> p2] /\ Len(s) >= 2
    <2>1. s[2] = [host |-> d[m + 2].addr, port |-> d[b].port] /\ Len(s) >= 2
        BY <1>9, <1>12, <1>15
    <2> QED
        BY <1>6, <1>13, <2>1
<1>18. Len(s) \in Nat
    <2>1. Len(d) \in 0 .. Len(d)
        BY <1>2, DescriptionLines
    <2>2. TapPass(d)[Len(d)] \in TapStates
        BY <1>2, <2>1, TapPassSteps
    <2> QED
        BY <1>14, <2>2 DEF TapStates, Streams
<1>19. ~(Len(s) < 2)
    BY <1>17, <1>18
<1>20. parseTapAnswer(d) = <<s[1], s[2]>>
    BY <1>14, <1>19 DEF parseTapAnswer
<1> QED
    BY <1>1, <1>16, <1>17, <1>20

\* The states of the pass that writes the blocks of an answer to two streams.
LEMMA TwoAnswerBlocks ==
    ASSUME NEW host \in Text, NEW p1 \in Int, NEW p2 \in Int, NEW c \in Codecs
    PROVE  AnswerBlocks(host, <<p1, p2>>, [n \in 1 .. 2 |-> c]) = TwoBlocks(host, p1, p2, c)
<1> DEFINE streams == [n \in 1 .. 2 |-> c]
           ports == <<p1, p2>>
           q == [n \in DOMAIN streams |-> n]
           Write(acc, n) == acc \o Block(host, ports[n], streams[n], "recvonly")
           Eq(p) == p = [i \in 0 .. Len(q) |-> IF i = 0 THEN <<>> ELSE Write(p[i - 1], q[i])]
<1>1. PICK a, b : a = Block(host, p1, c, "recvonly") /\ b = Block(host, p2, c, "recvonly")
    OBVIOUS
<1>2. a \in Seq(Line) /\ b \in Seq(Line)
    <2>1. "recvonly" \in Text
        BY TextAssumption
    <2> QED
        BY <1>1, <2>1, BlockIs DEF Description
<1>3. Len(streams) = 2 /\ Len(q) = 2 /\ q[1] = 1 /\ q[2] = 2
    OBVIOUS
<1>4. \A acc : Write(acc, 1) = acc \o a /\ Write(acc, 2) = acc \o b
    BY <1>1
<1>5. AnswerPass(host, ports, streams) = CHOOSE p : Eq(p)
    BY DEF AnswerPass, Pass
<1> HIDE DEF streams, ports, q, Write
<1>6. PICK f : f = [i \in 0 .. 2 |-> IF i = 0 THEN <<>> ELSE IF i = 1 THEN <<>> \o a ELSE (<<>> \o a) \o b]
    OBVIOUS
<1>7. f[0] = <<>> /\ f[1] = <<>> \o a /\ f[2] = (<<>> \o a) \o b
    BY <1>6
<1>8. \A i \in 0 .. 2 : i = 0 \/ i = 1 \/ i = 2
    OBVIOUS
<1>9. f[1] = Write(f[0], q[1]) /\ f[2] = Write(f[1], q[2])
    BY <1>3, <1>4, <1>7
<1>10. Eq(f)
    <2>1. \A i \in 0 .. 2 : f[i] = IF i = 0 THEN <<>> ELSE Write(f[i - 1], q[i])
        BY <1>7, <1>8, <1>9
    <2> QED
        BY <1>3, <1>6, <2>1
<1>11. PICK p : p = AnswerPass(host, ports, streams)
    OBVIOUS
<1>12. Eq(p)
    <2> HIDE DEF Eq
    <2> QED
        BY <1>5, <1>10, <1>11
<1>13. p[0] = <<>> /\ p[1] = Write(p[0], q[1]) /\ p[2] = Write(p[1], q[2])
    BY <1>3, <1>12
<1>14. p[2] = (<<>> \o a) \o b
    BY <1>3, <1>4, <1>13
<1>15. <<>> \o a = a
    BY <1>2, ConcatEmptySeq
<1>16. AnswerBlocks(host, ports, streams) = p[2]
    BY <1>3, <1>11 DEF AnswerBlocks
<1> QED
    BY <1>1, <1>14, <1>15, <1>16 DEF TwoBlocks, streams, ports

\* The recorder's answer to the tap's offer: two blocks, with the codecs of the call.
LEMMA RecorderAnswerIs ==
    ASSUME NEW sdp \in Description, NEW answer, answer # Nil,
           NEW tapped, tapped = buildTapOffer(sdp, Host, TapPorts[1], TapPorts[2]), tapped # Nil,
           answer = buildAnswer(tapped, Recorder.host, Recorder.ports)
    PROVE  LET c == extractAudioCodecs(sdp)
           IN  /\ answer \in Description
               /\ parseOffer(answer) = [n \in 1 .. 2 |-> c]
               /\ parseTapAnswer(answer) =
                    <<[host |-> Recorder.host, port |-> Recorder.ports[1]],
                      [host |-> Recorder.host, port |-> Recorder.ports[2]]>>
<1>1. PICK c : c = extractAudioCodecs(sdp)
    OBVIOUS
<1>2. PICK t1 \in Int, t2 \in Int : t1 = TapPorts[1] /\ t2 = TapPorts[2]
    BY AnchorAssumption
<1>3. PICK p1 \in Int, p2 \in Int : Recorder.ports = <<p1, p2>>
    BY RecorderAssumption
<1>4. PICK host \in Text : host = Recorder.host
    BY RecorderAssumption
<1>5. c # Nil /\ tapped = TwoBlocks(Host, t1, t2, c)
    BY <1>1, <1>2 DEF buildTapOffer, TwoBlocks
<1>6. c \in Codecs /\ c.fmts # <<>> /\ OnlyMaps(c.attrs) /\ \E r : MapsFirst(c.attrs, r)
    BY <1>1, <1>5, ExtractIs
<1>7. PICK r : MapsFirst(c.attrs, r)
    BY <1>6
<1>8. Host \in Text
    BY AnchorAssumption
<1>9. parseOffer(tapped) = [n \in 1 .. 2 |-> c]
    BY <1>5, <1>6, <1>7, <1>8, TwoBlockCodecs
<1>10. answer = TwoBlocks(host, p1, p2, c)
    <2>1. PICK streams : streams = parseOffer(tapped)
        OBVIOUS
    <2>2. answer = AnswerBlocks(host, <<p1, p2>>, streams)
        BY <1>3, <1>4, <2>1 DEF buildAnswer
    <2>3. AnswerBlocks(host, <<p1, p2>>, [n \in 1 .. 2 |-> c]) = TwoBlocks(host, p1, p2, c)
        BY <1>6, TwoAnswerBlocks
    <2>4. streams = [n \in 1 .. 2 |-> c]
        BY <1>9, <2>1
    <2> QED
        BY <2>2, <2>3, <2>4
<1>11. parseOffer(answer) = [n \in 1 .. 2 |-> c]
    BY <1>6, <1>7, <1>10, TwoBlockCodecs
<1>12. parseTapAnswer(answer) = <<[host |-> host, port |-> p1], [host |-> host, port |-> p2]>>
    BY <1>6, <1>10, TwoBlockStreams
<1>13. Recorder.ports[1] = p1 /\ Recorder.ports[2] = p2
    BY <1>3
<1>14. answer \in Description
    BY <1>6, <1>10, TwoBlocksAre
<1> QED
    BY <1>1, <1>4, <1>11, <1>12, <1>13, <1>14

-----------------------------------------------------------------------------
(* What the WebRTC library answers *)

\* Something is kept if one of the positions is.
LEMMA KeepSome ==
    ASSUME NEW T, NEW s \in Seq(T), NEW at, NEW i \in 1 .. Len(s), i \in at
    PROVE  Keep(s, at) # <<>>
<1> DEFINE n == Len(s)
           p == KeepPass(s, at)
           S == {k \in i .. n : p[k] # <<>>}
<1>1. n \in Nat /\ i \in 1 .. n /\ i \in Nat
    OBVIOUS
<1>2. /\ \A k \in 1 .. n : p[k] = IF k \in at THEN Append(p[k - 1], s[k]) ELSE p[k - 1]
      /\ \A k \in 0 .. n : p[k] \in Seq(T)
    BY KeepSteps
<1>3. \A k \in 1 .. n : s[k] \in T
    OBVIOUS
<1> HIDE DEF p, n
<1>4. ASSUME NEW k \in 1 .. n, k \in at PROVE p[k] # <<>>
    <2>1. k - 1 \in 0 .. n
        BY <1>1
    <2>2. p[k] = Append(p[k - 1], s[k]) /\ p[k - 1] \in Seq(T)
        BY <1>2, <1>4, <2>1
    <2> QED
        BY <1>3, <2>2
<1>5. i \in S
    BY <1>1, <1>4
<1>6. ASSUME NEW k \in i .. n - 1, k \in S PROVE k + 1 \in S
    <2>1. k + 1 \in 1 .. n /\ k + 1 \in i .. n /\ (k + 1) - 1 = k
        BY <1>1
    <2>2. CASE k + 1 \in at
        BY <1>4, <2>1, <2>2
    <2>3. CASE k + 1 \notin at
        <3>1. p[k + 1] = p[k]
            BY <1>2, <2>1, <2>3
        <3> QED
            BY <1>6, <2>1, <3>1
    <2> QED
        BY <2>2, <2>3
<1> HIDE DEF S
<1>7. \A k \in i .. n : k \in S
    BY <1>1, <1>5, <1>6, UpFrom
<1>8. n \in S
    BY <1>1, <1>7
<1> QED
    BY <1>8 DEF S, p, n, Keep

\* A function on 1 .. n is a sequence.
LEMMA FunctionIsSeq ==
    ASSUME NEW S, NEW n \in Nat, NEW f \in [1 .. n -> S]
    PROVE  f \in Seq(S)
<1>1. f = [i \in 1 .. n |-> f[i]]
    OBVIOUS
<1>2. [i \in 1 .. n |-> f[i]] \in Seq(S)
    OBVIOUS
<1> QED
    BY <1>1, <1>2

\* Every codec offered has a payload type and a name.
LEMMA CodecsOfferedAre ==
    ASSUME NEW codecs \in Codecs
    PROVE  /\ CodecsOffered(codecs) \in Seq([pt : Nat, name : Text])
           /\ DOMAIN CodecsOffered(codecs) = 1 .. Len(CodecsOffered(codecs))
<1>1. PICK attrs, fmts : attrs = codecs.attrs /\ fmts = codecs.fmts
    OBVIOUS
<1>2. attrs \in Description /\ fmts \in Seq(Nat)
    BY <1>1 DEF Codecs
<1>3. ASSUME NEW pt \in Nat PROVE NameOf(codecs, pt) \in Text
    <2>1. PICK maps : maps = {n \in Lines(attrs, IsRtpmap) : attrs[n].pt = pt}
        OBVIOUS
    <2>2. NameOf(codecs, pt) = IF maps # {} THEN attrs[Min(maps)].name ELSE staticAudioRTPMap(pt)
        BY <1>1, <2>1 DEF NameOf
    <2>3. CASE maps # {}
        <3>1. maps \subseteq Nat
            BY <1>2, <2>1, RtpmapLinesNat
        <3>2. PICK n \in maps : n = Min(maps)
            BY <2>3, <3>1, LeastNat
        <3>3. attrs[n] \in Line /\ IsRtpmap(attrs[n])
            BY <1>2, <2>1, <3>2, DescriptionLines
        <3>4. attrs[n].name \in Text
            BY <3>3, LineFields
        <3> QED
            BY <2>2, <2>3, <3>2, <3>4
    <2>4. CASE maps = {}
        BY <2>2, <2>4, StaticNames
    <2> QED
        BY <2>3, <2>4
<1>4. CodecsOffered(codecs) =
        [n \in DOMAIN fmts |-> [pt |-> fmts[n], name |-> NameOf(codecs, fmts[n])]]
    BY <1>1 DEF CodecsOffered
<1>5. PICK f : f = [n \in DOMAIN fmts |-> [pt |-> fmts[n], name |-> NameOf(codecs, fmts[n])]]
    OBVIOUS
<1>6. DOMAIN fmts = 1 .. Len(fmts) /\ Len(fmts) \in Nat /\ \A n \in DOMAIN fmts : fmts[n] \in Nat
    BY <1>2
<1>7. \A n \in 1 .. Len(fmts) : f[n] \in [pt : Nat, name : Text]
    BY <1>3, <1>5, <1>6
<1>8. f \in [1 .. Len(fmts) -> [pt : Nat, name : Text]]
    BY <1>5, <1>6, <1>7
<1>9. f \in Seq([pt : Nat, name : Text])
    BY <1>6, <1>8, FunctionIsSeq
<1>10. DOMAIN f = 1 .. Len(f)
    BY <1>9, LenProperties
<1> QED
    BY <1>4, <1>5, <1>9, <1>10

\* An answer with codecs has them on its first audio line.
LEMMA SecuredAnswerIs ==
    ASSUME NEW agreed \in Seq([pt : Nat, name : Text]), agreed # <<>>
    PROVE  LET a == SecuredAnswer(agreed)
           IN  /\ a \in Description /\ Lines(a, IsAudio) # {} /\ FirstAudio(a) = 1
               /\ a[1].fmts # <<>>
<1> DEFINE fmts == [n \in DOMAIN agreed |-> agreed[n].pt]
           m == [AudioLine(9, fmts) EXCEPT !.secure = TRUE]
           top == <<m, ConnLine(Host)>>
           attrs == [n \in DOMAIN agreed |->
                        [k |-> "rtpmap", pt |-> agreed[n].pt, name |-> agreed[n].name]]
           end == <<[k |-> "fingerprint"]>>
<1>1. /\ Len(agreed) \in Nat /\ DOMAIN agreed = 1 .. Len(agreed) /\ 1 \in DOMAIN agreed
      /\ \A n \in DOMAIN agreed : agreed[n] \in [pt : Nat, name : Text]
    <2>1. Len(agreed) \in Nat \ {0}
        BY EmptySeq
    <2>2. DOMAIN agreed = 1 .. Len(agreed)
        BY LenProperties
    <2>3. \A n \in 1 .. Len(agreed) : agreed[n] \in [pt : Nat, name : Text]
        BY ElementOfSeq
    <2>4. 1 \in 1 .. Len(agreed) /\ Len(agreed) \in Nat
        BY <2>1
    <2> QED
        BY <2>2, <2>3, <2>4
<1>2. fmts \in Seq(Nat) /\ fmts # <<>>
    <2>1. fmts \in [1 .. Len(agreed) -> Nat]
        BY <1>1
    <2>2. 1 \in DOMAIN fmts
        BY <1>1
    <2> QED
        BY <1>1, <2>1, <2>2
<1>3. attrs \in Seq(Line) /\ Len(attrs) \in Nat
    <2>1. \A n \in 1 .. Len(agreed) : attrs[n] \in RtpmapLine
        BY <1>1 DEF RtpmapLine
    <2>2. attrs \in [1 .. Len(agreed) -> Line]
        BY <1>1, <2>1 DEF Line
    <2> QED
        BY <1>1, <2>2
<1> HIDE DEF fmts
<1>4. m \in MediaLine /\ m.fmts = fmts /\ IsAudio(m)
    <2>1. PICK p \in Int : p = 9
        OBVIOUS
    <2>2. m = [k |-> "m", media |-> "audio", port |-> p, secure |-> TRUE, fmts |-> fmts]
        <3>1. PICK r : r = m
            OBVIOUS
        <3>2. r = [k |-> "m", media |-> "audio", port |-> 9, secure |-> TRUE, fmts |-> fmts]
            BY <3>1 DEF AudioLine
        <3> QED
            BY <2>1, <3>1, <3>2
    <2>3. "audio" \in Text /\ TRUE \in BOOLEAN
        BY TextAssumption
    <2>4. [k |-> "m", media |-> "audio", port |-> p, secure |-> TRUE, fmts |-> fmts] \in MediaLine
        BY <1>2, <2>3 DEF MediaLine
    <2>5. m.fmts = fmts /\ IsAudio(m)
        BY <2>2 DEF IsAudio
    <2> QED
        BY <2>2, <2>4, <2>5
<1>5. m \in Line /\ ConnLine(Host) \in Line /\ [k |-> "fingerprint"] \in Line
    BY <1>4, AnchorAssumption DEF Line, ConnLine
<1> HIDE DEF m
<1>6. top \in Seq(Line) /\ Len(top) = 2 /\ top[1] = m /\ end \in Seq(Line) /\ Len(end) = 1
    BY <1>5
<1>7. SecuredAnswer(agreed) = (top \o attrs) \o end
    BY DEF SecuredAnswer, m, fmts
<1> HIDE DEF top, attrs, end
<1>8. /\ top \o attrs \in Seq(Line) /\ Len(top \o attrs) = Len(top) + Len(attrs)
      /\ \A i \in 1 .. Len(top) + Len(attrs) :
            (top \o attrs)[i] = IF i <= Len(top) THEN top[i] ELSE attrs[i - Len(top)]
    BY <1>3, <1>6, ConcatProperties
<1>9. PICK t : t = top \o attrs
    OBVIOUS
<1>10. t \in Seq(Line) /\ Len(t) \in Nat /\ Len(t) >= 2 /\ t[1] = m
    BY <1>3, <1>6, <1>8, <1>9
<1>11. /\ t \o end \in Seq(Line) /\ Len(t \o end) = Len(t) + Len(end)
       /\ \A i \in 1 .. Len(t) + Len(end) :
            (t \o end)[i] = IF i <= Len(t) THEN t[i] ELSE end[i - Len(t)]
    BY <1>6, <1>10, ConcatProperties
<1>12. PICK a : a = t \o end
    OBVIOUS
<1>13. a \in Description /\ a[1] = m /\ 1 \in 1 .. Len(a)
    BY <1>6, <1>10, <1>11, <1>12 DEF Description
<1>14. 1 \in Lines(a, IsAudio)
    BY <1>4, <1>13, DescriptionLines
<1>15. FirstAudio(a) \in 1 .. Len(a) /\ FirstAudio(a) <= 1
    BY <1>13, <1>14, FirstAudioIs
<1>16. FirstAudio(a) = 1
    BY <1>15
<1> QED
    BY <1>2, <1>4, <1>7, <1>9, <1>12, <1>13, <1>14, <1>16

\* An answer to an offer whose codecs can be listed has codecs.
LEMMA SecuredAnswersAre ==
    ASSUME NEW codecs \in Codecs, NEW a \in SecuredAnswers(codecs)
    PROVE  a \in Description /\ Lines(a, IsAudio) # {} /\ a[FirstAudio(a)].fmts # <<>>
<1>1. codecs # Nil
    BY NilAssumption DEF Codecs
<1>2. PICK offered : offered = CodecsOffered(codecs)
    OBVIOUS
<1>3. offered \in Seq([pt : Nat, name : Text]) /\ DOMAIN offered = 1 .. Len(offered)
    BY <1>2, CodecsOfferedAre
<1>4. PICK K \in SUBSET DOMAIN offered : K # {} /\ a = SecuredAnswer(Keep(offered, K))
    <2>1. PICK known : known = {n \in DOMAIN offered : offered[n].name \in LibCodecs}
        OBVIOUS
    <2>2. a \in {SecuredAnswer(Keep(offered, K)) : K \in (SUBSET known) \ {{}}}
        BY <1>1, <1>2, <2>1 DEF SecuredAnswers
    <2>3. PICK K \in (SUBSET known) \ {{}} : a = SecuredAnswer(Keep(offered, K))
        BY <2>2
    <2>4. K # {} /\ K \subseteq DOMAIN offered
        BY <2>1, <2>3
    <2> QED
        BY <2>3, <2>4
<1>5. PICK agreed : agreed = Keep(offered, K)
    OBVIOUS
<1>6. agreed \in Seq([pt : Nat, name : Text])
    BY <1>3, <1>5, KeepFrom
<1>7. agreed # <<>>
    BY <1>3, <1>4, <1>5, KeepSome
<1>8. a = SecuredAnswer(agreed)
    BY <1>4, <1>5
<1> QED
    BY <1>6, <1>7, <1>8, SecuredAnswerIs

\* Opus is named by an rtpmap line.
LEMMA TrackIsMapped ==
    ASSUME NEW sdp, NEW s, IsSelected(sdp, s), s.name = TrackCodec
    PROVE  \E l \in Maps(sdp) : l.pt = s.pt /\ l.name = TrackCodec
<1>1. s.pt \in Nat
    BY DEF IsSelected
<1>2. staticAudioRTPMap(s.pt) # TrackCodec
    BY TrackAssumption DEF staticAudioRTPMap
<1> QED
    BY <1>2 DEF IsSelected

\* A webphone and a PBX that answered a single format hear each other only if their codecs have
\* one name.
LEMMA AudibleIsMatched ==
    ASSUME NEW a, NEW b, NEW s, NEW t, IsSelected(a, s), IsSelected(b, t),
           selectedAudioCodec(a) = s, selectedAudioCodec(b) = t,
           Decodes(a, b), TrackDecodes(b, a), ~SeveralFormats(b)
    PROVE  codecsMatch(s, t)
<1>1. PICK fmts : fmts = b[FirstAudio(b)].fmts
    OBVIOUS
<1>2. fmts \in Seq(Nat) /\ t.pt = Head(fmts) /\ \E n \in DOMAIN fmts : s.pt = fmts[n]
    BY <1>1 DEF IsSelected, Decodes
<1>3. ~(Len(fmts) > 1)
    BY <1>1 DEF SeveralFormats
<1>4. s.pt = t.pt
    BY <1>2, <1>3
<1>5. PICK l \in Maps(b) : l.pt = t.pt /\ l.name = TrackCodec
    BY TrackIsMapped DEF TrackDecodes
<1>6. l.name = s.name
    BY <1>4, <1>5 DEF Decodes
<1>7. s.name = t.name
    BY <1>5, <1>6 DEF TrackDecodes
<1> QED
    BY <1>4, <1>7 DEF codecsMatch

\* A webphone and a PBX that agreed on Opus under one payload type hear each other, if the PBX
\* gives the type one name.
LEMMA MatchIsAudible ==
    ASSUME NEW a, NEW b, NEW s, NEW t, IsSelected(a, s), IsSelected(b, t),
           selectedAudioCodec(a) = s, selectedAudioCodec(b) = t,
           Unambiguous(b), s.name = t.name, s.pt = t.pt, s.name = TrackCodec
    PROVE  Decodes(a, b) /\ TrackDecodes(b, a)
<1>1. TrackDecodes(b, a)
    BY TrackIsMapped DEF TrackDecodes
<1>2. PICK l \in Maps(b) : l.pt = t.pt /\ l.name = t.name
    BY TrackIsMapped
<1>3. \A m \in Maps(b) : m.pt = s.pt => m.name = s.name
    BY <1>2 DEF Unambiguous
<1>4. s.pt \in {b[FirstAudio(b)].fmts[n] : n \in DOMAIN b[FirstAudio(b)].fmts}
    BY DEF IsSelected
<1> QED
    BY <1>1, <1>3, <1>4 DEF Decodes

-----------------------------------------------------------------------------
(* The invariant *)

PBXOffer(sdp) ==
    IF offerIsWebRTC(sdp) THEN buildPlainOfferFromWebRTC(sdp, Host, PbxPort)
    ELSE rewriteToAnchor(sdp, Host, PbxPort)

\* The inductive invariant, part by part: where each description of the call came from.
StageInv ==
    /\ stage \in Stages /\ offer \in Offers
    /\ pbxAnswer # Nil => pbxAnswer \in Answers \cup CommonAnswers /\ stage \in {"up", "refused"}
AnchorInv ==
    /\ epRemote # Nil => epRemote = parseMedia(offer)
    /\ stage \in {"anchored", "dialled", "up"} /\ ~Secured => epRemote # Nil
    /\ stage \in {"anchored", "dialled", "up"} /\ Secured =>
        epAnswer \in SecuredAnswers(extractAudioCodecs(offer))
DialInv == Dialled => pbxOffer = PBXOffer(offer) /\ pbxOffer # Nil
AnswerInv ==
    /\ stage = "up" =>
        /\ pbxAnswer # Nil /\ pbxRemote = parseMedia(pbxAnswer) /\ pbxRemote # Nil
        /\ ~Secured => epAnswer = rewriteToAnchor(pbxAnswer, Host, EpPort)
        /\ mismatch <=> reportCodecAgreement(epAnswer, pbxAnswer)
    /\ stage = "refused" /\ ~Secured =>
        parseMedia(IF pbxAnswer = Nil THEN offer ELSE pbxAnswer) = Nil
TapInv ==
    tapAnswer # Nil =>
        /\ tapOffer # Nil /\ tapOffer = buildTapOffer(offer, Host, TapPorts[1], TapPorts[2])
        /\ tapAnswer \in AppAnswers \cup {buildAnswer(tapOffer, Recorder.host, Recorder.ports)}
        /\ LET read == parseTapAnswer(tapAnswer)
           IN  tap = IF read = Nil THEN <<Nil, Nil>> ELSE <<TapTarget(read[1]), TapTarget(read[2])>>
NegInv == StageInv /\ AnchorInv /\ DialInv /\ AnswerInv /\ TapInv

\* NegInv holds in every initial state.
LEMMA InitNegInv == Init => NegInv
<1> SUFFICES ASSUME Init PROVE NegInv
    OBVIOUS
<1>1. StageInv
    BY DEF Init, StageInv, Stages
<1> QED
    BY <1>1 DEF Init, NegInv, AnchorInv, DialInv, AnswerInv, TapInv, Dialled

\* NegInv is preserved by every step of Next, action by action.
LEMMA NextNegInv == NegInv /\ [Next]_vars => NegInv'
<1> SUFFICES ASSUME NegInv, [Next]_vars PROVE NegInv'
    OBVIOUS
<1>0. StageInv /\ AnchorInv /\ DialInv /\ AnswerInv /\ TapInv
    BY DEF NegInv
<1>1. CASE NoTap \/ NotCopied
    <2>1. /\ stage = "chain" /\ stage' \in {"tapped", "unbuilt"}
          /\ UNCHANGED <<offer, tapVars, epRemote, epAnswer, pbxOffer, pbxAnswer, pbxRemote, mismatch>>
        BY <1>1 DEF NoTap, NotCopied
    <2>2. StageInv'
        BY <1>0, <2>1 DEF StageInv, Stages
    <2>3. AnchorInv' /\ DialInv' /\ AnswerInv'
        BY <1>0, <2>1 DEF AnchorInv, DialInv, AnswerInv, Dialled
    <2>4. TapInv'
        BY <1>0, <2>1 DEF TapInv, tapVars
    <2> QED
        BY <2>2, <2>3, <2>4 DEF NegInv
<1>2. CASE TapAnswered
    <2>1. /\ stage = "chain" /\ stage' = "tapped"
          /\ UNCHANGED <<offer, epRemote, epAnswer, pbxOffer, pbxAnswer, pbxRemote, mismatch>>
        BY <1>2 DEF TapAnswered
    <2>2. StageInv'
        BY <1>0, <2>1 DEF StageInv, Stages
    <2>3. AnchorInv' /\ DialInv' /\ AnswerInv'
        BY <1>0, <2>1 DEF AnchorInv, DialInv, AnswerInv, Dialled
    <2>4. TapInv'
        BY <1>2, <2>1 DEF TapInv, TapAnswered
    <2> QED
        BY <2>2, <2>3, <2>4 DEF NegInv
<1>3. CASE AnchorPlain
    <2>1. /\ stage = "tapped" /\ ~Secured /\ epRemote' = parseMedia(offer)
          /\ stage' = IF epRemote' = Nil THEN "refused" ELSE "anchored"
          /\ UNCHANGED <<offer, tapVars, epAnswer, pbxOffer, pbxAnswer, pbxRemote, mismatch>>
        BY <1>3 DEF AnchorPlain, Secured
    <2>2. pbxAnswer = Nil
        BY <1>0, <2>1 DEF StageInv
    <2>3. StageInv'
        BY <1>0, <2>1, <2>2 DEF StageInv, Stages
    <2>4. AnchorInv' /\ DialInv'
        BY <1>0, <2>1 DEF AnchorInv, DialInv, Dialled, Secured
    <2>5. AnswerInv'
        BY <1>0, <2>1, <2>2 DEF AnswerInv, Secured
    <2>6. TapInv'
        BY <1>0, <2>1 DEF TapInv, tapVars
    <2> QED
        BY <2>3, <2>4, <2>5, <2>6 DEF NegInv
<1>4. CASE AnchorSecured
    <2>1. /\ stage = "tapped" /\ Secured
          /\ UNCHANGED <<offer, tapVars, epRemote, pbxOffer, pbxAnswer, pbxRemote, mismatch>>
        BY <1>4 DEF AnchorSecured, Secured
    <2>2. \/ stage' = "refused"
          \/ stage' = "anchored" /\ epAnswer' \in SecuredAnswers(extractAudioCodecs(offer))
        BY <1>4 DEF AnchorSecured
    <2>3. pbxAnswer = Nil /\ Secured'
        BY <1>0, <2>1 DEF StageInv, Secured
    <2>4. StageInv'
        BY <1>0, <2>1, <2>2, <2>3 DEF StageInv, Stages
    <2>5. AnchorInv'
        BY <1>0, <2>1, <2>2, <2>3 DEF AnchorInv
    <2>6. DialInv' /\ AnswerInv'
        BY <1>0, <2>1, <2>2, <2>3 DEF DialInv, AnswerInv, Dialled
    <2>7. TapInv'
        BY <1>0, <2>1 DEF TapInv, tapVars
    <2> QED
        BY <2>4, <2>5, <2>6, <2>7 DEF NegInv
<1>5. CASE DialPBX
    <2>1. /\ stage = "anchored" /\ pbxOffer' = PBXOffer(offer)
          /\ stage' = IF pbxOffer' = Nil THEN "unbuilt" ELSE "dialled"
          /\ UNCHANGED <<offer, tapVars, epRemote, epAnswer, pbxAnswer, pbxRemote, mismatch>>
        BY <1>5 DEF DialPBX, PBXOffer
    <2>2. StageInv'
        BY <1>0, <2>1 DEF StageInv, Stages
    <2>3. AnchorInv'
        BY <1>0, <2>1 DEF AnchorInv, Secured
    <2>4. DialInv' /\ AnswerInv'
        BY <1>0, <2>1 DEF DialInv, AnswerInv, Dialled
    <2>5. TapInv'
        BY <1>0, <2>1 DEF TapInv, tapVars
    <2> QED
        BY <2>2, <2>3, <2>4, <2>5 DEF NegInv
<1>6. CASE PBXAnswers
    <2>1. /\ stage = "dialled" /\ pbxAnswer' \in Answers \cup CommonAnswers
          /\ pbxRemote' = parseMedia(pbxAnswer')
          /\ UNCHANGED <<offer, tapVars, epRemote, pbxOffer>>
        BY <1>6 DEF PBXAnswers
    <2>2. pbxAnswer' # Nil
        BY <2>1, DescriptionAssumption, NilAssumption
    <2>3. Secured' <=> Secured
        BY <2>1 DEF Secured
    <2>4. CASE pbxRemote' = Nil
        <3>1. stage' = "refused"
            BY <1>6, <2>4 DEF PBXAnswers
        <3>2. StageInv' /\ AnchorInv' /\ DialInv'
            BY <1>0, <2>1, <3>1 DEF StageInv, AnchorInv, DialInv, Stages, Dialled
        <3>3. AnswerInv'
            BY <2>1, <2>2, <2>4, <3>1 DEF AnswerInv
        <3>4. TapInv'
            BY <1>0, <2>1 DEF TapInv, tapVars
        <3> QED
            BY <3>2, <3>3, <3>4 DEF NegInv
    <2>5. CASE pbxRemote' # Nil
        <3>1. /\ Secured => epAnswer' = epAnswer
              /\ ~Secured => epAnswer' = rewriteToAnchor(pbxAnswer', Host, EpPort)
              /\ mismatch' = reportCodecAgreement(epAnswer', pbxAnswer')
            BY <1>6, <2>5 DEF PBXAnswers, Secured
        <3>2. stage' = "up"
            BY <1>6, <2>5 DEF PBXAnswers
        <3>3. StageInv'
            BY <1>0, <2>1, <3>2 DEF StageInv, Stages
        <3>4. AnchorInv'
            BY <1>0, <2>1, <2>3, <3>1, <3>2 DEF AnchorInv
        <3>5. DialInv'
            BY <1>0, <2>1, <3>2 DEF DialInv, Dialled
        <3>6. AnswerInv'
            BY <2>1, <2>2, <2>3, <2>5, <3>1, <3>2 DEF AnswerInv
        <3>7. TapInv'
            BY <1>0, <2>1 DEF TapInv, tapVars
        <3> QED
            BY <3>3, <3>4, <3>5, <3>6, <3>7 DEF NegInv
    <2> QED
        BY <2>4, <2>5
<1>7. CASE Settled \/ UNCHANGED vars
    <2>1. UNCHANGED vars
        BY <1>7 DEF Settled
    <2>2. StageInv' /\ AnchorInv' /\ DialInv'
        BY <1>0, <2>1 DEF vars, StageInv, AnchorInv, DialInv, Dialled, Secured
    <2>3. AnswerInv'
        BY <1>0, <2>1 DEF vars, AnswerInv, Secured
    <2>4. TapInv'
        BY <1>0, <2>1 DEF vars, tapVars, TapInv
    <2> QED
        BY <2>2, <2>3, <2>4 DEF NegInv
<1> QED
    BY <1>1, <1>2, <1>3, <1>4, <1>5, <1>6, <1>7 DEF Next

\* Every description and every address of a call comes from where NegInv says.
THEOREM NegotiationInvariant == Spec => []NegInv
BY InitNegInv, NextNegInv, PTL DEF Spec

-----------------------------------------------------------------------------
(* The properties *)

\* The PBX and the caller send to the sequencer's ports exactly when rewriteToAnchor's one c=
\* line is the one that counts.
THEOREM PeersSendToAnchorHolds == Spec => []PeersSendToAnchor
<1>1. NegInv => PeersSendToAnchor
    <2> SUFFICES ASSUME NegInv PROVE PeersSendToAnchor
        OBVIOUS
    <2>0. StageInv /\ AnchorInv /\ DialInv /\ AnswerInv
        BY DEF NegInv
    <2>1. offer \in Description /\ PbxPort \in Int /\ EpPort \in Int
        BY <2>0, DescriptionAssumption, AnchorAssumption DEF StageInv
    <2>2. ASSUME Dialled, Secured PROVE ReadsAnchor(pbxOffer, PbxPort)
        <3>1. pbxOffer = buildPlainOfferFromWebRTC(offer, Host, PbxPort) /\ pbxOffer # Nil
            BY <2>0, <2>2 DEF DialInv, PBXOffer, Secured
        <3>2. PICK codecs : codecs = extractAudioCodecs(offer)
            OBVIOUS
        <3>3. codecs # Nil /\ pbxOffer = Block(Host, PbxPort, codecs, "sendrecv")
            BY <3>1, <3>2 DEF buildPlainOfferFromWebRTC
        <3>4. codecs \in Codecs /\ OnlyMaps(codecs.attrs)
            BY <2>1, <3>2, <3>3, ExtractIs
        <3>5. "sendrecv" \in Text
            BY TextAssumption
        <3> QED
            BY <2>1, <3>3, <3>4, <3>5, BlockReads
    <2>3. ASSUME Dialled, ~Secured, WellFormed(offer)
          PROVE  ReadsAnchor(pbxOffer, PbxPort) <=> RewriteReaches(offer)
        <3>1. pbxOffer = rewriteToAnchor(offer, Host, PbxPort)
            BY <2>0, <2>3 DEF DialInv, PBXOffer, Secured
        <3>2. parseMedia(offer) # Nil
            BY <2>0, <2>3 DEF AnchorInv, Dialled
        <3>3. Lines(offer, IsAudio) # {}
            BY <2>1, <3>2, ParseMediaIs
        <3> QED
            BY <2>1, <2>3, <3>1, <3>3, RewriteReads
    <2>4. ASSUME stage = "up", ~Secured, WellFormed(pbxAnswer)
          PROVE  ReadsAnchor(epAnswer, EpPort) <=> RewriteReaches(pbxAnswer)
        <3>1. /\ epAnswer = rewriteToAnchor(pbxAnswer, Host, EpPort)
              /\ pbxAnswer # Nil /\ parseMedia(pbxAnswer) # Nil
            BY <2>0, <2>4 DEF AnswerInv
        <3>2. pbxAnswer \in Description
            BY <2>0, <3>1, DescriptionAssumption DEF StageInv
        <3>3. Lines(pbxAnswer, IsAudio) # {}
            BY <3>1, <3>2, ParseMediaIs
        <3> QED
            BY <2>1, <2>4, <3>1, <3>2, <3>3, RewriteReads
    <2> QED
        BY <2>2, <2>3, <2>4 DEF PeersSendToAnchor
<1> QED
    BY <1>1, NegotiationInvariant, PTL

\* parseMedia sends the sequencer's audio to where the peer receives it, and refuses no peer
\* that can be reached.
THEOREM AnchorSendsToPeersHolds == Spec => []AnchorSendsToPeers
<1>1. NegInv => AnchorSendsToPeers
    <2> SUFFICES ASSUME NegInv PROVE AnchorSendsToPeers
        OBVIOUS
    <2>0. StageInv /\ AnchorInv /\ AnswerInv
        BY DEF NegInv
    <2>1. offer \in Description /\ (pbxAnswer # Nil => pbxAnswer \in Description)
        BY <2>0, DescriptionAssumption DEF StageInv
    <2>2. ASSUME epRemote # Nil PROVE ReadsPeer(offer, epRemote)
        BY <2>0, <2>1, <2>2, ParsedIsPeer DEF AnchorInv
    <2>3. ASSUME stage = "up" PROVE ReadsPeer(pbxAnswer, pbxRemote)
        BY <2>0, <2>1, <2>3, ParsedIsPeer DEF AnswerInv
    <2>4. ASSUME stage = "refused", ~Secured
          PROVE  ~Reachable(IF pbxAnswer = Nil THEN offer ELSE pbxAnswer)
        <3>1. PICK sdp : sdp = IF pbxAnswer = Nil THEN offer ELSE pbxAnswer
            OBVIOUS
        <3>2. sdp \in Description /\ parseMedia(sdp) = Nil
            BY <2>0, <2>1, <2>4, <3>1 DEF AnswerInv
        <3> QED
            BY <3>1, <3>2, ReachableIsParsed
    <2> QED
        BY <2>2, <2>3, <2>4 DEF AnchorSendsToPeers
<1> QED
    BY <1>1, NegotiationInvariant, PTL

\* reportCodecAgreement counts only calls that are silent in some direction or to which the PBX
\* answered several formats, and misses one only if both sides agreed on a codec that the PBX
\* renumbered or that is not Opus, or the PBX gave a payload type two names.
THEOREM SilentCallIsReportedHolds == Spec => []SilentCallIsReported
<1>1. NegInv => SilentCallIsReported
    <2> SUFFICES ASSUME NegInv, stage = "up", selectedAudioCodec(pbxAnswer) # Nil,
                        NEW s, s = selectedAudioCodec(epAnswer),
                        NEW t, t = selectedAudioCodec(pbxAnswer)
                 PROVE  /\ mismatch => Secured /\ (Audible => SeveralFormats(pbxAnswer))
                        /\ Secured /\ Unambiguous(pbxAnswer) /\ ~Audible =>
                            mismatch \/ (s.name = t.name /\ (s.pt # t.pt \/ s.name # TrackCodec))
        BY DEF SilentCallIsReported
    <2>0. StageInv /\ AnchorInv /\ DialInv /\ AnswerInv
        BY DEF NegInv
    <2>1. /\ pbxAnswer # Nil /\ (mismatch <=> reportCodecAgreement(epAnswer, pbxAnswer))
          /\ ~Secured => epAnswer = rewriteToAnchor(pbxAnswer, Host, EpPort)
        BY <2>0 DEF AnswerInv
    <2>2. offer \in Description /\ pbxAnswer \in Description
        BY <2>0, <2>1, DescriptionAssumption DEF StageInv
    <2>3. t # Nil /\ IsSelected(pbxAnswer, t)
        BY <2>2, SelectedHas
    <2>4. mismatch <=> s # Nil /\ ~codecsMatch(s, t)
        BY <2>1, <2>3 DEF reportCodecAgreement
    <2>5. CASE ~Secured
        <3>1. s = t
            BY <2>1, <2>2, <2>5, AnchorAssumption, RewriteSelects
        <3>2. codecsMatch(s, t)
            BY <3>1 DEF codecsMatch
        <3> QED
            BY <2>4, <2>5, <3>2
    <2>6. CASE Secured
        <3>1. PICK codecs : codecs = extractAudioCodecs(offer)
            OBVIOUS
        <3>2. epAnswer \in SecuredAnswers(codecs)
            BY <2>0, <2>6, <3>1 DEF AnchorInv
        <3>3. codecs # Nil
            BY <2>0, <2>6, <3>1
               DEF DialInv, Dialled, PBXOffer, Secured, buildPlainOfferFromWebRTC
        <3>4. codecs \in Codecs
            BY <2>2, <3>1, <3>3, ExtractIs
        <3>5. /\ epAnswer \in Description /\ Lines(epAnswer, IsAudio) # {}
              /\ epAnswer[FirstAudio(epAnswer)].fmts # <<>>
            BY <3>2, <3>4, SecuredAnswersAre
        <3>6. IsSelected(epAnswer, s)
            BY <3>5, SelectedIs
        <3>7. s # Nil
            BY <3>6 DEF IsSelected
        <3>8. Audible <=> Decodes(epAnswer, pbxAnswer) /\ TrackDecodes(pbxAnswer, epAnswer)
            BY <2>6 DEF Audible
        <3>9. ASSUME mismatch, Audible, ~SeveralFormats(pbxAnswer) PROVE FALSE
            BY <2>3, <2>4, <3>6, <3>8, <3>9, AudibleIsMatched
        <3>10. ASSUME Unambiguous(pbxAnswer), ~Audible, ~mismatch
               PROVE  s.name = t.name /\ (s.pt # t.pt \/ s.name # TrackCodec)
            <4>1. s.name = t.name
                BY <2>4, <3>7, <3>10 DEF codecsMatch
            <4>2. ~(s.pt = t.pt /\ s.name = TrackCodec)
                BY <2>3, <3>6, <3>8, <3>10, <4>1, MatchIsAudible
            <4> QED
                BY <4>1, <4>2
        <3> QED
            BY <2>6, <3>9, <3>10
    <2> QED
        BY <2>5, <2>6
<1> QED
    BY <1>1, NegotiationInvariant, PTL

\* The tap's copies go to the application's first two audio streams, in order, and the
\* recorder's answer keeps the codecs of the call.
THEOREM TapStreamsInOrderHolds == Spec => []TapStreamsInOrder
<1>1. NegInv => TapStreamsInOrder
    <2> SUFFICES ASSUME NegInv, tapAnswer # Nil
                 PROVE  /\ tap # <<Nil, Nil>> /\ WellFormed(tapAnswer) =>
                            \A n \in 1 .. 2 :
                                LET i == NthAudio(tapAnswer, n)
                                IN  \/ Overwritten(tapAnswer, i) \/ Borrowed(tapAnswer, i)
                                    \/ tap[n] = TapTarget(StreamAt(tapAnswer, i))
                        /\ tapAnswer \notin AppAnswers =>
                            /\ tap = [n \in 1 .. 2 |-> [host |-> Recorder.host,
                                                        port |-> Recorder.ports[n]]]
                            /\ parseOffer(tapAnswer) = [n \in 1 .. 2 |-> extractAudioCodecs(offer)]
        BY DEF TapStreamsInOrder
    <2>1. offer \in Description
        BY DescriptionAssumption DEF NegInv, StageInv
    <2>2. /\ tapOffer # Nil /\ tapOffer = buildTapOffer(offer, Host, TapPorts[1], TapPorts[2])
          /\ tapAnswer \in AppAnswers \cup {buildAnswer(tapOffer, Recorder.host, Recorder.ports)}
        BY DEF NegInv, TapInv
    <2>3. PICK read : read = parseTapAnswer(tapAnswer)
        OBVIOUS
    <2>4. tap = IF read = Nil THEN <<Nil, Nil>> ELSE <<TapTarget(read[1]), TapTarget(read[2])>>
        BY <2>3 DEF NegInv, TapInv
    <2>5. ASSUME tapAnswer \notin AppAnswers
          PROVE  /\ read = <<[host |-> Recorder.host, port |-> Recorder.ports[1]],
                             [host |-> Recorder.host, port |-> Recorder.ports[2]]>>
                 /\ parseOffer(tapAnswer) = [n \in 1 .. 2 |-> extractAudioCodecs(offer)]
                 /\ tapAnswer \in Description
        <3>1. tapAnswer = buildAnswer(tapOffer, Recorder.host, Recorder.ports)
            BY <2>2, <2>5
        <3> QED
            BY <2>1, <2>2, <2>3, <3>1, RecorderAnswerIs
    <2>6. tapAnswer \in Description
        BY <2>5, DescriptionAssumption
    <2>7. ASSUME tap # <<Nil, Nil>>, WellFormed(tapAnswer), NEW n \in 1 .. 2,
                 ~Overwritten(tapAnswer, NthAudio(tapAnswer, n)),
                 ~Borrowed(tapAnswer, NthAudio(tapAnswer, n))
          PROVE  tap[n] = TapTarget(StreamAt(tapAnswer, NthAudio(tapAnswer, n)))
        <3>1. read # Nil /\ tap = <<TapTarget(read[1]), TapTarget(read[2])>>
            BY <2>4, <2>7
        <3>2. read[n] = StreamAt(tapAnswer, NthAudio(tapAnswer, n))
            BY <2>3, <2>6, <2>7, <3>1, TapAnswerRead
        <3>3. tap[n] = TapTarget(read[n])
            BY <3>1
        <3> QED
            BY <3>2, <3>3
    <2>8. ASSUME tapAnswer \notin AppAnswers
          PROVE  tap = [n \in 1 .. 2 |-> [host |-> Recorder.host, port |-> Recorder.ports[n]]]
        <3>1. PICK s, t : /\ s = [host |-> Recorder.host, port |-> Recorder.ports[1]]
                          /\ t = [host |-> Recorder.host, port |-> Recorder.ports[2]]
            OBVIOUS
        <3>2. read = <<s, t>>
            BY <2>5, <2>8, <3>1
        <3>3. s \in [host : Text, port : Int] /\ t \in [host : Text, port : Int]
            BY <3>1, RecorderAssumption
        <3>4. read # Nil
            <4>1. read \in Seq([host : Text, port : Int])
                BY <3>2, <3>3
            <4> QED
                BY <4>1, NilAssumption
        <3>5. TapTarget(s) = s /\ TapTarget(t) = t
            BY <3>1, RecorderAssumption DEF TapTarget
        <3>6. tap = <<s, t>>
            <4>1. read[1] = s /\ read[2] = t
                BY <3>2
            <4> QED
                BY <2>4, <3>4, <3>5, <4>1
        <3> QED
            BY <3>1, <3>6
    <2> QED
        BY <2>5, <2>7, <2>8
<1> QED
    BY <1>1, NegotiationInvariant, PTL
=============================================================================
