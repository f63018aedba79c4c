-------------------------- MODULE FrameReadProofs ---------------------------
(***************************************************************************)
(* A scanner that reads an intact file stays aligned with its frames: it   *)
(* yields the wanted entries in order, each with its own payload, and its  *)
(* position is right, for any number of entries of any length below the    *)
(* limit, and whatever pieces they are read in.                            *)
(***************************************************************************)
EXTENDS FrameReads, EntryIndexProofs

\* Induction over the numbers up to n, on a set.
LEMMA UpTo ==
    ASSUME NEW n \in Nat, NEW S, 0 \in S, \A i \in 0..(n - 1) : i \in S => i + 1 \in S
    PROVE  \A i \in 0..n : i \in S
<1> DEFINE Bad == {i \in 0..n : i \notin S}
<1>1. SUFFICES ASSUME Bad # {} PROVE FALSE
    OBVIOUS
<1>2. PICK i \in Bad : \A j \in Bad : i <= j
    <2>1. Bad \subseteq Nat
        OBVIOUS
    <2> HIDE DEF Bad
    <2> QED
        BY <1>1, <2>1, LeastNat
<1>3. i \in 0..n /\ i \notin S /\ i # 0
    OBVIOUS
<1>4. i - 1 \in 0..(n - 1) /\ i - 1 \notin Bad
    BY <1>2, <1>3
<1>5. i - 1 \in S
    BY <1>3, <1>4
<1>6. (i - 1) + 1 \in S
    BY <1>4, <1>5
<1> QED
    BY <1>3, <1>6

-----------------------------------------------------------------------------
(***************************************************************************)
(* The layout of the file.                                                 *)
(***************************************************************************)
\* Offset is the value of a recursive function; there is one.
IsOffsets(n, f) ==
    f = [k \in 0..n |-> IF k = 0 THEN 0 ELSE f[k - 1] + HeaderLen + lens[k]]

LEMMA OffsetsExist ==
    ASSUME NEW n \in Nat
    PROVE  \E f : IsOffsets(n, f)
<1> DEFINE S == {k \in Nat : \E f : IsOffsets(k, f)}
<1>1. 0 \in S
    <2> DEFINE f == [k \in 0..0 |-> 0]
    <2>1. \A k \in 0..0 : k = 0
        OBVIOUS
    <2>2. IsOffsets(0, f)
        BY <2>1, Zenon DEF IsOffsets
    <2> QED
        BY <2>2
<1>2. ASSUME NEW i \in 0..(n - 1), i \in S
      PROVE  i + 1 \in S
    <2>1. i \in Nat /\ i + 1 \in Nat
        OBVIOUS
    <2>2. PICK f : IsOffsets(i, f)
        BY <1>2
    <2> DEFINE g == [k \in 0..(i + 1) |->
                        IF k = 0 THEN 0 ELSE f[k - 1] + HeaderLen + lens[k]]
    <2>3. ASSUME NEW k \in 0..i PROVE g[k] = f[k]
        <3>1. k \in 0..(i + 1)
            BY <2>1
        <3>2. g[k] = IF k = 0 THEN 0 ELSE f[k - 1] + HeaderLen + lens[k]
            BY <3>1, Zenon
        <3>3. \A h : f = [j \in 0..i |-> IF j = 0 THEN 0 ELSE h[j - 1] + HeaderLen + lens[j]]
                        => f[k] = IF k = 0 THEN 0 ELSE h[k - 1] + HeaderLen + lens[k]
            BY Zenon
        <3> QED
            BY <2>2, <3>2, <3>3, Zenon DEF IsOffsets
    <2>4. ASSUME NEW k \in 0..(i + 1), k # 0 PROVE f[k - 1] = g[k - 1]
        <3>1. k - 1 \in 0..i
            BY <2>1, <2>4
        <3> HIDE DEF g
        <3> QED
            BY <2>3, <3>1
    <2>5. IsOffsets(i + 1, g)
        BY <2>4, Zenon DEF IsOffsets
    <2> QED
        BY <2>1, <2>5
<1> HIDE DEF S
<1>3. n \in S
    BY <1>1, <1>2, UpTo
<1> QED
    BY <1>3 DEF S

\* A frame takes a header and its payload.
LEMMA OffsetRounds ==
    ASSUME NEW n \in Nat, Len(lens) = n
    PROVE  /\ Offset(0) = 0
           /\ \A i \in 1..n : Offset(i) = Offset(i - 1) + HeaderLen + lens[i]
<1> DEFINE f == CHOOSE f : IsOffsets(n, f)
<1>1. IsOffsets(n, f)
    BY OffsetsExist, Zenon
<1>2. \A i : Offset(i) = f[i]
    BY Zenon DEF Offset, IsOffsets
<1>3. ASSUME NEW i \in 0..n
      PROVE  f[i] = IF i = 0 THEN 0 ELSE f[i - 1] + HeaderLen + lens[i]
    <2>1. \A h : f = [j \in 0..n |-> IF j = 0 THEN 0 ELSE h[j - 1] + HeaderLen + lens[j]]
                    => f[i] = IF i = 0 THEN 0 ELSE h[i - 1] + HeaderLen + lens[i]
        BY Zenon
    <2> QED
        BY <1>1, <2>1, Zenon DEF IsOffsets
<1> HIDE DEF f
<1>4. 0 \in 0..n /\ \A i \in 1..n : i \in 0..n /\ i # 0
    OBVIOUS
<1> QED
    BY <1>2, <1>3, <1>4

LEMMA OffsetsAscend ==
    ASSUME lens \in Seq(Nat)
    PROVE  /\ \A i \in 0..Len(lens) : Offset(i) \in Nat
           /\ \A i \in 0..Len(lens) : \A j \in 0..i : Offset(j) <= Offset(i)
<1> DEFINE n == Len(lens)
           S == {i \in 0..n : \A j \in 0..i : Offset(j) \in Nat /\ Offset(j) <= Offset(i)}
<1>1. n \in Nat /\ \A i \in 1..n : lens[i] \in Nat
    OBVIOUS
<1>2. /\ Offset(0) = 0
      /\ \A i \in 1..n : Offset(i) = Offset(i - 1) + HeaderLen + lens[i]
    BY <1>1, OffsetRounds
<1> HIDE DEF n
<1>3. 0 \in S
    <2>1. \A j \in 0..0 : j = 0
        OBVIOUS
    <2>2. 0 \in 0..n /\ \A j \in 0..0 : Offset(j) \in Nat /\ Offset(j) <= Offset(0)
        BY <1>1, <1>2, <2>1
    <2> QED
        BY <2>2
<1>4. ASSUME NEW i \in 0..(n - 1), i \in S
      PROVE  i + 1 \in S
    <2>1. i + 1 \in 1..n /\ i + 1 \in 0..n /\ (i + 1) - 1 = i
        BY <1>1
    <2>2. Offset(i + 1) = Offset(i) + HeaderLen + lens[i + 1]
        BY <1>2, <2>1
    <2>3. Offset(i) \in Nat /\ lens[i + 1] \in Nat
        <3>1. i \in 0..i
            OBVIOUS
        <3> QED
            BY <1>1, <1>4, <2>1, <3>1
    <2>4. Offset(i + 1) \in Nat /\ Offset(i) <= Offset(i + 1)
        BY <2>2, <2>3 DEF HeaderLen
    <2>5. ASSUME NEW j \in 0..(i + 1)
          PROVE  Offset(j) \in Nat /\ Offset(j) <= Offset(i + 1)
        <3>1. CASE j = i + 1
            BY <2>4, <3>1
        <3>2. CASE j # i + 1
            <4>1. j \in 0..i
                BY <1>1, <3>2
            <4>2. Offset(j) \in Nat /\ Offset(j) <= Offset(i)
                BY <1>4, <4>1
            <4> QED
                BY <2>3, <2>4, <4>2
        <3> QED
            BY <3>1, <3>2
    <2> QED
        BY <2>1, <2>5
<1> HIDE DEF S
<1>5. \A i \in 0..n : i \in S
    BY <1>1, <1>3, <1>4, UpTo
<1>6. ASSUME NEW i \in 0..n
      PROVE  Offset(i) \in Nat /\ \A j \in 0..i : Offset(j) <= Offset(i)
    <2>1. i \in 0..i
        BY <1>1
    <2> QED
        BY <1>5, <2>1 DEF S
<1> QED
    BY <1>6 DEF n

-----------------------------------------------------------------------------
\* Where the two parts of a concatenation are.
LEMMA Joined ==
    ASSUME NEW S, NEW s \in Seq(S), NEW t \in Seq(S)
    PROVE  /\ s \o t \in Seq(S) /\ Len(s \o t) = Len(s) + Len(t)
           /\ \A i \in 1..Len(s) : (s \o t)[i] = s[i]
           /\ \A i \in 1..Len(t) : (s \o t)[Len(s) + i] = t[i]
<1>1. /\ s \o t \in Seq(S) /\ Len(s \o t) = Len(s) + Len(t)
      /\ \A i \in 1..Len(s) + Len(t) :
            (s \o t)[i] = IF i <= Len(s) THEN s[i] ELSE t[i - Len(s)]
    BY ConcatProperties
<1>2. Len(s) \in Nat /\ Len(t) \in Nat
    OBVIOUS
<1> DEFINE u == s \o t
<1> HIDE DEF u
<1>3. ASSUME NEW i \in 1..Len(s) PROVE u[i] = s[i]
    BY <1>1, <1>2 DEF u
<1>4. ASSUME NEW i \in 1..Len(t) PROVE u[Len(s) + i] = t[i]
    <2>1. Len(s) + i \in 1..Len(s) + Len(t) /\ ~(Len(s) + i <= Len(s))
          /\ (Len(s) + i) - Len(s) = i
        BY <1>2
    <2>2. u[Len(s) + i] = IF Len(s) + i <= Len(s) THEN s[Len(s) + i] ELSE t[(Len(s) + i) - Len(s)]
        BY <1>1, <2>1 DEF u
    <2> QED
        BY <2>1, <2>2
<1> QED
    BY <1>1, <1>3, <1>4 DEF u

-----------------------------------------------------------------------------
\* The frame of entry i, and what cells files are made of.
FrameOf(i) == EncodeFrame(i, Payload(i))
Cell == {Num(n) : n \in Nat} \cup {Digest(i, Payload(i)) : i \in Nat}

LEMMA FrameCells ==
    ASSUME lens \in Seq(Nat), NEW i \in DOMAIN lens, lens[i] < LenLimit
    PROVE  /\ FrameOf(i) \in Seq(Cell) /\ Len(FrameOf(i)) = HeaderLen + lens[i]
           /\ FrameOf(i)[1] = Num(i) /\ FrameOf(i)[2] = Num(lens[i])
           /\ \A j \in 1..lens[i] : FrameOf(i)[HeaderLen + j] = Payload(i)[j]
           /\ Payload(i) \in Seq(Cell) /\ Len(Payload(i)) = lens[i]
<1> DEFINE n == lens[i]
           p == Payload(i)
           h == <<Num(i), Num(n), Digest(i, p)>>
<1>1. i \in Nat /\ n \in Nat /\ n < LenLimit
    OBVIOUS
<1>2. \A j \in 1..n : 10 * i + j \in Nat
    BY <1>1
<1>3. p = [j \in 1..n |-> Num(10 * i + j)]
    BY DEF Payload
<1>4. Num(i) \in Cell /\ Num(n) \in Cell /\ Digest(i, p) \in Cell
      /\ \A j \in 1..n : Num(10 * i + j) \in Cell
    BY <1>1, <1>2, Zenon DEF Cell
<1> HIDE DEF n
<1>5. p \in Seq(Cell) /\ Len(p) = n
    <2> HIDE DEF p
    <2> QED
        BY <1>1, <1>3, <1>4
<1>6. n % LenLimit = n
    BY <1>1, LenLimitAssumption
<1>7. FrameOf(i) = h \o p
    BY <1>5, <1>6 DEF FrameOf, EncodeFrame
<1> HIDE DEF p
<1>8. h \in Seq(Cell) /\ Len(h) = 3 /\ h[1] = Num(i) /\ h[2] = Num(n)
    BY <1>4
<1> HIDE DEF h
<1>9. /\ h \o p \in Seq(Cell) /\ Len(h \o p) = 3 + n
      /\ (h \o p)[1] = h[1] /\ (h \o p)[2] = h[2]
      /\ \A j \in 1..n : (h \o p)[3 + j] = p[j]
    <2>1. /\ h \o p \in Seq(Cell) /\ Len(h \o p) = Len(h) + Len(p)
          /\ \A j \in 1..Len(h) : (h \o p)[j] = h[j]
          /\ \A j \in 1..Len(p) : (h \o p)[Len(h) + j] = p[j]
        <3>1. h \in Seq(Cell) /\ p \in Seq(Cell)
            BY <1>5, <1>8
        <3> QED
            BY <3>1, Joined
    <2>2. 1 \in 1..Len(h) /\ 2 \in 1..Len(h)
        BY <1>8
    <2> QED
        BY <1>5, <1>8, <2>1, <2>2
<1> QED
    BY <1>5, <1>7, <1>8, <1>9 DEF HeaderLen, n, p

(***************************************************************************)
(* Each frame is where Offset says.                                        *)
(***************************************************************************)
LEMMA WrittenIs ==
    ASSUME lens \in Seq(Nat), \A i \in DOMAIN lens : lens[i] < LenLimit
    PROVE  /\ Written \in Seq(Cell) /\ Len(Written) = Offset(Len(lens))
           /\ \A i \in DOMAIN lens : \A j \in 1..(HeaderLen + lens[i]) :
                Written[Offset(i - 1) + j] = FrameOf(i)[j]
<1> DEFINE n == Len(lens)
           parts == [i \in DOMAIN lens |-> FrameOf(i)]
<1>1. n \in Nat /\ DOMAIN lens = 1..n /\ \A i \in 1..n : lens[i] \in Nat
    OBVIOUS
<1>2. /\ Offset(0) = 0
      /\ \A i \in 1..n : Offset(i) = Offset(i - 1) + HeaderLen + lens[i]
    BY <1>1, OffsetRounds
<1>3. /\ \A i \in 0..n : Offset(i) \in Nat
      /\ \A i \in 0..n : \A j \in 0..i : Offset(j) <= Offset(i)
    BY OffsetsAscend
<1>4. \A i \in 1..n : FrameOf(i) \in Seq(Cell) /\ Len(FrameOf(i)) = HeaderLen + lens[i]
    BY <1>1, FrameCells
<1>5. Written = FlattenSeq(parts)
    BY DEF Written, FrameOf
<1> HIDE DEF n
<1>6. parts \in Seq(Seq(Cell)) /\ Len(parts) = n /\ \A i \in 1..n : parts[i] = FrameOf(i)
    <2>1. parts = [i \in 1..n |-> FrameOf(i)]
        BY <1>1
    <2> HIDE DEF parts
    <2> QED
        BY <1>1, <1>4, <2>1
<1> HIDE DEF parts
<1>7. CASE n = 0
    <2>1. Written = <<>>
        BY <1>5, <1>6, <1>7 DEF FlattenSeq
    <2> QED
        BY <1>1, <1>2, <1>7, <2>1 DEF n
<1>8. CASE n # 0
    <2>1. PICK f : /\ FlattenSeq(parts) = f[n] /\ f[1] = parts[1]
                   /\ \A i \in 2..n : f[i] = f[i - 1] \o parts[i]
        <3>1. n \in Nat \ {0}
            BY <1>1, <1>8
        <3> QED
            BY <1>6, <3>1, FlattenRounds
    <2> DEFINE Laid(k) ==
                    /\ f[k] \in Seq(Cell) /\ Len(f[k]) = Offset(k)
                    /\ \A i \in 1..k : \A j \in 1..(HeaderLen + lens[i]) :
                        f[k][Offset(i - 1) + j] = FrameOf(i)[j]
               S == {k \in 0..(n - 1) : Laid(k + 1)}
    <2>2. Laid(1)
        <3>1. 1 \in 1..n /\ f[1] = FrameOf(1) /\ Offset(1) = HeaderLen + lens[1]
            <4>1. 1 \in 1..n /\ lens[1] \in Nat
                BY <1>1, <1>8
            <4>2. Offset(1) = Offset(1 - 1) + HeaderLen + lens[1] /\ Offset(1 - 1) = 0
                BY <1>2, <4>1
            <4> QED
                BY <1>6, <2>1, <4>1, <4>2 DEF HeaderLen
        <3>2. \A i \in 1..1 : i = 1 /\ Offset(i - 1) = 0
            BY <1>2
        <3>3. \A i \in 1..1 : \A j \in 1..(HeaderLen + lens[i]) : Offset(i - 1) + j = j
            BY <1>1, <3>1, <3>2 DEF HeaderLen
        <3> QED
            BY <1>4, <3>1, <3>2, <3>3
    <2>3. ASSUME NEW k \in 1..(n - 1), Laid(k)
          PROVE  Laid(k + 1)
        <3>1. k + 1 \in 2..n /\ k + 1 \in 1..n /\ (k + 1) - 1 = k /\ k \in 0..n
            BY <1>1
        <3>2. f[k + 1] = f[k] \o FrameOf(k + 1)
            BY <1>6, <2>1, <3>1
        <3>3. Offset(k + 1) = Offset(k) + HeaderLen + lens[k + 1]
            BY <1>2, <3>1
        <3>4. /\ FrameOf(k + 1) \in Seq(Cell)
              /\ Len(FrameOf(k + 1)) = HeaderLen + lens[k + 1]
              /\ Offset(k) \in Nat /\ lens[k + 1] \in Nat
            BY <1>1, <1>3, <1>4, <3>1
        <3>5. f[k] \in Seq(Cell) /\ Len(f[k]) = Offset(k)
            BY <2>3
        <3>8. /\ f[k + 1] \in Seq(Cell) /\ Len(f[k + 1]) = Offset(k) + Len(FrameOf(k + 1))
              /\ \A j \in 1..Offset(k) : f[k + 1][j] = f[k][j]
              /\ \A j \in 1..Len(FrameOf(k + 1)) :
                    f[k + 1][Offset(k) + j] = FrameOf(k + 1)[j]
            <4> DEFINE s == f[k]
                       t == FrameOf(k + 1)
            <4>1. s \in Seq(Cell) /\ t \in Seq(Cell)
                BY <3>4, <3>5
            <4>2. Len(s) = Offset(k) /\ f[k + 1] = s \o t
                BY <3>2, <3>5
            <4> HIDE DEF s, t
            <4>3. /\ s \o t \in Seq(Cell) /\ Len(s \o t) = Len(s) + Len(t)
                  /\ \A j \in 1..Len(s) : (s \o t)[j] = s[j]
                  /\ \A j \in 1..Len(t) : (s \o t)[Len(s) + j] = t[j]
                BY <4>1, Joined
            <4>4. /\ f[k + 1] \in Seq(Cell) /\ Len(f[k + 1]) = Offset(k) + Len(t)
                  /\ \A j \in 1..Offset(k) : f[k + 1][j] = s[j]
                  /\ \A j \in 1..Len(t) : f[k + 1][Offset(k) + j] = t[j]
                BY <4>2, <4>3, Zenon
            <4> QED
                BY <4>4 DEF s, t
        <3>6. f[k + 1] \in Seq(Cell) /\ Len(f[k + 1]) = Offset(k + 1)
            <4>1. f[k + 1] \in Seq(Cell) /\ Len(f[k + 1]) = Offset(k) + Len(FrameOf(k + 1))
                BY <3>8
            <4>2. Offset(k + 1) = Offset(k) + Len(FrameOf(k + 1))
                <5> DEFINE a == Offset(k)
                           b == Offset(k + 1)
                           c == lens[k + 1]
                           d == Len(FrameOf(k + 1))
                <5>1. a \in Nat /\ c \in Nat /\ b = a + 3 + c /\ d = 3 + c
                    BY <3>3, <3>4 DEF HeaderLen
                <5> HIDE DEF a, b, c, d
                <5>2. b = a + d
                    BY <5>1
                <5> QED
                    BY <5>2 DEF a, b, d
            <4> QED
                BY <4>1, <4>2
        <3>7. ASSUME NEW i \in 1..(k + 1), NEW j \in 1..(HeaderLen + lens[i])
              PROVE  f[k + 1][Offset(i - 1) + j] = FrameOf(i)[j]
            <4>1. CASE i = k + 1
                <5>1. Offset(i - 1) = Offset(k) /\ j \in 1..Len(FrameOf(k + 1))
                    BY <3>1, <3>4, <4>1
                <5> QED
                    BY <3>8, <4>1, <5>1
            <4>2. CASE i # k + 1
                <5>1. i \in 1..k /\ i \in 1..n /\ i - 1 \in 0..n /\ i \in 0..k
                    BY <1>1, <3>1, <4>2
                <5>2. f[k][Offset(i - 1) + j] = FrameOf(i)[j]
                    BY <2>3, <5>1
                <5>3. Offset(i) = Offset(i - 1) + HeaderLen + lens[i] /\ Offset(i) <= Offset(k)
                    BY <1>2, <1>3, <3>1, <5>1
                <5>4. Offset(i - 1) \in Nat /\ lens[i] \in Nat
                    BY <1>1, <1>3, <5>1
                <5>5. Offset(i - 1) + j \in 1..Offset(k)
                    <6> DEFINE a == Offset(i - 1)
                               b == Offset(i)
                               c == Offset(k)
                    <6>1. /\ a \in Nat /\ c \in Nat /\ lens[i] \in Nat /\ b = a + 3 + lens[i]
                          /\ b <= c /\ j \in 1..(3 + lens[i])
                        BY <3>4, <5>3, <5>4 DEF HeaderLen
                    <6> HIDE DEF a, b, c
                    <6>2. a + j \in 1..c
                        BY <6>1
                    <6> QED
                        BY <6>2 DEF a, c
                <5> QED
                    BY <3>8, <5>2, <5>5
            <4> QED
                BY <4>1, <4>2
        <3> QED
            BY <3>6, <3>7
    <2> HIDE DEF Laid
    <2>4. 0 \in S
        BY <1>1, <1>8, <2>2
    <2>5. ASSUME NEW k \in 0..((n - 1) - 1), k \in S
          PROVE  k + 1 \in S
        <3>1. k + 1 \in 1..(n - 1) /\ k + 1 \in 0..(n - 1)
            BY <1>1
        <3> QED
            BY <2>3, <2>5, <3>1
    <2> HIDE DEF S
    <2>6. n - 1 \in Nat /\ n - 1 \in 0..(n - 1) /\ (n - 1) + 1 = n
        BY <1>1, <1>8
    <2>7. n - 1 \in S
        BY <2>4, <2>5, <2>6, UpTo
    <2>8. Laid(n)
        BY <2>6, <2>7 DEF S
    <2> QED
        BY <1>1, <1>5, <2>1, <2>8 DEF Laid, n
<1> QED
    BY <1>7, <1>8

-----------------------------------------------------------------------------
(***************************************************************************)
(* The scanner.                                                            *)
(***************************************************************************)
\* What the scanner meets after n frames of an intact file.
LEMMA AtFrame ==
    ASSUME MaxPayload < LenLimit, lens \in Seq(0..MaxPayload), cells = Written,
           NEW n \in 0..Len(lens)
    PROVE  /\ Offset(0) = 0 /\ Offset(n) \in Nat /\ Len(cells) \in Nat
           /\ Offset(n) <= Len(cells)
           /\ n = Len(lens) => PeekHeader(cells, Offset(n)) = "eof"
           /\ n # Len(lens) =>
                /\ n + 1 \in DOMAIN lens /\ n + 1 \in 0..Len(lens) /\ lens[n + 1] \in Nat
                /\ PeekHeader(cells, Offset(n)) = "header"
                /\ IdAt(cells, Offset(n)) = n + 1
                /\ PayloadLenAt(cells, Offset(n)) = lens[n + 1]
                /\ Offset(n + 1) = Offset(n) + HeaderLen + lens[n + 1]
                /\ FrameEnd(cells, Offset(n)) = Offset(n + 1)
<1>1. MaxPayload \in Nat /\ LenLimit \in Nat
    BY ReadBoundsAssumption, LenLimitAssumption
<1>2. lens \in Seq(Nat) /\ \A i \in DOMAIN lens : lens[i] \in Nat /\ lens[i] < LenLimit
    BY <1>1
<1>3. /\ Written \in Seq(Cell) /\ Len(Written) = Offset(Len(lens))
      /\ \A i \in DOMAIN lens : \A j \in 1..(HeaderLen + lens[i]) :
            Written[Offset(i - 1) + j] = FrameOf(i)[j]
    BY <1>2, WrittenIs
<1>4. /\ \A i \in 0..Len(lens) : Offset(i) \in Nat
      /\ \A i \in 0..Len(lens) : \A j \in 0..i : Offset(j) <= Offset(i)
    BY <1>2, OffsetsAscend
<1>5. /\ Len(lens) \in Nat /\ DOMAIN lens = 1..Len(lens)
      /\ Len(lens) \in 0..Len(lens) /\ 0 \in 0..Len(lens)
    BY <1>2
<1>6. /\ Offset(0) = 0
      /\ \A i \in 1..Len(lens) : Offset(i) = Offset(i - 1) + HeaderLen + lens[i]
    BY <1>5, OffsetRounds
<1>7. /\ Offset(n) \in Nat /\ Len(cells) \in Nat /\ Offset(n) <= Len(cells)
      /\ Len(cells) = Offset(Len(lens))
    BY <1>3, <1>4, <1>5
<1>8. ASSUME n = Len(lens)
      PROVE  PeekHeader(cells, Offset(n)) = "eof"
    BY <1>7, <1>8 DEF PeekHeader
<1>9. ASSUME n # Len(lens)
      PROVE  /\ n + 1 \in DOMAIN lens /\ n + 1 \in 0..Len(lens) /\ lens[n + 1] \in Nat
             /\ PeekHeader(cells, Offset(n)) = "header"
             /\ IdAt(cells, Offset(n)) = n + 1
             /\ PayloadLenAt(cells, Offset(n)) = lens[n + 1]
             /\ Offset(n + 1) = Offset(n) + HeaderLen + lens[n + 1]
             /\ FrameEnd(cells, Offset(n)) = Offset(n + 1)
    <2>1. /\ n + 1 \in 1..Len(lens) /\ n + 1 \in DOMAIN lens /\ n + 1 \in 0..Len(lens)
          /\ (n + 1) - 1 = n /\ lens[n + 1] \in Nat
        <3> DEFINE m == Len(lens)
        <3>1. m \in Nat /\ n \in 0..m /\ n # m
            BY <1>5, <1>9
        <3> HIDE DEF m
        <3>2. n + 1 \in 1..m /\ n + 1 \in 0..m /\ (n + 1) - 1 = n
            BY <3>1
        <3> QED
            BY <1>2, <1>5, <3>2 DEF m
    <2>2. Offset(n + 1) = Offset(n) + HeaderLen + lens[n + 1]
        BY <1>6, <2>1
    <2>3. Offset(n + 1) \in Nat /\ Offset(n + 1) <= Len(cells)
        BY <1>4, <1>5, <1>7, <2>1
    <2>4. PeekHeader(cells, Offset(n)) = "header"
        BY <1>7, <2>1, <2>2, <2>3 DEF PeekHeader, HeaderLen
    <2>5. /\ FrameOf(n + 1)[1] = Num(n + 1) /\ FrameOf(n + 1)[2] = Num(lens[n + 1])
        BY <1>2, <2>1, FrameCells
    <2>6. 1 \in 1..(HeaderLen + lens[n + 1]) /\ 2 \in 1..(HeaderLen + lens[n + 1])
        BY <2>1 DEF HeaderLen
    <2>7. cells[Offset(n) + 1] = Num(n + 1) /\ cells[Offset(n) + 2] = Num(lens[n + 1])
        BY <1>3, <2>1, <2>5, <2>6
    <2>8. IdAt(cells, Offset(n)) = n + 1 /\ PayloadLenAt(cells, Offset(n)) = lens[n + 1]
        BY <2>7 DEF IdAt, PayloadLenAt, AsNumber, Num
    <2> QED
        BY <2>1, <2>2, <2>4, <2>8 DEF FrameEnd
<1> QED
    BY <1>6, <1>7, <1>8, <1>9

\* The payload of a frame ends where the frame does.
LEMMA PayloadPlace ==
    ASSUME MaxPayload < LenLimit, lens \in Seq(0..MaxPayload), cells = Written,
           NEW n \in DOMAIN lens
    PROVE  /\ Payload(n) \in Seq(Cell) /\ Len(Payload(n)) = lens[n] /\ lens[n] \in Nat
           /\ Offset(n) \in Nat /\ Offset(n) <= Len(cells) /\ cells \in Seq(Cell)
           /\ Offset(n) - lens[n] \in Nat
           /\ \A j \in 1..lens[n] : cells[Offset(n) - lens[n] + j] = Payload(n)[j]
<1>1. lens \in Seq(Nat) /\ \A i \in DOMAIN lens : lens[i] \in Nat /\ lens[i] < LenLimit
    BY ReadBoundsAssumption, LenLimitAssumption
<1>2. /\ n \in 1..Len(lens) /\ n \in 0..Len(lens) /\ n - 1 \in 0..Len(lens)
      /\ n - 1 # Len(lens) /\ (n - 1) + 1 = n
    BY <1>1
<1>3. /\ cells \in Seq(Cell)
      /\ \A j \in 1..(HeaderLen + lens[n]) : cells[Offset(n - 1) + j] = FrameOf(n)[j]
    BY <1>1, WrittenIs
<1>4. /\ Payload(n) \in Seq(Cell) /\ Len(Payload(n)) = lens[n]
      /\ \A j \in 1..lens[n] : FrameOf(n)[HeaderLen + j] = Payload(n)[j]
    BY <1>1, FrameCells
<1>5. Offset(n) \in Nat /\ Offset(n) <= Len(cells)
    BY <1>2, AtFrame
<1>6. Offset(n - 1) \in Nat /\ Offset(n) = Offset(n - 1) + HeaderLen + lens[n]
    BY <1>2, AtFrame
<1> DEFINE a == Offset(n - 1)
           b == Offset(n)
           len == lens[n]
<1>7. a \in Nat /\ len \in Nat /\ b = a + 3 + len
    BY <1>1, <1>6 DEF HeaderLen
<1> HIDE DEF a, b, len
<1>8. /\ b - len \in Nat
      /\ \A j \in 1..len : b - len + j = a + (3 + j) /\ 3 + j \in 1..(3 + len)
    BY <1>7
<1>9. ASSUME NEW j \in 1..len PROVE cells[b - len + j] = Payload(n)[j]
    <2>1. cells[a + (3 + j)] = FrameOf(n)[3 + j]
        BY <1>3, <1>8 DEF HeaderLen, a, len
    <2>2. FrameOf(n)[3 + j] = Payload(n)[j]
        BY <1>4 DEF HeaderLen, len
    <2> QED
        BY <1>8, <2>1, <2>2
<1> QED
    BY <1>3, <1>4, <1>5, <1>7, <1>8, <1>9 DEF b, len

\* The entries written do not change.
LEMMA WrittenStays ==
    ASSUME UNCHANGED lens
    PROVE  /\ \A i : Offset(i)' = Offset(i)
           /\ \A i : Payload(i)' = Payload(i)
           /\ Written' = Written
    BY DEF Offset, Payload, Written

LEMMA Wanted ==
    ASSUME target \in Nat
    PROVE  /\ FirstWanted \in Nat \ {0} /\ FirstWanted >= target
           /\ FirstWanted = target \/ FirstWanted = 1
<1> DEFINE m == IF target >= 1 THEN target ELSE 1
<1>1. m \in {target, 1} /\ \A y \in {target, 1} : m >= y
    OBVIOUS
<1>2. FirstWanted \in {target, 1} /\ \A y \in {target, 1} : FirstWanted >= y
    <2> HIDE DEF m
    <2> QED
        BY <1>1 DEF FirstWanted, Max
<1> QED
    BY <1>2

-----------------------------------------------------------------------------
(***************************************************************************)
(* The steps.                                                              *)
(***************************************************************************)
\* Before the first entry that is wanted none is yielded.
LEMMA NoneYielded ==
    ASSUME NEW n \in Nat, n < FirstWanted, yielded = <<>>, FirstWanted \in Nat
    PROVE  YieldedTo(n)
<1> DEFINE g == [i \in 1..0 |-> FirstWanted + i - 1]
<1>1. g \in Seq(Nat) /\ Len(g) = 0
    OBVIOUS
<1>2. g = <<>>
    <2> HIDE DEF g
    <2> QED
        BY <1>1, EmptySeq
<1>3. Len(yielded) = 0 /\ ~(n >= FirstWanted)
    OBVIOUS
<1>4. yielded = [i \in 1..Len(yielded) |-> FirstWanted + i - 1]
    BY <1>2, <1>3, Zenon
<1> QED
    BY <1>3, <1>4 DEF YieldedTo

\* seek_to_id and scan_to_after start at the first frame.
LEMMA NewScannerStep ==
    ASSUME MaxPayload < LenLimit, ReadInv, NewScanner("seek") \/ NewScanner("after")
    PROVE  ReadInv'
<1>1. /\ pc = "closed" /\ cells = Written /\ pc' \in {"seek", "after"}
      /\ target' \in 0..MaxEntry /\ UNCHANGED <<lens, cells, rpos, peeked, callerVars>>
      /\ \E i \in 0..Len(lens) : offset' = Offset(i) /\ position' = Offset(i)
    BY DEF NewScanner
<1>2. /\ lens \in Seq(0..MaxPayload) /\ Len(lens) <= MaxEntry
      /\ reader = NoReader /\ yielded = <<>> /\ peeked = NoPeek /\ rpos = 0 /\ empties = 0
    BY <1>1 DEF ReadInv
<1>3. offset' \in Nat /\ position' = offset'
    BY <1>1, <1>2, AtFrame
<1>4. 0 \in 0..Len(lens) /\ Offset(0) = 0
    <2>1. 0 \in 0..Len(lens)
        BY <1>2
    <2> QED
        BY <1>1, <1>2, <2>1, AtFrame
<1>5. Offset(0)' = 0 /\ Written' = Written
    BY <1>1, <1>4, WrittenStays
<1>6. FirstWanted' \in Nat \ {0}
    <2>1. target' \in Nat
        BY <1>1, ReadBoundsAssumption
    <2>2. \A t \in Nat : Max({t, 1}) \in Nat \ {0}
        <3> SUFFICES ASSUME NEW t \in Nat PROVE Max({t, 1}) \in Nat \ {0}
            OBVIOUS
        <3>1. \E m \in {t, 1} : \A y \in {t, 1} : m >= y
            OBVIOUS
        <3>2. Max({t, 1}) \in {t, 1} /\ \A y \in {t, 1} : Max({t, 1}) >= y
            BY <3>1 DEF Max
        <3> QED
            BY <3>2
    <2> QED
        BY <2>1, <2>2 DEF FirstWanted
<1>7. Between(0)'
    <2>1. /\ reader' = NoReader /\ yielded' = <<>> /\ peeked' = NoPeek /\ empties' = 0
          /\ rpos' = 0 /\ pc' \in {"seek", "after"}
        BY <1>1, <1>2 DEF callerVars
    <2>2. HeaderAt' = 0
        BY <2>1 DEF HeaderAt
    <2>3. 0 = position' - offset' + HeaderLen * empties'
        <3>1. HeaderLen * empties' = 0
            BY <2>1 DEF HeaderLen
        <3>2. \A k \in Nat : 0 = k - k + 0
            OBVIOUS
        <3> QED
            BY <1>3, <3>1, <3>2
    <2>4. 0 < FirstWanted' /\ target' \notin 1..0
        BY <1>6
    <2> QED
        BY <1>5, <2>1, <2>2, <2>3, <2>4 DEF Between
<1>8. empties' \in Nat /\ position' \in Nat /\ 0 \in 0..Len(lens)'
    BY <1>1, <1>2, <1>3, <1>4 DEF callerVars
<1> QED
    BY <1>1, <1>2, <1>3, <1>5, <1>7, <1>8 DEF ReadInv

\* An open scanner between two frames.
LEMMA BetweenFrames ==
    ASSUME MaxPayload < LenLimit, ReadInv, pc \notin {"closed", "entry"}
    PROVE  /\ cells = Written /\ lens \in Seq(0..MaxPayload) /\ Len(lens) <= MaxEntry
           /\ target \in Nat /\ target \in 0..MaxEntry
           /\ offset \in Nat /\ position \in Nat /\ empties \in Nat
           /\ FirstWanted \in Nat \ {0} /\ FirstWanted >= target
           /\ FirstWanted = target \/ FirstWanted = 1
           /\ \E n \in 0..Len(lens) : Between(n)
<1>1. /\ cells = Written /\ lens \in Seq(0..MaxPayload) /\ Len(lens) <= MaxEntry
      /\ target \in 0..MaxEntry /\ offset \in Nat /\ position \in Nat /\ empties \in Nat
      /\ \E n \in 0..Len(lens) : Between(n)
    BY DEF ReadInv
<1>2. target \in Nat
    BY <1>1, ReadBoundsAssumption
<1> QED
    BY <1>1, <1>2, Wanted

\* A frame that is skipped is passed as a whole.
LEMMA SkippedFrame ==
    ASSUME MaxPayload < LenLimit, ReadInv, pc \in {"seek", "after"},
           NEW n \in 0..Len(lens), Between(n), ~AtEof
    PROVE  /\ n # Len(lens) /\ peeked = NoPeek /\ HeaderAt = rpos /\ FrameStart = position
           /\ rpos = Offset(n) /\ IdAt(cells, HeaderAt) = n + 1 /\ n + 1 \in 0..Len(lens)
           /\ SkipFrame /\ UNCHANGED <<lens, offset, empties>> =>
                /\ rpos' = Offset(n + 1) /\ peeked' = NoPeek /\ position' \in Nat
                /\ rpos' = position' - offset' + HeaderLen * empties'
<1>1. pc \notin {"closed", "entry"} /\ pc # "read"
    OBVIOUS
<1>2. /\ cells = Written /\ lens \in Seq(0..MaxPayload)
      /\ offset \in Nat /\ position \in Nat /\ empties \in Nat
    BY <1>1, BetweenFrames
<1>3. peeked = NoPeek
    BY <1>1 DEF Between
<1>4. HeaderAt = rpos /\ FrameStart = position /\ rpos = Offset(n)
      /\ rpos = position - offset + HeaderLen * empties
    BY <1>3 DEF HeaderAt, FrameStart, Between
<1>5. n # Len(lens)
    BY <1>2, <1>3, <1>4, AtFrame DEF AtEof
<1>6. /\ n + 1 \in 0..Len(lens) /\ lens[n + 1] \in Nat /\ Offset(n) \in Nat
      /\ IdAt(cells, rpos) = n + 1 /\ PayloadLenAt(cells, rpos) = lens[n + 1]
      /\ Offset(n + 1) = rpos + HeaderLen + lens[n + 1]
      /\ FrameEnd(cells, rpos) = Offset(n + 1)
    BY <1>2, <1>4, <1>5, AtFrame
<1>7. ASSUME SkipFrame, UNCHANGED <<lens, offset, empties>>
      PROVE  /\ rpos' = Offset(n + 1) /\ peeked' = NoPeek /\ position' \in Nat
             /\ rpos' = position' - offset' + HeaderLen * empties'
    <2>1. rpos' = Offset(n + 1) /\ peeked' = NoPeek
          /\ position' = position + HeaderLen + lens[n + 1]
        BY <1>4, <1>6, <1>7 DEF SkipFrame, NextFrame
    <2> DEFINE len == lens[n + 1]
               next == Offset(n + 1)
    <2>2. len \in Nat /\ next = rpos + 3 + len /\ position' = position + 3 + len
          /\ rpos = position - offset + 3 * empties /\ rpos' = next
        BY <1>4, <1>6, <2>1 DEF HeaderLen
    <2> HIDE DEF len, next
    <2>3. position' \in Nat /\ rpos' = position' - offset' + 3 * empties'
        BY <1>2, <1>7, <2>2
    <2> QED
        BY <2>1, <2>3 DEF HeaderLen
<1> QED
    BY <1>3, <1>4, <1>5, <1>6, <1>7

LEMMA SeekStep ==
    ASSUME MaxPayload < LenLimit, ReadInv, SeekToId
    PROVE  ReadInv'
<1>1. pc = "seek" /\ pc \notin {"closed", "entry"}
      /\ UNCHANGED <<lens, cells, offset, target, callerVars>>
    BY DEF SeekToId
<1>2. /\ cells = Written /\ lens \in Seq(0..MaxPayload) /\ Len(lens) <= MaxEntry
      /\ target \in Nat /\ target \in 0..MaxEntry
      /\ offset \in Nat /\ position \in Nat /\ empties \in Nat
      /\ FirstWanted \in Nat \ {0} /\ FirstWanted >= target
      /\ FirstWanted = target \/ FirstWanted = 1
    BY <1>1, BetweenFrames
<1>3. PICK n \in 0..Len(lens) : Between(n)
    BY <1>1, BetweenFrames
<1>4. /\ reader = NoReader /\ HeaderAt = Offset(n) /\ peeked = NoPeek
      /\ HeaderAt = position - offset + HeaderLen * empties
      /\ n < FirstWanted /\ yielded = <<>>
    BY <1>1, <1>3 DEF Between
<1>5. rpos = Offset(n) /\ FrameStart = position /\ HeaderAt = rpos
    BY <1>4 DEF HeaderAt, FrameStart
<1>6. /\ \A i : Offset(i)' = Offset(i) /\ Written' = Written /\ FirstWanted' = FirstWanted
      /\ reader' = NoReader /\ yielded' = <<>> /\ empties' = empties
    BY <1>1, <1>4, WrittenStays DEF callerVars, FirstWanted
<1>7. n \in Nat /\ Len(lens) \in Nat /\ Len(lens)' = Len(lens)
    BY <1>1, <1>2
<1>8. YieldedTo(n)'
    <2>1. YieldedTo(n)
        BY <1>2, <1>4, <1>7, NoneYielded
    <2> QED
        BY <1>4, <1>6, <2>1 DEF YieldedTo
<1>9. SUFFICES /\ position' \in Nat /\ pc' \in {"seek", "read"}
               /\ \E k \in 0..Len(lens) : Between(k)'
    BY <1>1, <1>2, <1>6, <1>7 DEF ReadInv
<1>10. CASE AtEof
    <2>1. n = Len(lens)
        BY <1>2, <1>5, <1>10, AtFrame DEF AtEof
    <2>2. pc' = "read" /\ rpos' = rpos /\ peeked' = NoPeek /\ position' = position
        BY <1>10 DEF SeekToId
    <2>3. Between(n)'
        BY <1>1, <1>4, <1>5, <1>6, <1>7, <1>8, <2>1, <2>2 DEF Between, HeaderAt
    <2> QED
        BY <1>2, <2>2, <2>3
<1>11. CASE ~AtEof
    <2>1. n # Len(lens) /\ IdAt(cells, HeaderAt) = n + 1 /\ n + 1 \in 0..Len(lens)
        BY <1>1, <1>3, <1>11, SkippedFrame
    <2>2. CASE n + 1 >= target
        <3>1. pc' = "read" /\ rpos' = rpos + HeaderLen /\ peeked' = position
              /\ position' = position
            BY <1>5, <1>11, <2>1, <2>2 DEF SeekToId
        <3>2. peeked' # NoPeek
            BY <1>2, <3>1 DEF NoPeek
        <3>3. HeaderAt' = rpos
            <4>1. HeaderAt' = rpos' - HeaderLen /\ rpos \in Nat
                BY <1>2, <1>5, <3>2, AtFrame DEF HeaderAt
            <4> QED
                BY <3>1, <4>1 DEF HeaderLen
        <3>4. n >= FirstWanted - 1 /\ n < Len(lens)
            BY <1>2, <1>4, <1>7, <2>1, <2>2
        <3>5. Between(n)'
            BY <1>1, <1>4, <1>5, <1>6, <1>7, <1>8, <3>1, <3>3, <3>4 DEF Between
        <3> QED
            BY <1>2, <3>1, <3>5
    <2>3. CASE ~(n + 1 >= target)
        <3>1. SkipFrame /\ pc' = "seek"
            BY <1>1, <1>11, <2>1, <2>3 DEF SeekToId
        <3>2. /\ rpos' = Offset(n + 1) /\ peeked' = NoPeek /\ position' \in Nat
              /\ rpos' = position' - offset' + HeaderLen * empties'
            BY <1>1, <1>3, <1>6, <1>11, <3>1, SkippedFrame
        <3>3. HeaderAt' = rpos' /\ n + 1 < FirstWanted
            BY <1>2, <1>7, <2>3, <3>2 DEF HeaderAt
        <3>4. Between(n + 1)'
            BY <1>6, <3>1, <3>2, <3>3 DEF Between
        <3> QED
            BY <2>1, <3>1, <3>2, <3>4
    <2> QED
        BY <2>2, <2>3
<1> QED
    BY <1>10, <1>11

LEMMA AfterStep ==
    ASSUME MaxPayload < LenLimit, ReadInv, ScanToAfterStep
    PROVE  ReadInv'
<1>1. pc = "after" /\ pc \notin {"closed", "entry"}
      /\ UNCHANGED <<lens, cells, offset, target, callerVars>>
    BY DEF ScanToAfterStep
<1>2. /\ cells = Written /\ lens \in Seq(0..MaxPayload) /\ Len(lens) <= MaxEntry
      /\ target \in Nat /\ target \in 0..MaxEntry
      /\ offset \in Nat /\ position \in Nat /\ empties \in Nat
    BY <1>1, BetweenFrames
<1>3. PICK n \in 0..Len(lens) : Between(n)
    BY <1>1, BetweenFrames
<1>4. /\ reader = NoReader /\ HeaderAt = Offset(n) /\ peeked = NoPeek
      /\ HeaderAt = position - offset + HeaderLen * empties
      /\ target \notin 1..n /\ empties = 0 /\ yielded = <<>>
    BY <1>1, <1>3 DEF Between
<1>5. rpos = Offset(n) /\ FrameStart = position /\ HeaderAt = rpos
    BY <1>4 DEF HeaderAt, FrameStart
<1>6. /\ \A i : Offset(i)' = Offset(i) /\ Written' = Written
      /\ reader' = NoReader /\ yielded' = <<>> /\ empties' = 0 /\ empties' = empties
    BY <1>1, <1>4, WrittenStays DEF callerVars
<1>7. n \in Nat /\ Len(lens) \in Nat /\ Len(lens)' = Len(lens)
    BY <1>1, <1>2
<1>8. SUFFICES /\ position' \in Nat /\ pc' \in {"after", "found", "notfound"}
               /\ \E k \in 0..Len(lens) : Between(k)'
    BY <1>1, <1>2, <1>6, <1>7 DEF ReadInv
<1>9. CASE AtEof
    <2>1. n = Len(lens)
        BY <1>2, <1>5, <1>9, AtFrame DEF AtEof
    <2>2. pc' = "notfound" /\ rpos' = rpos /\ peeked' = NoPeek /\ position' = position
        BY <1>4, <1>9 DEF ScanToAfterStep, scannerVars
    <2>3. HeaderAt' = HeaderAt
        BY <1>5, <2>2 DEF HeaderAt
    <2>4. Between(n)'
        BY <1>1, <1>4, <1>6, <1>7, <2>1, <2>2, <2>3 DEF Between
    <2> QED
        BY <1>2, <2>2, <2>4
<1>10. CASE ~AtEof
    <2>1. n # Len(lens) /\ IdAt(cells, HeaderAt) = n + 1 /\ n + 1 \in 0..Len(lens)
        BY <1>1, <1>3, <1>10, SkippedFrame
    <2>2. SkipFrame /\ pc' = IF n + 1 = target THEN "found" ELSE "after"
        BY <1>10, <2>1 DEF ScanToAfterStep
    <2>3. /\ rpos' = Offset(n + 1) /\ peeked' = NoPeek /\ position' \in Nat
          /\ rpos' = position' - offset' + HeaderLen * empties'
        BY <1>1, <1>3, <1>6, <1>10, <2>2, SkippedFrame
    <2>4. HeaderAt' = rpos'
        BY <2>3 DEF HeaderAt
    <2>5. n + 1 # target => target \notin 1..(n + 1)
        BY <1>2, <1>4, <1>7
    <2>6. Between(n + 1)'
        BY <1>1, <1>6, <2>2, <2>3, <2>4, <2>5 DEF Between
    <2> QED
        BY <2>1, <2>2, <2>3, <2>6
<1> QED
    BY <1>9, <1>10

\* A header is there unless the file is read to its end.
LEMMA ReadableFrame ==
    ASSUME MaxPayload < LenLimit, ReadInv, pc = "read", NEW n \in 0..Len(lens), Between(n)
    PROVE  NoHeader <=> n = Len(lens)
<1>1. cells = Written /\ lens \in Seq(0..MaxPayload)
    BY BetweenFrames
<1>2. CASE peeked = NoPeek
    <2>1. rpos = Offset(n)
        BY <1>2 DEF Between, HeaderAt
    <2> QED
        BY <1>1, <1>2, <2>1, AtFrame DEF NoHeader
<1>3. CASE peeked # NoPeek
    BY <1>3 DEF Between, NoHeader
<1> QED
    BY <1>2, <1>3

LEMMA ReadEndStep ==
    ASSUME MaxPayload < LenLimit, ReadInv, ReadEnd
    PROVE  ReadInv'
<1>1. /\ pc = "read" /\ NoHeader /\ pc' = "done" /\ pc \notin {"closed", "entry"}
      /\ UNCHANGED <<lens, cells, offset, target, scannerVars, callerVars>>
    BY DEF ReadEnd
<1>2. PICK n \in 0..Len(lens) : Between(n)
    BY <1>1, BetweenFrames
<1>3. n = Len(lens)
    BY <1>1, <1>2, ReadableFrame
<1>4. \A i : Offset(i)' = Offset(i) /\ Written' = Written
    BY <1>1, WrittenStays
<1>5. peeked = NoPeek
    BY <1>1 DEF NoHeader
<1>6. Between(n)'
    BY <1>1, <1>2, <1>3, <1>4, <1>5
        DEF Between, HeaderAt, scannerVars, callerVars, YieldedTo, FirstWanted
<1>7. n \in 0..Len(lens)'
    BY <1>1
<1> QED
    BY <1>1, <1>4, <1>6, <1>7 DEF ReadInv, scannerVars, callerVars

\* read() hands out the next entry.
LEMMA ReadFrameStep ==
    ASSUME MaxPayload < LenLimit, ReadInv, ReadFrame
    PROVE  ReadInv'
<1> DEFINE len == PayloadLenAt(cells, HeaderAt)
           id == IdAt(cells, HeaderAt)
<1>1. /\ pc = "read" /\ ~NoHeader /\ pc' = "entry" /\ pc \notin {"closed", "entry"}
      /\ reader' = [id |-> id, remaining |-> len, payload_len |-> len,
                    frame_start |-> FrameStart]
      /\ yielded' = Append(yielded, id) /\ empties' = empties + (IF len = 0 THEN 1 ELSE 0)
      /\ rpos' = HeaderAt + HeaderLen /\ peeked' = NoPeek /\ got' = <<>>
      /\ UNCHANGED <<lens, cells, offset, target, position>>
    BY DEF ReadFrame
<1>2. /\ cells = Written /\ lens \in Seq(0..MaxPayload) /\ Len(lens) <= MaxEntry
      /\ target \in Nat /\ target \in 0..MaxEntry
      /\ offset \in Nat /\ position \in Nat /\ empties \in Nat
      /\ FirstWanted \in Nat \ {0}
    BY <1>1, BetweenFrames
<1>3. PICK n \in 0..Len(lens) : Between(n)
    BY <1>1, BetweenFrames
<1>4. /\ HeaderAt = Offset(n) /\ HeaderAt = position - offset + HeaderLen * empties
      /\ YieldedTo(n) /\ (n >= FirstWanted - 1 \/ n = Len(lens))
    BY <1>1, <1>3 DEF Between
<1>5. n # Len(lens)
    BY <1>1, <1>3, ReadableFrame
<1>6. FrameStart = position
    BY <1>3 DEF FrameStart, Between
<1>7. /\ n + 1 \in DOMAIN lens /\ n + 1 \in 0..Len(lens) /\ lens[n + 1] \in Nat
      /\ id = n + 1 /\ len = lens[n + 1]
      /\ Offset(n + 1) = Offset(n) + HeaderLen + lens[n + 1] /\ Offset(n) \in Nat
    BY <1>2, <1>4, <1>5, AtFrame
<1> HIDE DEF len, id
<1>8. /\ \A i : Offset(i)' = Offset(i) /\ Payload(i)' = Payload(i)
      /\ Written' = Written /\ FirstWanted' = FirstWanted
    BY <1>1, WrittenStays DEF FirstWanted
<1>9. n \in Nat /\ n + 1 >= FirstWanted
    BY <1>2, <1>4, <1>5
<1>10. YieldedTo(n + 1)'
    <2> DEFINE k == Len(yielded)
               w == FirstWanted
    <2>1. k = (IF n >= w THEN n - w + 1 ELSE 0) /\ yielded = [i \in 1..k |-> w + i - 1]
        BY <1>4 DEF YieldedTo
    <2> HIDE DEF k
    <2>2. k \in Nat /\ k = n + 1 - w
        BY <1>2, <1>4, <1>5, <1>9, <2>1
    <2> HIDE DEF w
    <2>3. \A i \in 1..(k + 1) : w + i - 1 \in Nat
        BY <1>2, <2>2 DEF w
    <2>4. yielded \in Seq(Nat) /\ Len(yielded) = k
        BY <2>1, <2>2, <2>3 DEF k
    <2>5. /\ yielded' \in Seq(Nat) /\ Len(yielded') = k + 1
          /\ \A i \in 1..k : yielded'[i] = yielded[i]
          /\ yielded'[k + 1] = n + 1
        <3>1. n + 1 \in Nat
            BY <1>9
        <3> QED
            BY <1>1, <1>7, <2>4, <3>1, AppendProperties
    <2>6. ASSUME NEW i \in 1..(k + 1) PROVE yielded'[i] = w + i - 1
        <3>1. CASE i = k + 1
            BY <1>2, <1>9, <2>2, <2>5, <3>1 DEF w
        <3>2. CASE i # k + 1
            <4>1. i \in 1..k
                BY <2>2, <3>2
            <4>2. yielded[i] = w + i - 1
                BY <2>1, <4>1, Zenon
            <4> QED
                BY <2>5, <4>1, <4>2
        <3> QED
            BY <3>1, <3>2
    <2>7. yielded' = [i \in 1..(k + 1) |-> w + i - 1]
        BY <2>2, <2>5, <2>6
    <2>8. k + 1 = (n + 1) - w + 1 /\ n + 1 >= w
        BY <1>2, <1>9, <2>2 DEF w
    <2> QED
        BY <1>8, <2>5, <2>7, <2>8 DEF YieldedTo, w
<1>11. rpos' = Offset(n + 1) - len
    <2> DEFINE a == Offset(n)
               b == Offset(n + 1)
    <2>1. a \in Nat /\ len \in Nat /\ b = a + 3 + len /\ rpos' = a + 3
        BY <1>1, <1>4, <1>7 DEF HeaderLen
    <2> HIDE DEF a, b
    <2>2. rpos' = b - len
        BY <2>1
    <2> QED
        BY <2>2 DEF b
<1>12. (IF len = 0 THEN position ELSE position + HeaderLen + len) - offset
            + HeaderLen * empties' = Offset(n + 1)
    <2> DEFINE a == Offset(n)
               b == Offset(n + 1)
    <2>1. /\ a \in Nat /\ len \in Nat /\ b = a + 3 + len
          /\ a = position - offset + 3 * empties
          /\ empties' = empties + (IF len = 0 THEN 1 ELSE 0)
        BY <1>1, <1>4, <1>7 DEF HeaderLen
    <2> HIDE DEF a, b
    <2>2. (IF len = 0 THEN position ELSE position + 3 + len) - offset + 3 * empties' = b
        BY <1>2, <2>1
    <2> QED
        BY <2>2 DEF b, HeaderLen
<1>13. got' = SubSeq(Payload(n + 1), 1, len - len)
    <2>1. len - len = 0
        BY <1>7
    <2> QED
        BY <1>1, <2>1, SubSeqEmpty
<1>14. Within(n + 1)'
    <2>1. /\ reader' = [id |-> n + 1, remaining |-> len, payload_len |-> len,
                        frame_start |-> position]
          /\ len \in 0..len /\ len = lens'[n + 1] /\ n + 1 \in DOMAIN lens'
        BY <1>1, <1>6, <1>7
    <2>2. /\ reader'.remaining = len /\ reader'.payload_len = len
          /\ reader'.frame_start = position
        BY <2>1
    <2>3. AfterFrame' = position + HeaderLen + len
        BY <2>2 DEF AfterFrame
    <2>4. got' = SubSeq(Payload(n + 1)', 1, lens'[n + 1] - reader'.remaining)
        BY <1>8, <1>13, <2>1, <2>2
    <2>5. rpos' = Offset(n + 1)' - reader'.remaining
        BY <1>8, <1>11, <2>2
    <2>6. (IF reader'.remaining = 0 THEN position' ELSE AfterFrame') - offset'
                + HeaderLen * empties' = Offset(n + 1)'
        BY <1>1, <1>8, <1>12, <2>2, <2>3
    <2> QED
        BY <1>1, <1>2, <1>8, <1>9, <1>10, <2>1, <2>2, <2>4, <2>5, <2>6 DEF Within
<1>15. empties' \in Nat
    BY <1>1, <1>2
<1> QED
    BY <1>1, <1>2, <1>7, <1>8, <1>14, <1>15 DEF ReadInv

\* A scanner within a frame.
LEMMA WithinFrame ==
    ASSUME MaxPayload < LenLimit, ReadInv, pc = "entry"
    PROVE  /\ cells = Written /\ lens \in Seq(0..MaxPayload) /\ Len(lens) <= MaxEntry
           /\ target \in Nat /\ target \in 0..MaxEntry
           /\ offset \in Nat /\ position \in Nat /\ empties \in Nat
           /\ \E n \in 0..Len(lens) : Within(n)
    BY ReadBoundsAssumption DEF ReadInv

LEMMA MinOfTwo ==
    ASSUME NEW a \in Nat, NEW b \in Nat, a <= b
    PROVE  Min({a, b}) = a
<1>1. a \in {a, b} /\ \A y \in {a, b} : a <= y
    OBVIOUS
<1>2. Min({a, b}) \in {a, b} /\ \A y \in {a, b} : Min({a, b}) <= y
    BY <1>1 DEF Min
<1> QED
    BY <1>1, <1>2

\* The reader takes the next piece of its payload.
LEMMA ReadPayloadStep ==
    ASSUME MaxPayload < LenLimit, ReadInv, ReadPayload
    PROVE  ReadInv'
<1>1. /\ pc = "entry" /\ reader.remaining > 0
      /\ UNCHANGED <<lens, cells, pc, offset, target, peeked, yielded, empties>>
    BY DEF ReadPayload
<1>2. /\ cells = Written /\ lens \in Seq(0..MaxPayload) /\ Len(lens) <= MaxEntry
      /\ target \in 0..MaxEntry /\ offset \in Nat /\ position \in Nat /\ empties \in Nat
    BY <1>1, WithinFrame
<1>3. PICK n \in 0..Len(lens) : Within(n)
    BY <1>1, WithinFrame
<1> DEFINE rem == reader.remaining
           len == lens[n]
           b == Offset(n)
           p == Payload(n)
<1>4. /\ n \in DOMAIN lens /\ rem \in 0..len /\ reader.frame_start \in Nat
      /\ reader = [id |-> n, remaining |-> rem, payload_len |-> len,
                   frame_start |-> reader.frame_start]
      /\ rpos = b - rem /\ got = SubSeq(p, 1, len - rem)
      /\ AfterFrame - offset + HeaderLen * empties = b
    BY <1>1, <1>3 DEF Within
<1>5. /\ p \in Seq(Cell) /\ Len(p) = len /\ len \in Nat /\ b \in Nat /\ b <= Len(cells)
      /\ cells \in Seq(Cell) /\ b - len \in Nat
      /\ \A j \in 1..len : cells[b - len + j] = p[j]
    BY <1>2, <1>4, PayloadPlace
<1> HIDE DEF rem, len, b, p
<1>6. rem \in Nat /\ Len(cells) \in Nat /\ Len(cells) - rpos \in Nat /\ rem <= Len(cells) - rpos
    BY <1>4, <1>5
<1>7. Min({rem, Len(cells) - rpos}) = rem
    BY <1>6, MinOfTwo
<1>8. PICK k \in 1..rem :
        /\ got' = got \o SubSeq(cells, rpos + 1, rpos + k) /\ rpos' = rpos + k
        /\ reader' = [reader EXCEPT !.remaining = @ - k]
        /\ position' = IF k = rem THEN AfterFrame ELSE position
    BY <1>7 DEF ReadPayload, rem
<1>9. /\ \A i : Offset(i)' = Offset(i) /\ Payload(i)' = Payload(i)
      /\ Written' = Written /\ FirstWanted' = FirstWanted
    BY <1>1, WrittenStays DEF FirstWanted
<1>10. got' = SubSeq(p, 1, len - (rem - k))
    <2>1. \A i \in 1..len : p[i] \in Cell
        BY <1>5
    <2>2. \A i \in 1..Len(cells) : cells[i] \in Cell
        BY <1>5
    <2> DEFINE h == len - rem
               s == SubSeq(p, 1, h)
               t == SubSeq(cells, rpos + 1, rpos + k)
               u == SubSeq(p, 1, h + k)
    <2>3. /\ h \in Nat /\ h + k \in Nat /\ h + k <= len /\ rpos \in Nat /\ rpos + k <= Len(cells)
          /\ rpos = b - len + h /\ k \in Nat /\ k >= 1 /\ h + k = len - (rem - k)
        <3> DEFINE c == Len(cells)
        <3>1. /\ rem \in 0..len /\ len \in Nat /\ b \in Nat /\ b - len \in Nat /\ b <= c
              /\ rpos = b - rem /\ c \in Nat /\ k \in 1..rem
            BY <1>4, <1>5, <1>6
        <3> HIDE DEF c
        <3>2. /\ h \in Nat /\ h + k \in Nat /\ h + k <= len /\ rpos \in Nat /\ rpos + k <= c
              /\ rpos = b - len + h /\ k \in Nat /\ k >= 1 /\ h + k = len - (rem - k)
            BY <3>1
        <3> QED
            BY <3>2 DEF c
    <2> HIDE DEF h
    <2>4. /\ s \in Seq(Cell) /\ Len(s) = h /\ \A i \in 1..h : s[i] = p[i]
        <3>1. \A i \in 1..h : p[i] \in Cell
            BY <1>5, <2>1, <2>3
        <3> QED
            BY <2>3, <3>1, SubSeqProperties
    <2>5. /\ t \in Seq(Cell) /\ Len(t) = k /\ \A i \in 1..k : t[i] = cells[rpos + i]
        <3>1. \A i \in (rpos + 1)..(rpos + k) : cells[i] \in Cell
            BY <1>6, <2>2, <2>3
        <3>2. /\ t \in Seq(Cell)
              /\ Len(t) = IF rpos + 1 <= rpos + k THEN (rpos + k) - (rpos + 1) + 1 ELSE 0
              /\ \A i \in 1..((rpos + k) - (rpos + 1) + 1) : t[i] = cells[(rpos + 1) + i - 1]
            <4>1. rpos + 1 \in Int /\ rpos + k \in Int
                BY <2>3
            <4> QED
                BY <3>1, <4>1, SubSeqProperties
        <3>3. (rpos + k) - (rpos + 1) + 1 = k /\ rpos + 1 <= rpos + k
              /\ \A i \in 1..k : (rpos + 1) + i - 1 = rpos + i
            <4>1. rpos \in Nat /\ k \in Nat /\ k >= 1
                BY <2>3
            <4> QED
                BY <4>1
        <3> QED
            BY <3>2, <3>3
    <2>6. /\ u \in Seq(Cell) /\ Len(u) = h + k /\ \A i \in 1..(h + k) : u[i] = p[i]
        <3>1. \A i \in 1..(h + k) : i \in 1..len
            BY <1>5, <2>3
        <3>2. \A i \in 1..(h + k) : p[i] \in Cell
            BY <2>1, <3>1
        <3> QED
            BY <2>3, <3>2, SubSeqProperties
    <2> HIDE DEF s, t, u
    <2>7. /\ s \o t \in Seq(Cell) /\ Len(s \o t) = h + k
          /\ \A i \in 1..h : (s \o t)[i] = s[i]
          /\ \A i \in 1..k : (s \o t)[h + i] = t[i]
        <3>1. s \in Seq(Cell) /\ t \in Seq(Cell)
            BY <2>4, <2>5
        <3>2. /\ s \o t \in Seq(Cell) /\ Len(s \o t) = Len(s) + Len(t)
              /\ \A i \in 1..Len(s) : (s \o t)[i] = s[i]
              /\ \A i \in 1..Len(t) : (s \o t)[Len(s) + i] = t[i]
            BY <3>1, Joined
        <3>3. Len(s) = h /\ Len(t) = k
            BY <2>4, <2>5
        <3> QED
            BY <3>2, <3>3, Zenon
    <2> DEFINE v == s \o t
    <2> HIDE DEF v
    <2>8. ASSUME NEW i \in 1..(h + k) PROVE v[i] = u[i]
        <3>1. u[i] = p[i]
            BY <2>6
        <3>2. CASE i <= h
            <4>1. i \in 1..h
                BY <2>3, <3>2
            <4> QED
                BY <2>4, <2>7, <3>1, <4>1 DEF v
        <3>3. CASE ~(i <= h)
            <4>1. i - h \in 1..k /\ h + (i - h) = i /\ i \in 1..len
                  /\ rpos + (i - h) = b - len + i
                BY <1>5, <2>3, <3>3
            <4>2. v[i] = t[i - h]
                <5>1. v[h + (i - h)] = t[i - h]
                    BY <2>7, <4>1 DEF v
                <5> QED
                    BY <4>1, <5>1
            <4>3. t[i - h] = cells[rpos + (i - h)]
                BY <2>5, <4>1
            <4>4. cells[b - len + i] = p[i]
                BY <1>5, <4>1
            <4> QED
                BY <3>1, <4>1, <4>2, <4>3, <4>4
        <3> QED
            BY <3>2, <3>3
    <2>9. v = u
        <3>1. v \in Seq(Cell) /\ Len(v) = h + k
            BY <2>7 DEF v
        <3> QED
            BY <2>6, <2>8, <3>1
    <2> QED
        BY <1>4, <1>8, <2>3, <2>9 DEF s, t, u, v, h
<1>11. reader' = [id |-> n, remaining |-> rem - k, payload_len |-> len,
                  frame_start |-> reader.frame_start]
    <2> DEFINE start == reader.frame_start
    <2> HIDE DEF start
    <2>1. reader = [id |-> n, remaining |-> rem, payload_len |-> len, frame_start |-> start]
        BY <1>4 DEF start
    <2>2. reader' = [id |-> n, remaining |-> rem - k, payload_len |-> len, frame_start |-> start]
        BY <1>8, <2>1
    <2> QED
        BY <2>2 DEF start
<1>12. rem - k \in 0..len /\ (rem - k = 0 <=> k = rem) /\ rpos' = b - (rem - k)
    <2>1. /\ rem \in 0..len /\ len \in Nat /\ b \in Nat /\ rpos = b - rem /\ k \in 1..rem
          /\ rpos' = rpos + k
        BY <1>4, <1>5, <1>8
    <2>2. rem - k \in 0..len /\ (rem - k = 0 <=> k = rem) /\ b - rem + k = b - (rem - k)
        BY <2>1
    <2> QED
        BY <2>1, <2>2
<1>13. AfterFrame' = AfterFrame /\ AfterFrame \in Nat
    BY <1>4, <1>5, <1>11 DEF AfterFrame, HeaderLen
<1>14. (IF rem - k = 0 THEN position' ELSE AfterFrame) - offset + HeaderLen * empties = b
    BY <1>4, <1>8, <1>12
<1>15. Within(n)'
    BY <1>1, <1>3, <1>9, <1>10, <1>11, <1>12, <1>13, <1>14
        DEF Within, YieldedTo, len, b, p
<1>16. position' \in Nat
    BY <1>2, <1>8, <1>13
<1> QED
    BY <1>1, <1>2, <1>9, <1>15, <1>16 DEF ReadInv

\* An entry that is dropped leaves the scanner after its frame.
LEMMA DropReaderStep ==
    ASSUME MaxPayload < LenLimit, ReadInv, DropReader
    PROVE  ReadInv'
<1>1. /\ pc = "entry" /\ SkipRest /\ pc' = "read" /\ reader' = NoReader
      /\ position' = IF reader.remaining > 0 THEN AfterFrame ELSE position
      /\ UNCHANGED <<lens, cells, offset, target, peeked, yielded, empties>>
    BY DEF DropReader
<1>2. /\ cells = Written /\ lens \in Seq(0..MaxPayload) /\ Len(lens) <= MaxEntry
      /\ target \in 0..MaxEntry /\ target \in Nat
      /\ offset \in Nat /\ position \in Nat /\ empties \in Nat
    BY <1>1, WithinFrame
<1>3. PICK n \in 0..Len(lens) : Within(n)
    BY <1>1, WithinFrame
<1> DEFINE rem == reader.remaining
           b == Offset(n)
<1>4. /\ n \in DOMAIN lens /\ rem \in 0..lens[n] /\ rpos = b - rem /\ peeked = NoPeek
      /\ reader.frame_start \in Nat /\ reader.payload_len = lens[n]
      /\ (IF rem = 0 THEN position ELSE AfterFrame) - offset + HeaderLen * empties = b
      /\ n >= FirstWanted /\ YieldedTo(n)
    BY <1>3 DEF Within
<1>5. lens[n] \in Nat /\ b \in Nat /\ b <= Len(cells) /\ Len(cells) \in Nat
    <2>1. lens[n] \in Nat /\ b \in Nat /\ b <= Len(cells) /\ cells \in Seq(Cell)
        BY <1>2, <1>4, PayloadPlace
    <2> QED
        BY <2>1
<1>6. AfterFrame \in Nat
    BY <1>4, <1>5 DEF AfterFrame, HeaderLen
<1> HIDE DEF rem, b
<1>7. rem \in Nat /\ (rem > 0 <=> rem # 0) /\ rpos + rem = b
    BY <1>4, <1>5
<1>8. rpos' = b
    <2>1. rpos' = Min({b, Len(cells)})
        BY <1>1, <1>7 DEF SkipRest, rem
    <2> QED
        BY <1>5, <2>1, MinOfTwo
<1>9. /\ \A i : Offset(i)' = Offset(i)
      /\ Written' = Written /\ FirstWanted' = FirstWanted
    BY <1>1, WrittenStays DEF FirstWanted
<1>10. HeaderAt' = b /\ peeked' = NoPeek
    BY <1>1, <1>4, <1>8 DEF HeaderAt
<1>11. position' = (IF rem = 0 THEN position ELSE AfterFrame) /\ position' \in Nat
    BY <1>1, <1>2, <1>6, <1>7 DEF rem
<1>12. b = position' - offset' + HeaderLen * empties'
    BY <1>1, <1>4, <1>11
<1>13. YieldedTo(n)' /\ n >= FirstWanted' - 1
    <2>1. FirstWanted \in Nat
        BY <1>2, Wanted
    <2>2. n >= FirstWanted - 1
        BY <1>4, <2>1
    <2> QED
        BY <1>1, <1>4, <1>9, <2>2 DEF YieldedTo
<1>14. Between(n)'
    BY <1>1, <1>9, <1>10, <1>12, <1>13 DEF Between, b
<1> QED
    BY <1>1, <1>2, <1>9, <1>11, <1>14 DEF ReadInv

LEMMA InitRead == RInit => ReadInv
<1> SUFFICES ASSUME RInit PROVE ReadInv
    OBVIOUS
<1>1. PICK n \in 0..MaxEntry : lens \in [1..n -> 0..MaxPayload]
    BY DEF RInit
<1>2. lens \in Seq(0..MaxPayload) /\ Len(lens) = n /\ n <= MaxEntry /\ 0 \in 0..MaxEntry
    BY <1>1, ReadBoundsAssumption
<1> QED
    BY <1>2 DEF RInit, ReadInv

LEMMA NextRead ==
    ASSUME MaxPayload < LenLimit, ReadInv, [RNext]_readVars
    PROVE  ReadInv'
<1>1. CASE NewScanner("seek") \/ NewScanner("after")
    BY <1>1, NewScannerStep
<1>2. CASE SeekToId
    BY <1>2, SeekStep
<1>3. CASE ScanToAfterStep
    BY <1>3, AfterStep
<1>4. CASE ReadFrame
    BY <1>4, ReadFrameStep
<1>5. CASE ReadEnd
    BY <1>5, ReadEndStep
<1>6. CASE ReadPayload
    BY <1>6, ReadPayloadStep
<1>7. CASE DropReader
    BY <1>7, DropReaderStep
<1>8. CASE UNCHANGED readVars
    <2>1. UNCHANGED <<lens, cells, pc, offset, target, rpos, position, peeked,
                      reader, got, yielded, empties>>
        BY <1>8 DEF readVars, scannerVars, callerVars
    <2>2. /\ \A i : Offset(i)' = Offset(i) /\ Payload(i)' = Payload(i)
          /\ Written' = Written /\ FirstWanted' = FirstWanted /\ HeaderAt' = HeaderAt
          /\ AfterFrame' = AfterFrame
        BY <2>1, WrittenStays DEF FirstWanted, HeaderAt, AfterFrame
    <2>3. \A n : (Within(n)' <=> Within(n)) /\ (Between(n)' <=> Between(n))
        BY <2>1, <2>2 DEF Within, Between, YieldedTo
    <2> QED
        BY <2>1, <2>2, <2>3 DEF ReadInv
<1> QED
    BY <1>1, <1>2, <1>3, <1>4, <1>5, <1>6, <1>7, <1>8 DEF RNext

\* FrameScanner and FrameReader: between two frames of an intact file or
\* within one, whatever is read and dropped (frame.rs:102-350).
THEOREM ReadTheorem == ASSUME MaxPayload < LenLimit PROVE RSpec => []ReadInv
<1>1. RInit => ReadInv
    BY InitRead
<1>2. ReadInv /\ [RNext]_readVars => ReadInv'
    BY NextRead
<1> QED
    BY <1>1, <1>2, PTL DEF RSpec

\* Every wanted entry is yielded once, in order, with its own payload; the end
\* of the file is met after the last (FrameScanner::seek_to_id, read).
THEOREM AlignedTheorem == ASSUME MaxPayload < LenLimit PROVE RSpec => []ReaderAligned
<1>1. ReadInv => ReaderAligned
    <2> SUFFICES ASSUME ReadInv PROVE ReaderAligned
        OBVIOUS
    <2>1. CASE pc = "closed"
        <3>1. yielded = <<>> /\ target \in Nat
            BY <2>1, ReadBoundsAssumption DEF ReadInv
        <3>2. YieldedTo(0)
            BY <3>1, NoneYielded, Wanted
        <3> QED
            BY <2>1, <3>2 DEF ReaderAligned, YieldedTo
    <2>2. CASE pc = "entry"
        <3>1. PICK n \in 0..Len(lens) : Within(n)
            BY <2>2, WithinFrame
        <3>2. /\ YieldedTo(n) /\ n \in DOMAIN lens /\ reader.remaining \in 0..lens[n]
              /\ got = SubSeq(Payload(n), 1, lens[n] - reader.remaining) /\ reader.id = n
            BY <3>1 DEF Within
        <3>3. Payload(n) \in Seq(Cell) /\ Len(Payload(n)) = lens[n] /\ lens[n] \in Nat
            BY <2>2, <3>2, WithinFrame, PayloadPlace
        <3>4. Len(got) = lens[n] - reader.remaining
            <4> DEFINE h == lens[n] - reader.remaining
                       p == Payload(n)
            <4>1. h \in Nat /\ h <= Len(p) /\ p \in Seq(Cell) /\ got = SubSeq(p, 1, h)
                BY <3>2, <3>3
            <4> HIDE DEF h, p
            <4>2. \A i \in 1..h : p[i] \in Cell
                <5>1. \A i \in 1..h : i \in 1..Len(p)
                    BY <4>1
                <5> QED
                    BY <4>1, <5>1
            <4>3. Len(got) = IF 1 <= h THEN h - 1 + 1 ELSE 0
                BY <4>1, <4>2, SubSeqProperties
            <4>4. Len(got) = h
                BY <4>1, <4>3
            <4> QED
                BY <4>4 DEF h
        <3> QED
            BY <2>2, <3>2, <3>4 DEF ReaderAligned, YieldedTo
    <2>3. CASE pc \notin {"closed", "entry"}
        <3>1. PICK n \in 0..Len(lens) : Between(n)
            BY <2>3, BetweenFrames
        <3>2. FirstWanted \in Nat \ {0} /\ Len(lens) \in Nat /\ n \in Nat
            BY <2>3, BetweenFrames
        <3>3. CASE pc \in {"read", "done"}
            <4>1. YieldedTo(n) /\ (pc = "done" => n = Len(lens))
                BY <3>1, <3>3 DEF Between
            <4>2. ASSUME pc = "done"
                  PROVE  Len(yielded) = Max({0, Len(lens) - FirstWanted + 1})
                <5> DEFINE a == Len(lens) - FirstWanted + 1
                <5>1. a \in Int /\ Len(yielded) = IF a >= 1 THEN a ELSE 0
                    BY <3>2, <4>1, <4>2 DEF YieldedTo
                <5> HIDE DEF a
                <5>2. \E m \in {0, a} : \A y \in {0, a} : m >= y
                    BY <5>1
                <5>3. Max({0, a}) \in {0, a} /\ \A y \in {0, a} : Max({0, a}) >= y
                    BY <5>2 DEF Max
                <5>4. Len(yielded) = Max({0, a})
                    BY <5>1, <5>3
                <5> QED
                    BY <5>4 DEF a
            <4> QED
                BY <2>3, <4>1, <4>2 DEF ReaderAligned, YieldedTo
        <3>4. CASE pc \notin {"read", "done"}
            <4>1. pc \in {"seek", "after", "found", "notfound"}
                BY <2>3, <3>4 DEF ReadInv
            <4>2. yielded = <<>>
                BY <3>1, <4>1 DEF Between
            <4>3. YieldedTo(0)
                BY <3>2, <4>2, NoneYielded
            <4> QED
                BY <2>3, <3>4, <4>3 DEF ReaderAligned, YieldedTo
        <3> QED
            BY <3>3, <3>4
    <2> QED
        BY <2>1, <2>2, <2>3
<1> QED
    BY <1>1, ReadTheorem, PTL

\* Between frames the scanner's position is that of the file as long as every
\* entry read had a payload, however it was read (FrameReader::read and its
\* drop advance it, frame.rs:321 and frame.rs:333).
THEOREM PositionTheorem == ASSUME MaxPayload < LenLimit PROVE RSpec => []PositionTracks
<1>1. ReadInv => PositionTracks
    <2> SUFFICES ASSUME ReadInv, reader = NoReader, peeked = NoPeek, empties = 0
                 PROVE  rpos = position - offset
        BY DEF PositionTracks
    <2>1. CASE pc = "closed"
        BY <2>1 DEF ReadInv
    <2>2. CASE pc = "entry"
        <3>1. PICK n \in 0..Len(lens) : Within(n)
            BY <2>2, WithinFrame
        <3>2. n \in DOMAIN lens /\ reader.id = n
            BY <3>1 DEF Within
        <3>3. n # 0
            BY <2>2, <3>2, WithinFrame
        <3> QED
            BY <3>2, <3>3 DEF NoReader
    <2>3. CASE pc \notin {"closed", "entry"}
        <3>1. rpos = position - offset + HeaderLen * empties
            BY <2>3, BetweenFrames DEF Between, HeaderAt
        <3>2. position \in Nat /\ offset \in Nat
            BY DEF ReadInv
        <3>3. HeaderLen * empties = 0
            BY DEF HeaderLen
        <3> QED
            BY <3>1, <3>2, <3>3
    <2> QED
        BY <2>1, <2>2, <2>3
<1> QED
    BY <1>1, ReadTheorem, PTL

\* scan_to_after returns the end of the target's frame counted from the offset
\* it was given, or finds no such entry (frame.rs:281).
THEOREM AfterTheorem == ASSUME MaxPayload < LenLimit PROVE RSpec => []AfterAgrees
<1>1. ReadInv => AfterAgrees
    <2> SUFFICES ASSUME ReadInv, pc \in {"found", "notfound"} PROVE AfterAgrees
        BY DEF AfterAgrees
    <2>1. PICK n \in 0..Len(lens) : Between(n)
        BY BetweenFrames
    <2>2. /\ HeaderAt = Offset(n) /\ HeaderAt = position - offset + HeaderLen * empties
          /\ empties = 0
          /\ pc = "found" => target = n
          /\ pc = "notfound" => target \notin 1..n /\ n = Len(lens)
        BY <2>1 DEF Between
    <2>3. /\ offset \in Nat /\ position \in Nat /\ lens \in Seq(0..MaxPayload)
        BY BetweenFrames
    <2>4. position = offset + Offset(n)
        <3> DEFINE b == Offset(n)
        <3>1. b = position - offset + 3 * 0
            BY <2>2 DEF HeaderLen
        <3> HIDE DEF b
        <3>2. position = offset + b
            BY <2>3, <3>1
        <3> QED
            BY <3>2 DEF b
    <2>5. pc = "notfound" => target \notin DOMAIN lens
        BY <2>2, <2>3
    <2> QED
        BY <2>2, <2>4, <2>5 DEF AfterAgrees
<1> QED
    BY <1>1, ReadTheorem, PTL
=============================================================================
