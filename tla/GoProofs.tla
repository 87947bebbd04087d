------------------------------ MODULE GoProofs ------------------------------
(***************************************************************************)
(* The Go programs, for any command lines.  First the clients, for any     *)
(* replies, senders and binaries: the numbers they print are the ones that *)
(* the node answered, the node they ask is the one that the line names,    *)
(* what they say by their exit status is what happened, and serial senders *)
(* never clash over a nonce.  Then the genesis builder, for any            *)
(* configuration: what its runs leave on disk is consistent, passes its    *)
(* own validation, and pays what is reported.  The programs share no       *)
(* variable, so each has an invariant of its own.                          *)
(***************************************************************************)
EXTENDS GoClients, GenesisSafety, SumsProofs, SequenceTheorems, TLAPS

----------------------------------------------------------------------------
(* Numbers, and how they are read and written *)

\* The digits of a number, one by one.
Digit == 0..(Base - 1)

\* One more digit makes a number greater, unless it was 0.
LEMMA Grows ==
  ASSUME NEW b \in Nat, b > 1, NEW x \in Nat, NEW d \in 0..(b - 1)
  PROVE  /\ x * b + d \in Nat /\ x * b + d >= x
         /\ x > 0 => x * b > x
<1>1. x * b \in Nat
  OBVIOUS
<1>2. x * (b - 1) >= 0
  OBVIOUS
<1>3. x * b = x * (b - 1) + x
  OBVIOUS
<1>4. x > 0 => x * (b - 1) > 0
  OBVIOUS
<1> QED
  BY <1>1, <1>2, <1>3, <1>4

\* A number grows digit by digit: f[n] is what the first n digits say.
IsReading(f, digits) ==
  /\ f \in [0..Len(digits) -> Nat] /\ f[0] = 0
  /\ \A n \in 1..Len(digits) : f[n] = f[n - 1] * Base + digits[n]

\* The recursion of NumberOf has a value, which reads the digits.
LEMMA Reading ==
  ASSUME NEW digits \in Seq(Digit)
  PROVE  \E f : IsReading(f, digits) /\ NumberOf(digits) = f[Len(digits)]
<1> DEFINE Round(n, s) == s * Base + digits[n]
<1>1. PICK b \in Nat : b = Base /\ b > 1
  BY QueriesAssumption
<1>2. PICK N \in Nat : N = Len(digits)
  OBVIOUS
<1>3. \A n \in 1..N : digits[n] \in 0..(b - 1)
  BY <1>1, <1>2 DEF Digit
<1>4. \A n \in 1..N, s \in Nat : Round(n, s) \in Nat
  BY <1>1, <1>3, Grows
<1> HIDE DEF Round
<1> DEFINE g == [n \in 1..N |-> [s \in Nat |-> Round(n, s)]]
<1>5. \A n \in 1..N, s \in Nat : g[n][s] = Round(n, s)
  OBVIOUS
<1>6. PICK h \in [0..N -> Nat] : h[0] = 0 /\ \A n \in 1..N : h[n] = g[n][h[n - 1]]
  <2>1. g \in [1..N -> [Nat -> Nat]]
    BY <1>4
  <2> HIDE DEF g
  <2>2. \E h : IsLoop(h, Nat, 0, N, g)
    BY <2>1, RecursionExists
  <2> QED
    BY <2>2 DEF IsLoop
<1> HIDE DEF g
<1>7. \A n \in 1..N : n - 1 \in 0..N
  OBVIOUS
<1>8. h = [n \in 0..N |-> IF n = 0 THEN 0 ELSE Round(n, h[n - 1])]
  BY <1>5, <1>6, <1>7
<1> DEFINE upTo[n \in 0..N] == IF n = 0 THEN 0 ELSE Round(n, upTo[n - 1])
<1>9. upTo = [n \in 0..N |-> IF n = 0 THEN 0 ELSE Round(n, upTo[n - 1])]
  BY <1>8, Zenon
<1>10. NumberOf(digits) = upTo[N]
  BY <1>2, Zenon DEF NumberOf, Round
<1> HIDE DEF upTo
<1>11. PICK f : f = upTo
  OBVIOUS
<1>12. f = [n \in 0..N |-> IF n = 0 THEN 0 ELSE Round(n, f[n - 1])]
  BY <1>9, <1>11, Zenon
<1>13. f[0] = 0 /\ \A n \in 1..N : f[n] = Round(n, f[n - 1])
  BY <1>12
<1>14. \A n \in 0..N : f[n] \in Nat
  <2> DEFINE T == {n \in 0..N : f[n] \in Nat}
  <2>1. 0 \in T
    BY <1>13
  <2>2. ASSUME NEW n \in 1..N, n - 1 \in T PROVE n \in T
    <3>1. f[n - 1] \in Nat /\ n \in 0..N
      BY <2>2
    <3> QED
      BY <1>4, <1>13, <3>1
  <2> HIDE DEF T
  <2>3. \A n \in 0..N : n \in T
    BY <2>1, <2>2, UpTo
  <2> QED
    BY <2>3 DEF T
<1>15. f \in [0..N -> Nat]
  BY <1>12, <1>14
<1>16. \A n \in 1..N : f[n] = f[n - 1] * Base + digits[n]
  BY <1>13 DEF Round
<1>17. IsReading(f, digits)
  BY <1>2, <1>13, <1>15, <1>16, Zenon DEF IsReading
<1> QED
  BY <1>2, <1>10, <1>11, <1>17

\* Two ways of reading digits that begin alike agree as far as they do.
LEMMA ReadAlike ==
  ASSUME NEW a, NEW b, NEW f, NEW g, IsReading(f, a), IsReading(g, b), NEW N \in Nat, N <= Len(a), N <= Len(b),
         Len(a) \in Nat, Len(b) \in Nat, \A n \in 1..N : a[n] = b[n]
  PROVE  \A n \in 0..N : f[n] = g[n]
<1> DEFINE T == {n \in 0..N : f[n] = g[n]}
<1>1. 0 \in T
  BY DEF IsReading
<1>2. ASSUME NEW n \in 1..N, n - 1 \in T PROVE n \in T
  <2>1. n \in 1..Len(a) /\ n \in 1..Len(b)
    OBVIOUS
  <2>2. f[n] = f[n - 1] * Base + a[n] /\ g[n] = g[n - 1] * Base + b[n]
    BY <2>1 DEF IsReading
  <2> QED
    BY <1>2, <2>2
<1> HIDE DEF T
<1>3. \A n \in 0..N : n \in T
  BY <1>1, <1>2, UpTo
<1> QED
  BY <1>3 DEF T

\* What the first digits say is not more than what all of them say.
LEMMA ReadsLess ==
  ASSUME NEW a \in Seq(Digit), NEW f, IsReading(f, a)
  PROVE  \A n \in 0..Len(a) : f[n] <= f[Len(a)]
<1>1. PICK N \in Nat : N = Len(a)
  OBVIOUS
<1> DEFINE T == {n \in 0..N : f[N - n] <= f[N]}
<1>2. f \in [0..N -> Nat] /\ \A n \in 1..N : f[n] = f[n - 1] * Base + a[n]
  BY <1>1 DEF IsReading
<1>3. \A n \in 1..N : f[n - 1] <= f[n]
  <2> TAKE n \in 1..N
  <2>0. n - 1 \in 0..N /\ n \in 1..Len(a)
    BY <1>1
  <2>1. f[n - 1] \in Nat /\ a[n] \in 0..(Base - 1)
    <3>1. a[n] \in Digit
      BY <2>0, ElementOfSeq, Zenon
    <3>2. f[n - 1] \in Nat
      BY <1>2, <2>0
    <3> QED
      BY <3>1, <3>2 DEF Digit
  <2>2. f[n - 1] * Base + a[n] >= f[n - 1]
    <3>1. PICK b \in Nat : b = Base /\ b > 1
      BY QueriesAssumption
    <3>2. PICK x \in Nat, d \in 0..(b - 1) : x = f[n - 1] /\ d = a[n]
      BY <2>1, <3>1
    <3>3. x * b + d >= x
      BY <3>1, Grows
    <3> QED
      BY <3>1, <3>2, <3>3
  <2>3. f[n] \in Nat
    BY <1>2
  <2> QED
    BY <1>2, <2>1, <2>2, <2>3
<1>4. 0 \in T
  BY <1>2
<1>5. ASSUME NEW n \in 1..N, n - 1 \in T PROVE n \in T
  <2>1. f[N - (n - 1)] <= f[N] /\ N - (n - 1) \in 1..N
    BY <1>5
  <2>2. f[N - n] <= f[N - (n - 1)]
    <3>1. (N - (n - 1)) - 1 = N - n
      OBVIOUS
    <3> QED
      BY <1>3, <2>1, <3>1
  <2>3. f[N] \in Nat /\ f[N - n] \in Nat /\ f[N - (n - 1)] \in Nat
    BY <1>2, <2>1
  <2> QED
    BY <2>1, <2>2, <2>3
<1> HIDE DEF T
<1>6. \A n \in 0..N : n \in T
  BY <1>4, <1>5, UpTo
<1>7. \A n \in 0..N : N - n \in 0..N /\ N - (N - n) = n
  OBVIOUS
<1> QED
  BY <1>1, <1>6, <1>7 DEF T

\* Digits say a number.
LEMMA NumberIs ==
  ASSUME NEW a \in Seq(Digit)
  PROVE  NumberOf(a) \in Nat
<1>1. PICK f : IsReading(f, a) /\ NumberOf(a) = f[Len(a)]
  BY Reading
<1> QED
  BY <1>1 DEF IsReading

\* What one more digit makes of a number.
LEMMA OneMoreDigit ==
  ASSUME NEW a \in Seq(Digit), NEW d \in Digit
  PROVE  NumberOf(Append(a, d)) = NumberOf(a) * Base + d
<1>0. PICK b : b = Append(a, d)
  OBVIOUS
<1>1. /\ b = Append(a, d) /\ b \in Seq(Digit) /\ Len(b) = Len(a) + 1 /\ b[Len(a) + 1] = d
      /\ \A n \in 1..Len(a) : b[n] = a[n]
  BY <1>0
<1>2. PICK f : IsReading(f, a) /\ NumberOf(a) = f[Len(a)]
  BY Reading
<1>3. PICK g : IsReading(g, b) /\ NumberOf(b) = g[Len(b)]
  BY <1>1, Reading
<1>4. Len(a) \in Nat /\ Len(b) \in Nat /\ Len(a) <= Len(a) /\ Len(a) <= Len(b)
  BY <1>1
<1>5. \A n \in 1..Len(a) : a[n] = b[n]
  BY <1>1
<1>6. \A n \in 0..Len(a) : f[n] = g[n]
  BY <1>2, <1>3, <1>4, <1>5, ReadAlike
<1>7. PICK N \in Nat : N = Len(a)
  BY <1>4
<1>8. N + 1 \in 1..Len(b) /\ (N + 1) - 1 = N /\ N \in 0..Len(a)
  BY <1>1, <1>7
<1>9. g[N + 1] = g[N] * Base + b[N + 1]
  BY <1>3, <1>8 DEF IsReading
<1>10. g[N] = f[N]
  BY <1>6, <1>8
<1> QED
  BY <1>1, <1>2, <1>3, <1>7, <1>9, <1>10

\* No digits say 0.
LEMMA NoDigits == NumberOf(<<>>) = 0
<1>1. PICK a \in Seq(Digit) : a = <<>> /\ Len(a) = 0
  BY EmptySeq
<1>2. PICK f : IsReading(f, a) /\ NumberOf(a) = f[Len(a)]
  BY Reading
<1> QED
  BY <1>1, <1>2 DEF IsReading

\* One digit says itself.
LEMMA OneDigit ==
  ASSUME NEW d \in Digit
  PROVE  NumberOf(<<d>>) = d
<1>1. PICK a \in Seq(Digit) : a = <<>>
  BY EmptySeq
<1>2. <<d>> = Append(a, d)
  BY <1>1
<1>3. NumberOf(<<d>>) = 0 * Base + d
  BY <1>1, <1>2, OneMoreDigit, NoDigits
<1> QED
  BY <1>3, QueriesAssumption DEF Digit

\* Every number has digits, not more than one more than itself, and the
\* first of several is not 0.
Writes(d, n) ==
  /\ d \in Seq(Digit) /\ Len(d) <= n + 1
  /\ NumberOf(d) = n /\ d # <<>> /\ (d[1] = 0 => Len(d) = 1)

\* Every number from the base on has a quotient, which is less.
LEMMA Divides ==
  ASSUME NEW b \in Nat, b > 1, NEW m \in Nat, m >= b
  PROVE  \E q \in 1..(m - 1) : q * b <= m /\ m < (q + 1) * b
<1> DEFINE S == {q \in 0..m : q * b <= m}
<1>1. 0..m \in SUBSET Nat /\ IsFiniteSet(0..m)
  BY FS_Interval
<1>2. S \in SUBSET Nat /\ IsFiniteSet(S)
  BY <1>1, FS_Subset
<1>3. 1 \in S
  OBVIOUS
<1>4. S # {}
  BY <1>3
<1>5. \E q \in S : \A k \in S : k <= q
  <2> HIDE DEF S
  <2> QED
    BY <1>2, <1>4, Largest
<1>6. PICK q \in S : \A k \in S : k <= q
  BY <1>5
<1>7. q \in Nat /\ q >= 1 /\ q * b <= m
  BY <1>3, <1>6
<1>8. q < m
  <2>1. q * b > q /\ q * b \in Nat
    BY <1>7
  <2> QED
    BY <1>7, <2>1
<1>9. m < (q + 1) * b
  <2>1. q + 1 \notin S
    BY <1>6, <1>7
  <2>2. q + 1 \in 0..m
    BY <1>7, <1>8
  <2>3. (q + 1) * b \in Nat
    BY <1>7
  <2> QED
    BY <2>1, <2>2, <2>3
<1> QED
  BY <1>7, <1>8, <1>9

\* Every number can be written: by its quotient and one more digit.
LEMMA WrittenDown == \A n \in Nat : \E d : Writes(d, n)
<1> DEFINE Bad == {n \in Nat : ~\E d : Writes(d, n)}
<1> SUFFICES ASSUME Bad # {} PROVE FALSE
  OBVIOUS
<1>1. PICK m \in Bad : \A k \in Bad : m <= k
  <2>1. Bad \in SUBSET Nat
    OBVIOUS
  <2> HIDE DEF Bad
  <2> QED
    BY <2>1, Smallest
<1>2. m \in Nat /\ ~\E d : Writes(d, m)
  BY <1>1
<1>3. \A k \in Nat : k < m => \E d : Writes(d, k)
  BY <1>1
<1>4. PICK b \in Nat : b = Base /\ b > 1
  BY QueriesAssumption
<1>5. CASE m < b
  <2>1. m \in Digit
    BY <1>2, <1>4, <1>5 DEF Digit
  <2>0. PICK a : a = <<m>>
    OBVIOUS
  <2>2. a \in Seq(Digit) /\ a = <<m>> /\ Len(a) = 1 /\ a # <<>>
    BY <2>0, <2>1
  <2>3. NumberOf(a) = m
    BY <2>1, <2>2, OneDigit
  <2>4. Writes(a, m)
    BY <1>2, <2>2, <2>3 DEF Writes
  <2> QED
    BY <1>2, <2>4
<1>6. CASE m >= b
  <2>1. PICK q \in 1..(m - 1) : q * b <= m /\ m < (q + 1) * b
    BY <1>2, <1>4, <1>6, Divides
  <2>2. PICK r \in 0..(b - 1) : m = q * b + r
    <3>1. (q + 1) * b = q * b + b /\ q * b \in Nat
      BY <2>1
    <3>2. m - q * b \in 0..(b - 1)
      BY <1>2, <2>1, <3>1
    <3> QED
      BY <1>2, <3>1, <3>2
  <2>3. PICK d : Writes(d, q)
    BY <1>2, <1>3, <2>1
  <2>4. d \in Seq(Digit) /\ Len(d) \in Nat /\ Len(d) <= q + 1 /\ NumberOf(d) = q /\ d # <<>>
        /\ (d[1] = 0 => Len(d) = 1)
    BY <2>3 DEF Writes
  <2>5. r \in Digit
    BY <1>4, <2>2 DEF Digit
  <2>0. PICK a : a = Append(d, r)
    OBVIOUS
  <2>6. a \in Seq(Digit) /\ a = Append(d, r) /\ Len(a) = Len(d) + 1 /\ a[1] = d[1] /\ a # <<>>
    <3>1. Len(d) \in Nat \ {0}
      BY <2>4, EmptySeq
    <3> QED
      BY <2>0, <2>4, <2>5, <3>1
  <2>7. NumberOf(a) = m
    BY <1>4, <2>2, <2>4, <2>5, <2>6, OneMoreDigit
  <2>8. d[1] # 0
    <3> SUFFICES ASSUME d[1] = 0 PROVE FALSE
      OBVIOUS
    <3>1. Len(d) = 1
      BY <2>4
    <3>2. d = <<d[1]>>
      BY <2>4, <3>1
    <3>3. d[1] \in Digit
      BY <2>4, <3>1
    <3>4. NumberOf(d) = 0
      BY <3>2, <3>3, OneDigit
    <3> QED
      BY <2>1, <2>4, <3>4
  <2>9. Len(a) <= m + 1
    BY <1>2, <2>1, <2>4, <2>6
  <2>10. Writes(a, m)
    BY <2>6, <2>7, <2>8, <2>9 DEF Writes
  <2> QED
    BY <1>2, <2>10
<1> QED
  BY <1>2, <1>4, <1>5, <1>6

\* What the node writes for a number reads as the number (rpc/hex.go:9-26).
LEMMA QuantityIs ==
  ASSUME NEW n \in Nat
  PROVE  Quantity(n) \in Texts /\ NumberOf(Quantity(n).digits) = n
<1> DEFINE Fits(d) == NumberOf(d) = n /\ d # <<>> /\ (d[1] = 0 => Len(d) = 1)
           D == CHOOSE d \in SeqOf(0..(Base - 1), n + 1) : Fits(d)
<1>1. PICK d : Writes(d, n)
  BY WrittenDown
<1>2. d \in SeqOf(0..(Base - 1), n + 1)
  <2>1. d \in [1..Len(d) -> Digit] /\ Len(d) \in 0..(n + 1)
    BY <1>1 DEF Writes
  <2> QED
    BY <2>1 DEF SeqOf, Digit
<1>3. Fits(d)
  BY <1>1 DEF Writes
<1> HIDE DEF Fits
<1>4. D \in SeqOf(0..(Base - 1), n + 1) /\ Fits(D)
  BY <1>2, <1>3
<1>5. Quantity(n) = [prefix |-> TRUE, digits |-> D]
  BY DEF Quantity, Fits
<1> HIDE DEF D
<1>6. PICK T : T = 0..(Base - 1) \cup {Junk}
  OBVIOUS
<1>7. D \in Seq(T)
  <2>1. PICK k \in 0..(n + 1) : D \in [1..k -> 0..(Base - 1)]
    BY <1>4 DEF SeqOf
  <2> QED
    BY <1>6, <2>1
<1>8. Quantity(n) \in Texts
  BY <1>5, <1>6, <1>7 DEF Texts
<1>9. NumberOf(Quantity(n).digits) = n
  BY <1>4, <1>5 DEF Fits
<1> QED
  BY <1>8, <1>9

\* A 0 in front changes no number, and makes pairs of an odd number of digits.
LEMMA PaddedIs ==
  ASSUME NEW a \in Seq(Digit)
  PROVE  /\ Padded(a) \in Seq(Digit) /\ Len(Padded(a)) % 2 = 0 /\ NumberOf(Padded(a)) = NumberOf(a)
<1>1. CASE Len(a) % 2 = 0
  <2>1. Len(a) % 2 # 1
    BY <1>1
  <2>2. Padded(a) = a
    BY <2>1, Zenon DEF Padded
  <2> QED
    BY <1>1, <2>2
<1>2. CASE Len(a) % 2 # 0
  <2>1. Len(a) \in Nat /\ Len(a) % 2 = 1
    BY <1>2
  <2>2. 0 \in Digit
    BY QueriesAssumption DEF Digit
  <2>3. <<0>> \in Seq(Digit) /\ Len(<<0>>) = 1 /\ <<0>>[1] = 0
    BY <2>2
  <2>4. PICK b : b = <<0>> \o a
    OBVIOUS
  <2>5. /\ b \in Seq(Digit) /\ Len(b) = 1 + Len(a)
        /\ \A i \in 1..(1 + Len(a)) : b[i] = IF i <= 1 THEN <<0>>[i] ELSE a[i - 1]
    BY <2>3, <2>4, ConcatProperties
  <2>6. b[1] = 0 /\ \A i \in 1..Len(a) : b[i + 1] = a[i]
    BY <2>1, <2>3, <2>5
  <2>7. Padded(a) = b
    BY <2>1, <2>4 DEF Padded
  <2>8. PICK f : IsReading(f, a) /\ NumberOf(a) = f[Len(a)]
    BY Reading
  <2>9. PICK g : IsReading(g, b) /\ NumberOf(b) = g[Len(b)]
    BY <2>5, Reading
  <2>10. PICK N \in Nat : N = Len(a)
    BY <2>1
  <2>11. /\ g[0] = 0 /\ \A n \in 1..(N + 1) : g[n] = g[n - 1] * Base + b[n]
         /\ f[0] = 0 /\ \A n \in 1..N : f[n] = f[n - 1] * Base + a[n]
    BY <2>5, <2>8, <2>9, <2>10 DEF IsReading
  <2> DEFINE T == {n \in 0..N : g[n + 1] = f[n]}
  <2>12. 0 \in T
    <3>1. g[1] = g[1 - 1] * Base + b[1]
      BY <2>11
    <3>2. 0 * Base = 0
      BY QueriesAssumption
    <3> QED
      BY <2>6, <2>11, <3>1, <3>2
  <2>13. ASSUME NEW n \in 1..N, n - 1 \in T PROVE n \in T
    <3>1. g[(n - 1) + 1] = f[n - 1] /\ (n - 1) + 1 = n /\ (n + 1) - 1 = n /\ n + 1 \in 1..(N + 1) /\ n \in 1..Len(a)
      BY <2>10, <2>13
    <3>2. g[n + 1] = g[n] * Base + b[n + 1]
      BY <2>11, <3>1
    <3>3. f[n] = f[n - 1] * Base + a[n] /\ b[n + 1] = a[n]
      BY <2>6, <2>11, <3>1
    <3> QED
      BY <3>1, <3>2, <3>3
  <2> HIDE DEF T
  <2>14. \A n \in 0..N : n \in T
    BY <2>12, <2>13, UpTo
  <2>15. g[N + 1] = f[N]
    BY <2>14 DEF T
  <2>16. Len(b) % 2 = 0
    <3>1. \A x \in Nat : x % 2 = 1 => (1 + x) % 2 = 0
      OBVIOUS
    <3> QED
      BY <2>1, <2>5, <3>1
  <2> QED
    BY <2>5, <2>7, <2>8, <2>9, <2>10, <2>15, <2>16
<1> QED
  BY <1>1, <1>2

\* What fits is not cut.
LEMMA NotCut ==
  ASSUME NEW w \in Nat \ {0}, NEW x \in Nat
  PROVE  x % w \in Nat /\ (x < w => x % w = x)
<1> QED
  OBVIOUS

\* Two digits at a time.
LEMMA Pairs ==
  ASSUME NEW x \in Nat, NEW b \in Nat, NEW c \in Nat, NEW d \in Nat
  PROVE  /\ (x * b + c) * b + d = x * b * b + c * b + d
         /\ x * b * b + c * b + d \in Nat
<1> QED
  OBVIOUS

\* A text without junk is digits.
LEMMA DigitsAre ==
  ASSUME NEW text \in Texts, AllDigits(text)
  PROVE  text.digits \in Seq(Digit)
<1>1. text.digits \in Seq(Digit \cup {Junk}) /\ Junk \notin Range(text.digits)
  BY DEF Texts, AllDigits, Digit
<1>2. PICK T : T = Digit \cup {Junk}
  OBVIOUS
<1>3. PICK s \in Seq(T) : s = text.digits
  BY <1>1, <1>2
<1>4. \A i \in 1..Len(s) : s[i] \in T /\ s[i] # Junk
  BY <1>1, <1>3 DEF Range
<1>5. \A i \in 1..Len(s) : s[i] \in Digit
  BY <1>2, <1>4
<1>6. s \in Seq(Digit)
  BY <1>3, <1>5
<1> QED
  BY <1>3, <1>6

\* Shifting bytes in is the same as reading digits, as long as it all fits.
LEMMA ShiftedIs ==
  ASSUME NEW text \in Texts, AllDigits(text)
  PROVE  /\ CmdHexToUint64(text) \in Nat
         /\ NumberOf(text.digits) < Wrap => CmdHexToUint64(text) = NumberOf(text.digits)
<1>1. PICK a \in Seq(Digit) : a = text.digits
  BY DigitsAre
<1>2. PICK d \in Seq(Digit) : d = Padded(a)
  BY PaddedIs
<1>3. Len(d) % 2 = 0 /\ NumberOf(d) = NumberOf(a) /\ Len(d) \in Nat
  BY <1>2, PaddedIs
<1>4. PICK N \in Nat : N = Len(d) \div 2 /\ Len(d) = 2 * N
  BY <1>3
<1>5. PICK f : IsReading(f, d) /\ NumberOf(d) = f[Len(d)]
  BY Reading
<1>6. PICK b \in Nat : b = Base /\ b > 1
  BY QueriesAssumption
<1>7. PICK w \in Nat \ {0} : w = Wrap
  BY QueriesAssumption DEF Wrap
<1> DEFINE Round(n, s) == (s * b * b + d[2 * n - 1] * b + d[2 * n]) % w
<1>8. \A n \in 1..N : d[2 * n - 1] \in Nat /\ d[2 * n] \in Nat
  <2> TAKE n \in 1..N
  <2>1. 2 * n - 1 \in 1..Len(d) /\ 2 * n \in 1..Len(d)
    BY <1>4
  <2>2. d[2 * n - 1] \in Digit /\ d[2 * n] \in Digit
    BY <2>1, ElementOfSeq
  <2> QED
    BY <2>2, QueriesAssumption DEF Digit
<1>9. \A n \in 1..N, s \in Nat : Round(n, s) \in Nat
  <2> TAKE n \in 1..N, s \in Nat
  <2>1. PICK c \in Nat, e \in Nat : c = d[2 * n - 1] /\ e = d[2 * n]
    BY <1>8
  <2>2. s * b * b + c * b + e \in Nat
    BY Pairs
  <2>3. (s * b * b + c * b + e) % w \in Nat
    BY <2>2, NotCut
  <2> QED
    BY <2>1, <2>3
<1> HIDE DEF Round
<1> DEFINE g == [n \in 1..N |-> [s \in Nat |-> Round(n, s)]]
<1>10. \A n \in 1..N, s \in Nat : g[n][s] = Round(n, s)
  OBVIOUS
<1>11. PICK h \in [0..N -> Nat] : h[0] = 0 /\ \A n \in 1..N : h[n] = g[n][h[n - 1]]
  <2>1. g \in [1..N -> [Nat -> Nat]]
    BY <1>9
  <2> HIDE DEF g
  <2>2. \E h : IsLoop(h, Nat, 0, N, g)
    BY <2>1, RecursionExists
  <2> QED
    BY <2>2 DEF IsLoop
<1> HIDE DEF g
<1>12. \A n \in 1..N : n - 1 \in 0..N
  OBVIOUS
<1>13. h = [n \in 0..N |-> IF n = 0 THEN 0 ELSE Round(n, h[n - 1])]
  <2>1. ASSUME NEW n \in 1..N PROVE h[n] = Round(n, h[n - 1])
    <3>1. h[n - 1] \in Nat
      BY <1>11, <1>12
    <3>2. g[n][h[n - 1]] = Round(n, h[n - 1])
      BY <1>10, <3>1
    <3> QED
      BY <1>11, <3>2
  <2>2. \A n \in 0..N : n = 0 \/ n \in 1..N
    OBVIOUS
  <2>3. \A n \in 0..N : h[n] = IF n = 0 THEN 0 ELSE Round(n, h[n - 1])
    BY <1>11, <2>1, <2>2
  <2> QED
    BY <1>11, <2>3
<1> DEFINE shifted[n \in 0..N] == IF n = 0 THEN 0 ELSE Round(n, shifted[n - 1])
<1>14. shifted = [n \in 0..N |-> IF n = 0 THEN 0 ELSE Round(n, shifted[n - 1])]
  BY <1>13, Zenon
<1>15. CmdHexToUint64(text) = shifted[N]
  BY <1>1, <1>2, <1>4, <1>6, <1>7, Zenon DEF CmdHexToUint64, Round
<1> HIDE DEF shifted
<1>16. PICK k : k = shifted
  OBVIOUS
<1>17. k = [n \in 0..N |-> IF n = 0 THEN 0 ELSE Round(n, k[n - 1])]
  BY <1>14, <1>16, Zenon
<1>18. k[0] = 0 /\ \A n \in 1..N : k[n] = Round(n, k[n - 1])
  BY <1>17
<1>19. k[N] \in Nat
  <2> DEFINE T == {n \in 0..N : k[n] \in Nat}
  <2>1. 0 \in T
    BY <1>18
  <2>2. ASSUME NEW n \in 1..N, n - 1 \in T PROVE n \in T
    <3>1. k[n - 1] \in Nat /\ n \in 0..N
      BY <2>2
    <3> QED
      BY <1>9, <1>18, <3>1
  <2>3. \A n \in 0..N : n \in T
    <3> HIDE DEF T
    <3> QED
      BY <2>1, <2>2, UpTo
  <2> QED
    BY <2>3
<1>20. ASSUME NumberOf(text.digits) < Wrap PROVE k[N] = f[Len(d)]
  <2>1. \A n \in 0..Len(d) : f[n] \in Nat /\ f[n] < w
    <3>1. f[Len(d)] < w
      BY <1>1, <1>3, <1>5, <1>7, <1>20
    <3>2. \A n \in 0..Len(d) : f[n] \in Nat /\ f[n] <= f[Len(d)]
      BY <1>5, ReadsLess DEF IsReading
    <3>3. f[Len(d)] \in Nat
      <4>1. Len(d) \in 0..Len(d)
        BY <1>3
      <4> QED
        BY <3>2, <4>1, Zenon
    <3> QED
      BY <3>1, <3>2, <3>3
  <2> DEFINE T == {n \in 0..N : k[n] = f[2 * n]}
  <2>2. 0 \in T
    BY <1>5, <1>18 DEF IsReading
  <2>3. ASSUME NEW n \in 1..N, n - 1 \in T PROVE n \in T
    <3>1. k[n - 1] = f[2 * (n - 1)]
      BY <2>3
    <3>2. /\ 2 * n - 1 \in 1..Len(d) /\ 2 * n \in 1..Len(d) /\ (2 * n - 1) - 1 = 2 * (n - 1)
          /\ 2 * (n - 1) \in 0..Len(d) /\ 2 * n \in 0..Len(d)
      BY <1>4
    <3>3. f[2 * n - 1] = f[(2 * n - 1) - 1] * Base + d[2 * n - 1] /\ f[2 * n] = f[2 * n - 1] * Base + d[2 * n]
      BY <1>5, <3>2 DEF IsReading
    <3>4. PICK x \in Nat, c \in Nat, e \in Nat : x = f[2 * (n - 1)] /\ c = d[2 * n - 1] /\ e = d[2 * n]
      BY <1>8, <2>1, <3>2
    <3>5. f[2 * n] = (x * b + c) * b + e
      BY <1>6, <3>2, <3>3, <3>4
    <3>6. f[2 * n] = x * b * b + c * b + e
      BY <3>5, Pairs
    <3>7. f[2 * n] \in Nat /\ f[2 * n] < w
      BY <2>1, <3>2
    <3>8. f[2 * n] % w = f[2 * n]
      BY <3>7, NotCut
    <3>9. k[n] = (x * b * b + c * b + e) % w
      BY <1>18, <3>1, <3>4 DEF Round
    <3>10. k[n] = f[2 * n]
      BY <3>6, <3>8, <3>9
    <3> QED
      BY <3>10
  <2>4. \A n \in 0..N : n \in T
    <3> HIDE DEF T
    <3> QED
      BY <2>2, <2>3, UpTo
  <2> QED
    BY <1>4, <2>4
<1> QED
  BY <1>1, <1>3, <1>5, <1>15, <1>16, <1>19, <1>20, Zenon

----------------------------------------------------------------------------
(* Programs that ask *)

\* What the state of a program that asks is made of.
QueryTypes ==
  /\ node \in [chain : Nat, head : Nat] /\ launch \in Launches
  /\ pc \in {"off", "new", "asking", "waiting", "exited"}
  /\ pc \notin {"off", "new"} => settings.cmd \in Query \cup {"usage", "help"}
  /\ got \in Seq(Texts) /\ said \in Seq(ReplyKinds)
  /\ out \in Printed \cup {None}

\* The texts of a round are those of its replies.
Heard ==
  /\ Len(said) = Len(got) /\ Len(got) <= Len(Method(settings.cmd))
  /\ \A i \in DOMAIN got : got[i] = Text(said[i])

\* The inductive invariant of a program that asks.
QueryInv ==
  /\ QueryTypes
  /\ pc \in {"off", "new"} => said = <<>> /\ got = <<>> /\ out = None
  /\ pc \in {"asking", "waiting"} => settings.cmd \in Query
  /\ pc = "asking" => out = None /\ Heard
  /\ pc = "waiting" => Polls
  /\ NumbersAreTheNodes /\ QueryTellsTruth

\* A command line has a command, or is a usage error.
LEMMA TakeIs ==
  ASSUME NEW cmd, NEW s
  PROVE  Take(cmd, s).cmd \in {cmd, "usage"} /\ Only(cmd).cmd = cmd
<1>1. Take(cmd, s).cmd = IF s.ok THEN cmd ELSE "usage"
  BY DEF Take
<1>2. Only(cmd).cmd = cmd
  BY DEF Only
<1> QED
  BY <1>1, <1>2

\* Whatever is launched asks, or shows its usage.
LEMMA CommandIs ==
  ASSUME NEW l \in Launches
  PROVE  Settings(l).cmd \in Query \cup {"usage", "help"}
<1> DEFINE Understood == Query \cup {"usage", "help"}
<1>1. /\ "usage" \in Understood /\ "help" \in Understood /\ "status" \in Understood /\ "head" \in Understood /\ "once" \in Understood /\ "run" \in Understood
      /\ l.tool \in {"qikchain", "qikchaind", "cobra"}
  BY QueriesAssumption DEF Query
<1>2. \A s : /\ Take("status", s).cmd \in Understood /\ Take("head", s).cmd \in Understood
             /\ Take("once", s).cmd \in Understood /\ Take("run", s).cmd \in Understood
  BY <1>1, TakeIs, Zenon
<1>3. Only("usage").cmd \in Understood /\ Only("help").cmd \in Understood
  BY <1>1, TakeIs, Zenon
<1> HIDE DEF Understood
<1>4. \A words : CmdFlags("status", words).cmd \in Understood /\ CmdFlags("head", words).cmd \in Understood
  BY <1>2, Zenon DEF CmdFlags
<1>5. \A words : CmdBlock(words).cmd \in Understood
  BY <1>3, <1>4, Zenon DEF CmdBlock
<1>6. \A words : Qikchain(words).cmd \in Understood
  BY <1>3, <1>4, <1>5, Zenon DEF Qikchain
<1>7. Qikchaind(l).cmd \in Understood
  BY <1>2, <1>3, Zenon DEF Qikchaind
<1>8. Cobra(l).cmd \in Understood
  BY <1>2, <1>3, Zenon DEF Cobra
<1>9. Settings(l).cmd \in Understood
  BY <1>1, <1>6, <1>7, <1>8, Zenon DEF Settings
<1> QED
  BY <1>9 DEF Understood

\* What the node can answer to any call is a reply.
LEMMA RepliesAre ==
  ASSUME QueryTypes, NEW cmd, NEW i \in 1..Len(Method(cmd))
  PROVE  Replies(Method(cmd)[i]) \subseteq ReplyKinds
<1>1. Method(cmd)[i] \in {"eth_chainId", "eth_blockNumber", "net_peerCount"}
  <2>1. CASE cmd = "head"
    <3>1. Method(cmd) = HeadCalls
      BY <2>1 DEF Method
    <3> QED
      BY <3>1 DEF HeadCalls
  <2>2. CASE cmd # "head"
    <3>1. Method(cmd) = StatusCalls
      BY <2>2 DEF Method
    <3> QED
      BY <3>1 DEF StatusCalls
  <2> QED
    BY <2>1, <2>2
<1>2. \A method \in {"eth_chainId", "eth_blockNumber", "net_peerCount"} : Honest(method) \in ReplyKinds
  <2> TAKE method \in {"eth_chainId", "eth_blockNumber", "net_peerCount"}
  <2>1. node.chain \in Nat /\ node.head \in Nat /\ 0 \in Nat
    BY DEF QueryTypes
  <2>2. PICK n \in Nat : n = CASE method = "eth_chainId" -> node.chain
                             [] method = "eth_blockNumber" -> node.head
                             [] method = "net_peerCount" -> 0
    BY <2>1
  <2>3. PICK text \in Texts : text = Quantity(n)
    BY QuantityIs
  <2>4. Honest(method) = [http |-> "200", body |-> "string", usage |-> FALSE, text |-> text]
    BY <2>2, <2>3 DEF Honest
  <2> QED
    BY <2>4 DEF ReplyKinds
<1>3. OddReplies \subseteq ReplyKinds
  BY QueriesAssumption
<1>4. Replies(Method(cmd)[i]) \subseteq {Honest(Method(cmd)[i])} \cup OddReplies
  BY DEF Replies
<1> QED
  BY <1>1, <1>2, <1>3, <1>4

\* A call returns the text of its reply, or fails.
LEMMA CalledIs ==
  ASSUME NEW tool, NEW reply \in ReplyKinds
  PROVE  Text(reply) \in Texts /\ Called(tool, reply) \in {Text(reply), None}
<1>1. Empty \in Texts
  <2>1. <<>> \in Seq(0..(Base - 1) \cup {Junk})
    BY EmptySeq
  <2> QED
    BY <2>1 DEF Empty, Texts
<1>2. reply.text \in Texts
  BY DEF ReplyKinds
<1>3. Text(reply) \in Texts
  BY <1>1, <1>2 DEF Text
<1>4. Called(tool, reply) \in {Text(reply), None}
  BY DEF Called, CmdCallString, CallString
<1> QED
  BY <1>3, <1>4

\* What a text is, if it is a number.
IsNumber(text) == text.digits # <<>> /\ AllDigits(text) /\ NumberOf(text.digits) < Wrap

\* What a program decodes of a text: qikchain takes anything, the others a number.
LEMMA DecodedIs ==
  ASSUME NEW tool, NEW text \in Texts, Decoded(tool, text) # None
  PROVE  /\ Decoded(tool, text) \in Nat
         /\ IsNumber(text) => Decoded(tool, text) = NumberOf(text.digits)
         /\ tool = "qikchain" \/ (IsNumber(text) /\ text.prefix)
<1>1. CASE tool = "qikchain"
  <2>1. Decoded(tool, text) = CmdHexToUint64(text)
    BY <1>1 DEF Decoded
  <2>2. CASE AllDigits(text)
    BY <1>1, <2>1, <2>2, ShiftedIs DEF IsNumber
  <2>3. CASE ~AllDigits(text)
    <3>1. CmdHexToUint64(text) = 0
      BY <2>3, Zenon DEF CmdHexToUint64
    <3> QED
      BY <1>1, <2>1, <2>3, <3>1 DEF IsNumber
  <2> QED
    BY <2>2, <2>3
<1>2. CASE tool # "qikchain"
  <2>1. Decoded(tool, text) = HexToUint64(text)
    BY <1>2 DEF Decoded
  <2>2. /\ text.prefix /\ text.digits # <<>> /\ AllDigits(text) /\ ~(NumberOf(text.digits) >= Wrap)
        /\ HexToUint64(text) = NumberOf(text.digits)
    BY <2>1, Zenon DEF HexToUint64
  <2>3. NumberOf(text.digits) \in Nat
    BY <2>2, DigitsAre, NumberIs
  <2>4. NumberOf(text.digits) < Wrap
    <3>1. Wrap \in Nat
      BY QueriesAssumption DEF Wrap
    <3> QED
      BY <2>2, <2>3, <3>1
  <2> QED
    BY <2>1, <2>2, <2>3, <2>4 DEF IsNumber
<1> QED
  BY <1>1, <1>2

\* The line for an error is printed, and is one.
LEMMA ErrorLineIs ==
  ErrorLine \in Printed /\ ErrorLine.error = TRUE
<1>1. <<>> \in Seq(Texts) /\ <<>> \in Seq(Nat)
  BY EmptySeq
<1>2. PICK t \in Seq(Texts), n \in Seq(Nat) : t = <<>> /\ n = <<>>
  BY <1>1
<1>3. ErrorLine = [error |-> TRUE, texts |-> t, numbers |-> n]
  BY <1>2 DEF ErrorLine
<1> QED
  BY <1>3 DEF Printed

\* A round of calls that failed, with some status.
LEMMA RoundFails ==
  ASSUME QueryInv, pc = "asking", NEW status \in {1, 2}, Over(ErrorLine, status),
         UNCHANGED <<launch, settings, node>>, got' \in Seq(Texts), said' \in Seq(ReplyKinds),
         status = 2 => launch.tool = "cobra" /\ Last(said').usage
  PROVE  QueryInv'
<1>1. QueryTypes /\ settings.cmd \in Query
  BY DEF QueryInv
<1>2. CASE Polls
  <2>1. out' = ErrorLine /\ pc' = "waiting"
    BY <1>2 DEF Over
  <2>2. QueryTypes'
    BY <1>1, <2>1, ErrorLineIs DEF QueryTypes
  <2>3. NumbersAreTheNodes' /\ QueryTellsTruth'
    BY <2>1, ErrorLineIs DEF NumbersAreTheNodes, QueryTellsTruth
  <2> QED
    BY <1>1, <1>2, <2>1, <2>2, <2>3 DEF QueryInv, Polls
<1>3. CASE ~Polls
  <2>1. out' = None /\ pc' = "exited" /\ exit' = status
    BY <1>3 DEF Over
  <2>2. QueryTypes'
    BY <1>1, <2>1 DEF QueryTypes
  <2>3. NumbersAreTheNodes' /\ QueryTellsTruth'
    BY <2>1 DEF NumbersAreTheNodes, QueryTellsTruth
  <2> QED
    BY <2>1, <2>2, <2>3 DEF QueryInv
<1> QED
  BY <1>2, <1>3

\* One call of a round.
LEMMA CallKeeps ==
  ASSUME QueryInv, Call
  PROVE  QueryInv'
<1>1. /\ QueryTypes /\ settings.cmd \in Query /\ Heard /\ out = None
      /\ pc = "asking" /\ Len(got) < Len(Method(settings.cmd)) /\ UNCHANGED <<node, launch, settings>>
  BY DEF QueryInv, Call
<1>2. PICK k \in Nat : k = Len(got)
  BY <1>1 DEF QueryTypes
<1>3. PICK reply \in Replies(Method(settings.cmd)[k + 1]) :
        /\ said' = Append(said, reply)
        /\ IF Called(launch.tool, reply) # None
           THEN got' = Append(got, Called(launch.tool, reply)) /\ UNCHANGED <<pc, out, exit, ticker>>
           ELSE Over(ErrorLine, Failure(reply)) /\ UNCHANGED got
  BY <1>2 DEF Call
<1>4. Len(Method(settings.cmd)) \in Nat
  BY DEF Method, HeadCalls, StatusCalls
<1>5. reply \in ReplyKinds
  BY <1>1, <1>2, <1>3, <1>4, RepliesAre
<1>6. said' \in Seq(ReplyKinds) /\ Last(said') = reply /\ Len(said') = k + 1 /\ said'[k + 1] = reply
      /\ \A i \in 1..k : said'[i] = said[i]
  <2>1. PICK R : R = ReplyKinds
    OBVIOUS
  <2>2. said \in Seq(R) /\ Len(said) = k /\ reply \in R
    BY <1>1, <1>2, <1>5, <2>1 DEF QueryTypes, Heard
  <2> QED
    BY <1>3, <2>1, <2>2 DEF Last
<1>7. CASE Called(launch.tool, reply) # None
  <2>1. Text(reply) \in Texts /\ got' = Append(got, Text(reply)) /\ UNCHANGED <<pc, out>>
    BY <1>3, <1>5, <1>7, CalledIs
  <2>2. got \in Seq(Texts)
    BY <1>1 DEF QueryTypes
  <2>3. /\ got' \in Seq(Texts) /\ Len(got') = k + 1 /\ got'[k + 1] = Text(reply) /\ DOMAIN got' = 1..(k + 1)
        /\ \A i \in 1..k : got'[i] = got[i]
    BY <1>2, <2>1, <2>2
  <2>4. Heard'
    <3>1. \A i \in 1..k : got[i] = Text(said[i])
      BY <1>1, <1>2, <2>2 DEF Heard
    <3>2. \A i \in 1..(k + 1) : i = k + 1 \/ i \in 1..k
      OBVIOUS
    <3>3. \A i \in DOMAIN got' : got'[i] = Text(said'[i])
      BY <1>6, <2>3, <3>1, <3>2
    <3> QED
      BY <1>1, <1>2, <1>4, <1>6, <2>3, <3>3 DEF Heard
  <2>5. QueryTypes'
    BY <1>1, <1>6, <2>1, <2>3 DEF QueryTypes
  <2>6. NumbersAreTheNodes' /\ QueryTellsTruth'
    BY <1>1, <2>1 DEF NumbersAreTheNodes, QueryTellsTruth
  <2> QED
    BY <1>1, <2>1, <2>4, <2>5, <2>6 DEF QueryInv
<1>8. CASE Called(launch.tool, reply) = None
  <2>1. PICK status \in {1, 2} : status = Failure(reply)
    BY DEF Failure
  <2>2. Over(ErrorLine, status) /\ got' = got
    BY <1>3, <1>8, <2>1
  <2>3. status = 2 => launch.tool = "cobra" /\ Last(said').usage
    BY <1>6, <2>1 DEF Failure
  <2>4. got' \in Seq(Texts)
    BY <1>1, <2>2 DEF QueryTypes
  <2> QED
    BY <1>1, <1>6, <2>2, <2>3, <2>4, RoundFails
<1> QED
  BY <1>7, <1>8

\* The report at the end of a round.
LEMMA ReportKeeps ==
  ASSUME QueryInv, Report
  PROVE  QueryInv'
<1>1. /\ QueryTypes /\ settings.cmd \in Query /\ Heard /\ out = None
      /\ pc = "asking" /\ Len(got) = Len(Method(settings.cmd)) /\ UNCHANGED <<node, launch, settings, got, said, signalled>>
  BY DEF QueryInv, Report
<1>2. PICK k \in Nat : k = Len(got) /\ DOMAIN got = 1..k /\ \A i \in 1..k : got[i] \in Texts
  BY <1>1 DEF QueryTypes
<1>3. PICK numbers : numbers = [i \in DOMAIN got |-> Decoded(launch.tool, got[i])]
  OBVIOUS
<1>4. CASE None \in Range(numbers)
  <2>1. Over(ErrorLine, 1)
    BY <1>3, <1>4 DEF Report
  <2>2. got' \in Seq(Texts) /\ said' \in Seq(ReplyKinds) /\ 1 \in {1, 2} /\ 1 # 2
    BY <1>1 DEF QueryTypes
  <2> QED
    BY <1>1, <2>1, <2>2, RoundFails
<1>5. CASE None \notin Range(numbers)
  <2>1. \A i \in 1..k : numbers[i] = Decoded(launch.tool, got[i]) /\ numbers[i] # None
    BY <1>2, <1>3, <1>5 DEF Range
  <2>2. \A i \in 1..k : /\ numbers[i] \in Nat
                        /\ IsNumber(got[i]) => numbers[i] = NumberOf(got[i].digits)
                        /\ launch.tool = "qikchain" \/ (IsNumber(got[i]) /\ got[i].prefix)
    BY <1>2, <2>1, DecodedIs
  <2>3. numbers \in Seq(Nat) /\ Len(numbers) = k /\ DOMAIN numbers = 1..k
    BY <1>2, <1>3, <2>2
  <2>4. PICK line : line = [error |-> FALSE, texts |-> got, numbers |-> numbers]
    OBVIOUS
  <2>5. line \in Printed /\ line.error = FALSE /\ line.numbers = numbers
    <3>1. got \in Seq(Texts)
      BY <1>1 DEF QueryTypes
    <3> QED
      BY <2>3, <2>4, <3>1 DEF Printed
  <2>6. Over(line, 0)
    BY <1>3, <1>5, <2>4 DEF Report
  <2>7. out' = line /\ pc' \in {"waiting", "exited"} /\ (pc' = "exited" => ~Polls /\ exit' = 0) /\ (pc' = "waiting" => Polls)
    BY <2>6 DEF Over
  <2>8. QueryTypes'
    BY <1>1, <2>5, <2>7 DEF QueryTypes
  <2>9. NumbersAreTheNodes'
    <3>1. \A i \in 1..k : got[i] = Text(said[i])
      BY <1>1, <1>2 DEF Heard
    <3>2. ASSUME NEW i \in 1..k
          PROVE  LET text == said[i].text
                     isNumber == said[i].body = "string" /\ text.digits # <<>> /\ AllDigits(text)
                                   /\ NumberOf(text.digits) < Wrap
                 IN /\ isNumber => numbers[i] = NumberOf(text.digits)
                    /\ launch.tool = "qikchain" \/ (isNumber /\ text.prefix)
      <4>1. CASE said[i].body = "string"
        <5>1. got[i] = said[i].text
          BY <3>1, <4>1 DEF Text
        <5> QED
          BY <2>2, <4>1, <5>1, Zenon DEF IsNumber
      <4>2. CASE said[i].body # "string"
        <5>1. got[i] = Empty
          BY <3>1, <4>2 DEF Text
        <5>2. ~IsNumber(got[i])
          BY <5>1 DEF IsNumber, Empty
        <5> QED
          BY <2>2, <4>2, <5>2, Zenon
      <4> QED
        BY <4>1, <4>2
    <3>3. Len(said) = k
      BY <1>1, <1>2 DEF Heard
    <3>4. out'.numbers = numbers /\ said' = said /\ launch' = launch
      BY <1>1, <2>5, <2>7
    <3> QED
      BY <2>3, <3>2, <3>3, <3>4, Zenon DEF NumbersAreTheNodes
  <2>10. QueryTellsTruth'
    <3> SUFFICES ASSUME pc' = "exited" PROVE QueryTellsTruth'
      BY DEF QueryTellsTruth
    <3>1. exit' = 0 /\ settings'.cmd # "run"
      BY <1>1, <2>7 DEF Polls
    <3>2. out' # None /\ ~out'.error /\ Len(out'.numbers) = Len(Method(settings'.cmd))
      BY <1>1, <1>2, <2>3, <2>5, <2>7, QueriesAssumption
    <3> QED
      BY <3>1, <3>2 DEF QueryTellsTruth
  <2> QED
    BY <1>1, <2>7, <2>8, <2>9, <2>10 DEF QueryInv, Polls
<1> QED
  BY <1>4, <1>5

\* The command line is read.
LEMMA StartKeeps ==
  ASSUME QueryInv, Start
  PROVE  QueryInv'
<1>1. /\ QueryTypes /\ pc = "new" /\ said = <<>> /\ got = <<>> /\ out = None
      /\ UNCHANGED <<node, launch, got, said, out>>
  BY DEF QueryInv, Start
<1>2. settings'.cmd \in Query \cup {"usage", "help"}
  BY <1>1, CommandIs DEF Start, QueryTypes
<1>3. \/ settings'.cmd = "usage" /\ pc' = "exited" /\ exit' = 2
      \/ settings'.cmd = "help" /\ pc' = "exited" /\ exit' = 0
      \/ settings'.cmd \in Query /\ pc' = "asking"
  BY <1>2 DEF Start
<1>4. QueryTypes'
  BY <1>1, <1>2, <1>3 DEF QueryTypes
<1>5. Heard'
  <2>1. Len(got) = 0 /\ Len(said) = 0 /\ DOMAIN got = {} /\ Len(Method(settings'.cmd)) \in Nat
    BY <1>1 DEF Method, HeadCalls, StatusCalls
  <2> QED
    BY <1>1, <2>1 DEF Heard
<1>6. NumbersAreTheNodes'
  BY <1>1 DEF NumbersAreTheNodes
<1>7. QueryTellsTruth'
  BY <1>1, <1>3 DEF QueryTellsTruth, Query
<1> QED
  BY <1>1, <1>3, <1>4, <1>5, <1>6, <1>7 DEF QueryInv

\* Every step keeps the invariant of a program that asks.
LEMMA QueryStep == QueryInv /\ [ClientsNext]_clientVars => QueryInv'
<1> SUFFICES ASSUME QueryInv, [ClientsNext]_clientVars PROVE QueryInv'
  OBVIOUS
<1>1. QueryTypes
  BY DEF QueryInv
<1>2. CASE NewBlock \/ ResetNode
  <2>1. /\ node' \in [chain : Nat, head : Nat]
        /\ UNCHANGED <<launch, pc, settings, got, said, out, exit, signalled>>
    BY <1>1, <1>2 DEF NewBlock, ResetNode, QueryTypes, daemon
  <2>2. QueryTypes'
    BY <1>1, <2>1 DEF QueryTypes
  <2> QED
    BY <2>1, <2>2 DEF QueryInv, Heard, Polls, NumbersAreTheNodes, QueryTellsTruth
<1>3. CASE TickerFires
  <2>1. UNCHANGED <<node, launch, pc, settings, got, said, out, exit, signalled>>
    BY <1>3 DEF TickerFires
  <2> QED
    BY <2>1 DEF QueryInv, QueryTypes, Heard, Polls, NumbersAreTheNodes, QueryTellsTruth
<1>4. CASE SelectTick
  <2>1. /\ pc = "waiting" /\ pc' = "asking" /\ got' = <<>> /\ said' = <<>> /\ out' = None
        /\ UNCHANGED <<node, launch, settings>>
    BY <1>4 DEF SelectTick
  <2>2. <<>> \in Seq(Texts) /\ <<>> \in Seq(ReplyKinds)
    BY EmptySeq
  <2>3. QueryTypes'
    BY <1>1, <2>1, <2>2 DEF QueryTypes
  <2>4. Heard'
    <3>1. Len(got') = 0 /\ Len(said') = 0 /\ DOMAIN got' = {} /\ Len(Method(settings'.cmd)) \in Nat
      BY <2>1 DEF Method, HeadCalls, StatusCalls
    <3> QED
      BY <3>1 DEF Heard
  <2>5. NumbersAreTheNodes' /\ QueryTellsTruth'
    BY <2>1 DEF NumbersAreTheNodes, QueryTellsTruth
  <2> QED
    BY <2>1, <2>3, <2>4, <2>5 DEF QueryInv
<1>5. CASE Signal
  <2>1. signalled' = TRUE /\ pc \in {"asking", "waiting"} /\ UNCHANGED <<node, launch, pc, settings, got, said, out, exit>>
    BY <1>5 DEF Signal, Running
  <2> QED
    BY <2>1 DEF QueryInv, QueryTypes, Heard, Polls, NumbersAreTheNodes, QueryTellsTruth
<1>6. CASE SelectDone
  <2>1. /\ pc = "waiting" /\ signalled /\ pc' = "exited" /\ exit' = 0 /\ settings.cmd = "run"
        /\ UNCHANGED <<node, launch, settings, got, said, out, signalled>>
    BY <1>6 DEF SelectDone, daemon, QueryInv, Polls
  <2>2. QueryTypes'
    BY <1>1, <2>1 DEF QueryTypes
  <2>3. NumbersAreTheNodes'
    BY <2>1 DEF QueryInv, NumbersAreTheNodes
  <2>4. QueryTellsTruth'
    BY <2>1 DEF QueryTellsTruth
  <2> QED
    BY <2>1, <2>2, <2>3, <2>4 DEF QueryInv
<1>7. CASE UNCHANGED queryVars
  BY <1>7 DEF queryVars, QueryInv, QueryTypes, Heard, Polls, NumbersAreTheNodes, QueryTellsTruth
<1> QED
  BY <1>2, <1>3, <1>4, <1>5, <1>6, <1>7, StartKeeps, CallKeeps, ReportKeeps
     DEF ClientsNext, AQueryStep, ASendStep, ACapsStep, QueryNext, clientVars

\* A program that asks starts with it.
LEMMA QueryInitial == ClientsInit => QueryInv
<1> SUFFICES ASSUME ClientsInit PROVE QueryInv
  OBVIOUS
<1>1. /\ node = [chain |-> 1, head |-> 0] /\ launch \in Launches /\ pc \in {"off", "new"}
      /\ got = <<>> /\ said = <<>> /\ out = None
  BY DEF ClientsInit, QueryInit
<1>2. <<>> \in Seq(Texts) /\ <<>> \in Seq(ReplyKinds)
  BY EmptySeq
<1>3. QueryTypes
  BY <1>1, <1>2 DEF QueryTypes
<1>4. NumbersAreTheNodes /\ QueryTellsTruth
  BY <1>1 DEF NumbersAreTheNodes, QueryTellsTruth
<1> QED
  BY <1>1, <1>3, <1>4 DEF QueryInv

----------------------------------------------------------------------------
(* Command lines, and what they are taken for *)

\* A word of a line, and how far the reading of it can be.  That a literal is
\* in STRING no prover knows.
FlagNames == {"rpc", "timeout", "interval", "json"}
NoName == ""
Strings == STRING \cup FlagNames \cup {NoName, DefaultRpc}
LineWord == [dash : BOOLEAN, name : Strings, eq : Strings]
Reader == [rpc : Strings, timeout : Nat, interval : Nat, ok : BOOLEAN, want : FlagNames \cup {NoName}, rest : Seq(LineWord)]

\* A duration is a number, or none.
LEMMA SecondsAre ==
  ASSUME NEW word
  PROVE  Seconds(word) # None => Seconds(word) \in Nat
BY DEF Seconds

\* A flag that is given a value has it, and no other flag has changed.
LEMMA AssignIs ==
  ASSUME NEW s \in Reader, s.ok, NEW flag \in FlagNames, NEW value \in Strings, NEW e, e = Assign(s, flag, value)
  PROVE  /\ e \in Reader /\ e.want = NoName /\ e.rest = s.rest
         /\ e.rpc = IF flag = "rpc" THEN value ELSE s.rpc
         /\ e.ok => e.timeout = IF flag = "timeout" THEN Seconds(value) ELSE s.timeout
<1>1. CASE flag = "rpc"
  <2>1. e = [s EXCEPT !.rpc = value, !.want = NoName]
    BY <1>1 DEF Assign, NoName
  <2> QED
    BY <1>1, <2>1 DEF Reader
<1>2. CASE flag = "json"
  <2>1. PICK ok : ok = (value \in {"true", "false"})
    OBVIOUS
  <2>2. ok \in BOOLEAN
    <3>1. CASE value \in {"true", "false"}
      BY <2>1, <3>1
    <3>2. CASE value \notin {"true", "false"}
      BY <2>1, <3>2
    <3> QED
      BY <3>1, <3>2
  <2>3. e = [s EXCEPT !.ok = ok, !.want = NoName]
    BY <1>2, <2>1 DEF Assign, NoName
  <2> QED
    BY <1>2, <2>2, <2>3 DEF Reader
<1>3. PICK ok \in BOOLEAN : ok = (Seconds(value) # None)
  OBVIOUS
<1>4. CASE flag = "timeout"
  <2>1. PICK t : t = IF Seconds(value) = None THEN s.timeout ELSE Seconds(value)
    OBVIOUS
  <2>2. t \in Nat /\ (ok => t = Seconds(value))
    BY <1>3, <2>1, SecondsAre DEF Reader
  <2>3. e = [s EXCEPT !.ok = ok, !.timeout = t, !.want = NoName]
    BY <1>3, <1>4, <2>1 DEF Assign, NoName
  <2>4. /\ e \in Reader /\ e.want = NoName /\ e.rest = s.rest /\ e.rpc = s.rpc /\ e.timeout = t
    BY <2>2, <2>3 DEF Reader
  <2>5. e.ok = ok
    BY <2>3 DEF Reader
  <2> QED
    BY <1>4, <2>2, <2>4, <2>5
<1>5. CASE flag = "interval"
  <2>1. PICK t : t = IF Seconds(value) = None THEN s.interval ELSE Seconds(value)
    OBVIOUS
  <2>2. t \in Nat
    BY <2>1, SecondsAre DEF Reader
  <2>3. e = [s EXCEPT !.ok = ok, !.interval = t, !.want = NoName]
    BY <1>3, <1>5, <2>1 DEF Assign, NoName
  <2> QED
    BY <1>5, <2>2, <2>3 DEF Reader
<1> QED
  BY <1>1, <1>2, <1>4, <1>5 DEF FlagNames

\* Then it is as far as before.
LEMMA AssignRead ==
  ASSUME NEW s \in Reader, s.ok, NEW flag \in FlagNames, NEW value \in Strings
  PROVE  Assign(s, flag, value) \in Reader
<1>1. PICK e : e = Assign(s, flag, value)
  OBVIOUS
<1>2. e \in Reader
  BY <1>1, AssignIs
<1> QED
  BY <1>1, <1>2

\* Flags may stand here.
NoOperand(s) == s.rest = <<>>
FlagsHere(s, anywhere) == anywhere \/ NoOperand(s)
Longer(rest, w) == Append(rest, w)

\* One word more.
LEMMA ReadWordIs ==
  ASSUME NEW s \in Reader, NEW w \in LineWord, NEW known \in SUBSET FlagNames, NEW anywhere \in BOOLEAN,
         NEW e, e = ReadWord(s, w, known, anywhere)
  PROVE  /\ e \in Reader
         /\ ~s.ok => e = s
         /\ s.ok /\ s.want # NoName => e = Assign(s, s.want, w.name)
         /\ s.ok /\ s.want = NoName /\ w.dash /\ FlagsHere(s, anywhere) => e = Flag(s, w, known)
         /\ s.ok /\ s.want = NoName /\ ~(w.dash /\ FlagsHere(s, anywhere)) =>
              e.want = NoName /\ e.rpc = s.rpc /\ e.timeout = s.timeout /\ e.rest = Longer(s.rest, w)
<1>1. CASE ~s.ok
  BY <1>1 DEF ReadWord
<1>2. CASE s.ok /\ s.want # NoName
  <2>1. e = Assign(s, s.want, w.name)
    BY <1>2 DEF ReadWord, NoName
  <2>2. s.want \in FlagNames /\ w.name \in Strings
    BY <1>2 DEF Reader, LineWord
  <2>3. e \in Reader
    BY <1>2, <2>1, <2>2, AssignIs
  <2> QED
    BY <1>2, <2>1, <2>3
<1>3. CASE s.ok /\ s.want = NoName /\ w.dash /\ FlagsHere(s, anywhere)
  <2>1. e = Flag(s, w, known)
    BY <1>3 DEF ReadWord, FlagsHere, NoOperand, NoName
  <2>2. e \in Reader
    <3>1. CASE w.name \notin known
      <4>1. e = [s EXCEPT !.ok = FALSE]
        BY <2>1, <3>1 DEF Flag
      <4> QED
        BY <4>1 DEF Reader
    <3>2. CASE w.name \in known /\ w.eq # NoName
      <4>1. e = Assign(s, w.name, w.eq) /\ w.name \in FlagNames /\ w.eq \in Strings
        BY <2>1, <3>2 DEF Flag, LineWord, NoName
      <4>2. s.ok
        BY <1>3
      <4> QED
        BY <4>1, <4>2, AssignRead
    <3>3. CASE w.name \in known /\ w.eq = NoName
      <4>1. e = IF w.name = "json" THEN s ELSE [s EXCEPT !.want = w.name]
        BY <2>1, <3>3 DEF Flag, NoName
      <4> QED
        BY <3>3, <4>1 DEF Reader
    <3> QED
      BY <3>1, <3>2, <3>3
  <2> QED
    BY <1>3, <2>1, <2>2
<1>4. CASE s.ok /\ s.want = NoName /\ ~(w.dash /\ FlagsHere(s, anywhere))
  <2>1. e = [s EXCEPT !.rest = Append(s.rest, w)]
    BY <1>4 DEF ReadWord, FlagsHere, NoOperand, NoName
  <2>2. PICK r : r = Append(s.rest, w) /\ r \in Seq(LineWord)
    <3>1. s.rest \in Seq(LineWord)
      BY DEF Reader
    <3> QED
      BY <3>1, AppendProperties
  <2>3. e \in Reader /\ e.want = s.want /\ e.rpc = s.rpc /\ e.timeout = s.timeout /\ e.rest = r
    BY <2>1, <2>2 DEF Reader
  <2> QED
    BY <1>4, <2>2, <2>3 DEF Longer
<1>5. s.ok \in BOOLEAN /\ w.dash \in BOOLEAN
  BY DEF Reader, LineWord
<1> QED
  BY <1>1, <1>2, <1>3, <1>4, <1>5

\* How far the reading is after each word.
IsRead(f, words, init, known, anywhere) ==
  /\ f \in [0..Len(words) -> Reader] /\ f[0] = init
  /\ \A n \in 1..Len(words) : f[n] = ReadWord(f[n - 1], words[n], known, anywhere)

\* The recursion of ReadWords has a value, which reads the words.
LEMMA ReadWordsIs ==
  ASSUME NEW words \in Seq(LineWord), NEW init \in Reader, NEW known \in SUBSET FlagNames, NEW anywhere \in BOOLEAN
  PROVE  \E f : /\ IsRead(f, words, init, known, anywhere)
                /\ ReadWords(words, init, known, anywhere) = Finished(f[Len(words)])
<1> DEFINE Round(n, s) == ReadWord(s, words[n], known, anywhere)
<1>1. PICK N \in Nat : N = Len(words)
  OBVIOUS
<1>2. \A n \in 1..N : words[n] \in LineWord
  BY <1>1
<1>3. \A n \in 1..N, s \in Reader : Round(n, s) \in Reader
  <2> SUFFICES ASSUME NEW n \in 1..N, NEW s \in Reader PROVE Round(n, s) \in Reader
    OBVIOUS
  <2>1. PICK e : e = ReadWord(s, words[n], known, anywhere)
    OBVIOUS
  <2>2. e \in Reader
    BY <1>2, <2>1, ReadWordIs
  <2> QED
    BY <2>1, <2>2
<1> HIDE DEF Round
<1> DEFINE g == [n \in 1..N |-> [s \in Reader |-> Round(n, s)]]
<1>4. \A n \in 1..N, s \in Reader : g[n][s] = Round(n, s)
  OBVIOUS
<1>5. PICK h \in [0..N -> Reader] : h[0] = init /\ \A n \in 1..N : h[n] = g[n][h[n - 1]]
  <2>1. g \in [1..N -> [Reader -> Reader]]
    BY <1>3
  <2> HIDE DEF g
  <2>2. \E h : IsLoop(h, Reader, init, N, g)
    BY <2>1, RecursionExists
  <2> QED
    BY <2>2 DEF IsLoop
<1> HIDE DEF g
<1>6. \A n \in 1..N : n - 1 \in 0..N
  OBVIOUS
<1>7. h = [n \in 0..N |-> IF n = 0 THEN init ELSE Round(n, h[n - 1])]
  BY <1>4, <1>5, <1>6
<1> DEFINE read[n \in 0..N] == IF n = 0 THEN init ELSE Round(n, read[n - 1])
<1>8. read = [n \in 0..N |-> IF n = 0 THEN init ELSE Round(n, read[n - 1])]
  BY <1>7, Zenon
<1>9. ReadWords(words, init, known, anywhere) = Finished(read[N])
  BY <1>1, Zenon DEF ReadWords, Round
<1> HIDE DEF read
<1>10. PICK f : f = read
  OBVIOUS
<1>11. f = [n \in 0..N |-> IF n = 0 THEN init ELSE Round(n, f[n - 1])]
  BY <1>8, <1>10, Zenon
<1>12. f[0] = init /\ \A n \in 1..N : f[n] = Round(n, f[n - 1])
  BY <1>11
<1>13. \A n \in 0..N : f[n] \in Reader
  <2> DEFINE T == {n \in 0..N : f[n] \in Reader}
  <2>1. 0 \in T
    BY <1>12
  <2>2. ASSUME NEW n \in 1..N, n - 1 \in T PROVE n \in T
    <3>1. f[n - 1] \in Reader /\ n \in 0..N
      BY <2>2
    <3> QED
      BY <1>3, <1>12, <3>1
  <2> HIDE DEF T
  <2>3. \A n \in 0..N : n \in T
    BY <2>1, <2>2, UpTo
  <2> QED
    BY <2>3 DEF T
<1>14. f \in [0..N -> Reader]
  BY <1>11, <1>13
<1>15. IsRead(f, words, init, known, anywhere)
  BY <1>1, <1>12, <1>14, Zenon DEF IsRead, Round
<1>16. ReadWords(words, init, known, anywhere) = Finished(f[Len(words)])
  BY <1>1, <1>9, <1>10, Zenon
<1> QED
  BY <1>15, <1>16, Zenon

\* What is left of the words so far.
Strip == [skip : BOOLEAN, left : Seq(LineWord)]
IsStrip(f, words) ==
  /\ f \in [0..Len(words) -> Strip] /\ f[0] = [skip |-> FALSE, left |-> <<>>]
  /\ \A n \in 1..Len(words) : f[n] = StripWord(f[n - 1], words[n])

\* One word more.
LEMMA StripWordIs ==
  ASSUME NEW s \in Strip, NEW w \in LineWord, NEW e, e = StripWord(s, w)
  PROVE  /\ e \in Strip
         /\ s.skip => ~e.skip /\ e.left = s.left
         /\ ~s.skip /\ ~w.dash => ~e.skip /\ e.left = Append(s.left, w)
         /\ ~s.skip /\ w.dash => (e.skip <=> w.name # "json" /\ w.eq = NoName) /\ e.left = s.left
<1>1. CASE s.skip
  <2>1. e = [s EXCEPT !.skip = FALSE]
    BY <1>1 DEF StripWord
  <2> QED
    BY <1>1, <2>1 DEF Strip
<1>2. CASE ~s.skip /\ ~w.dash
  <2>1. e = [s EXCEPT !.left = Append(s.left, w)]
    BY <1>2 DEF StripWord
  <2>2. PICK r : r = Append(s.left, w) /\ r \in Seq(LineWord)
    <3>1. s.left \in Seq(LineWord)
      BY DEF Strip
    <3> QED
      BY <3>1, AppendProperties
  <2> QED
    BY <1>2, <2>1, <2>2 DEF Strip
<1>3. CASE ~s.skip /\ w.dash
  <2>1. PICK b : b = (w.name # "json" /\ w.eq = NoName)
    OBVIOUS
  <2>2. b \in BOOLEAN
    <3>1. CASE w.name # "json" /\ w.eq = NoName
      BY <2>1, <3>1
    <3>2. CASE ~(w.name # "json" /\ w.eq = NoName)
      BY <2>1, <3>2
    <3> QED
      BY <3>1, <3>2
  <2>3. e = [s EXCEPT !.skip = b]
    BY <1>3, <2>1 DEF StripWord, NoName
  <2> QED
    BY <1>3, <2>1, <2>2, <2>3 DEF Strip
<1> QED
  BY <1>1, <1>2, <1>3

\* The recursion of StripFlags has a value.
LEMMA StripFlagsIs ==
  ASSUME NEW words \in Seq(LineWord)
  PROVE  \E f : IsStrip(f, words) /\ StripFlags(words) = f[Len(words)].left
<1> DEFINE Round(n, s) == StripWord(s, words[n])
<1>1. PICK N \in Nat : N = Len(words)
  OBVIOUS
<1>2. \A n \in 1..N : words[n] \in LineWord
  BY <1>1
<1>3. \A n \in 1..N, s \in Strip : Round(n, s) \in Strip
  BY <1>2, StripWordIs
<1> HIDE DEF Round
<1>17. PICK init \in Strip : init = [skip |-> FALSE, left |-> <<>>]
  BY EmptySeq DEF Strip
<1> DEFINE g == [n \in 1..N |-> [s \in Strip |-> Round(n, s)]]
<1>4. \A n \in 1..N, s \in Strip : g[n][s] = Round(n, s)
  OBVIOUS
<1>5. PICK h \in [0..N -> Strip] : h[0] = init /\ \A n \in 1..N : h[n] = g[n][h[n - 1]]
  <2>1. g \in [1..N -> [Strip -> Strip]]
    BY <1>3
  <2> HIDE DEF g
  <2>2. \E h : IsLoop(h, Strip, init, N, g)
    BY <2>1, RecursionExists
  <2> QED
    BY <2>2 DEF IsLoop
<1> HIDE DEF g
<1>6. \A n \in 1..N : n - 1 \in 0..N
  OBVIOUS
<1>7. h = [n \in 0..N |-> IF n = 0 THEN init ELSE Round(n, h[n - 1])]
  BY <1>4, <1>5, <1>6
<1> DEFINE strip[n \in 0..N] == IF n = 0 THEN init ELSE Round(n, strip[n - 1])
<1>8. strip = [n \in 0..N |-> IF n = 0 THEN init ELSE Round(n, strip[n - 1])]
  BY <1>7, Zenon
<1>9. StripFlags(words) = strip[N].left
  BY <1>1, <1>17, Zenon DEF StripFlags, Round
<1> HIDE DEF strip
<1>10. PICK f : f = strip
  OBVIOUS
<1>11. f = [n \in 0..N |-> IF n = 0 THEN init ELSE Round(n, f[n - 1])]
  BY <1>8, <1>10, Zenon
<1>12. f[0] = init /\ \A n \in 1..N : f[n] = Round(n, f[n - 1])
  BY <1>11
<1>13. \A n \in 0..N : f[n] \in Strip
  <2> DEFINE T == {n \in 0..N : f[n] \in Strip}
  <2>1. 0 \in T
    BY <1>12
  <2>2. ASSUME NEW n \in 1..N, n - 1 \in T PROVE n \in T
    <3>1. f[n - 1] \in Strip /\ n \in 0..N
      BY <2>2
    <3> QED
      BY <1>3, <1>12, <3>1
  <2> HIDE DEF T
  <2>3. \A n \in 0..N : n \in T
    BY <2>1, <2>2, UpTo
  <2> QED
    BY <2>3 DEF T
<1>14. f \in [0..N -> Strip]
  BY <1>11, <1>13
<1>15. IsStrip(f, words)
  BY <1>1, <1>12, <1>14, <1>17, Zenon DEF IsStrip, Round
<1>16. StripFlags(words) = f[Len(words)].left
  BY <1>1, <1>9, <1>10, Zenon
<1> QED
  BY <1>15, <1>16, Zenon

\* The two kinds of words.
LEMMA WordsAre ==
  ASSUME NEW name \in Strings, NEW eq \in Strings
  PROVE  /\ \A w : w = Bare(name) => w \in LineWord /\ ~w.dash /\ w.name = name /\ w.eq = NoName
         /\ \A w : w = Dashed(name, eq) => w \in LineWord /\ w.dash /\ w.name = name /\ w.eq = eq
<1>1. PICK none \in Strings : none = NoName
  BY DEF Strings
<1>2. ASSUME NEW w, w = Bare(name) PROVE w \in LineWord /\ ~w.dash /\ w.name = name /\ w.eq = NoName
  <2>1. w = [dash |-> FALSE, name |-> name, eq |-> none]
    BY <1>1, <1>2 DEF Bare, NoName
  <2>2. w \in LineWord /\ ~w.dash /\ w.name = name /\ w.eq = none
    BY <2>1 DEF LineWord
  <2> QED
    BY <1>1, <2>2
<1>3. ASSUME NEW w, w = Dashed(name, eq) PROVE w \in LineWord /\ w.dash /\ w.name = name /\ w.eq = eq
  <2>1. w = [dash |-> TRUE, name |-> name, eq |-> eq]
    BY <1>3 DEF Dashed
  <2> QED
    BY <2>1 DEF LineWord
<1> QED
  BY <1>2, <1>3

\* A part is written as one word or two.
LEMMA WrittenIs ==
  ASSUME NEW part \in LineParts
  PROVE  /\ Len(Written(part)) = IF part.name \in {NoName, "json"} \/ part.joined THEN 1 ELSE 2
         /\ part.name = NoName => Written(part)[1] = Bare(part.value)
         /\ part.name = "json" => Written(part)[1] = Dashed("json", NoName)
         /\ part.name \notin {NoName, "json"} /\ part.joined => Written(part)[1] = Dashed(part.name, part.value)
         /\ part.name \notin {NoName, "json"} /\ ~part.joined =>
              Written(part)[1] = Dashed(part.name, NoName) /\ Written(part)[2] = Bare(part.value)
<1>1. CASE part.name = NoName
  <2>1. PICK w : w = Bare(part.value)
    OBVIOUS
  <2>2. Written(part) = <<w>>
    BY <1>1, <2>1 DEF Written, NoName
  <2>3. Len(Written(part)) = 1 /\ Written(part)[1] = w
    BY <2>2
  <2> QED
    BY <1>1, <2>1, <2>3 DEF NoName
<1>2. CASE part.name = "json"
  <2>1. PICK w : w = Dashed("json", NoName)
    OBVIOUS
  <2>2. Written(part) = <<w>>
    BY <1>2, <2>1 DEF Written, NoName
  <2>3. Len(Written(part)) = 1 /\ Written(part)[1] = w
    BY <2>2
  <2> QED
    BY <1>2, <2>1, <2>3 DEF NoName
<1>3. CASE part.name \notin {NoName, "json"} /\ part.joined
  <2>1. PICK w : w = Dashed(part.name, part.value)
    OBVIOUS
  <2>2. Written(part) = <<w>>
    BY <1>3, <2>1 DEF Written, NoName
  <2>3. Len(Written(part)) = 1 /\ Written(part)[1] = w
    BY <2>2
  <2> QED
    BY <1>3, <2>1, <2>3
<1>4. CASE part.name \notin {NoName, "json"} /\ ~part.joined
  <2>1. PICK v, w : v = Dashed(part.name, NoName) /\ w = Bare(part.value)
    OBVIOUS
  <2>2. Written(part) = <<v, w>>
    BY <1>4, <2>1 DEF Written, NoName
  <2>3. Len(Written(part)) = 2 /\ Written(part)[1] = v /\ Written(part)[2] = w
    BY <2>2
  <2> QED
    BY <1>4, <2>1, <2>3
<1> QED
  BY <1>1, <1>2, <1>3, <1>4

\* The recursion of Ends has a value.
LEMMA EndsAre ==
  ASSUME NEW parts \in Seq(LineParts)
  PROVE  LET f == Ends(parts) IN
         /\ f \in [0..Len(parts) -> Nat] /\ f[0] = 0
         /\ \A k \in 1..Len(parts) : f[k] = f[k - 1] + Len(Written(parts[k]))
<1> DEFINE Round(k, s) == s + Len(Written(parts[k]))
<1>1. PICK N \in Nat : N = Len(parts)
  OBVIOUS
<1>2. \A k \in 1..N : Len(Written(parts[k])) \in Nat
  <2> SUFFICES ASSUME NEW k \in 1..N PROVE Len(Written(parts[k])) \in Nat
    OBVIOUS
  <2>1. PICK part \in LineParts : part = parts[k]
    BY <1>1
  <2>2. Len(Written(part)) \in {1, 2}
    BY WrittenIs
  <2> QED
    BY <2>1, <2>2
<1>3. \A k \in 1..N, s \in Nat : Round(k, s) \in Nat
  BY <1>2
<1> HIDE DEF Round
<1> DEFINE g == [k \in 1..N |-> [s \in Nat |-> Round(k, s)]]
<1>4. \A k \in 1..N, s \in Nat : g[k][s] = Round(k, s)
  OBVIOUS
<1>5. PICK h \in [0..N -> Nat] : h[0] = 0 /\ \A k \in 1..N : h[k] = g[k][h[k - 1]]
  <2>1. g \in [1..N -> [Nat -> Nat]]
    BY <1>3
  <2> HIDE DEF g
  <2>2. \E h : IsLoop(h, Nat, 0, N, g)
    BY <2>1, RecursionExists
  <2> QED
    BY <2>2 DEF IsLoop
<1> HIDE DEF g
<1>6. \A k \in 1..N : k - 1 \in 0..N
  OBVIOUS
<1>7. h = [k \in 0..N |-> IF k = 0 THEN 0 ELSE Round(k, h[k - 1])]
  BY <1>4, <1>5, <1>6
<1> DEFINE end[k \in 0..N] == IF k = 0 THEN 0 ELSE Round(k, end[k - 1])
<1>8. end = [k \in 0..N |-> IF k = 0 THEN 0 ELSE Round(k, end[k - 1])]
  BY <1>7, Zenon
<1>9. Ends(parts) = end
  BY <1>1, Zenon DEF Ends, Round
<1> HIDE DEF end
<1>10. PICK f : f = end
  OBVIOUS
<1>11. f = [k \in 0..N |-> IF k = 0 THEN 0 ELSE Round(k, f[k - 1])]
  BY <1>8, <1>10, Zenon
<1>12. f[0] = 0 /\ \A k \in 1..N : f[k] = Round(k, f[k - 1])
  BY <1>11
<1>13. \A k \in 0..N : f[k] \in Nat
  <2> DEFINE T == {k \in 0..N : f[k] \in Nat}
  <2>1. 0 \in T
    BY <1>12
  <2>2. ASSUME NEW k \in 1..N, k - 1 \in T PROVE k \in T
    <3>1. f[k - 1] \in Nat /\ k \in 0..N
      BY <2>2
    <3> QED
      BY <1>3, <1>12, <3>1
  <2> HIDE DEF T
  <2>3. \A k \in 0..N : k \in T
    BY <2>1, <2>2, UpTo
  <2> QED
    BY <2>3 DEF T
<1>14. f \in [0..N -> Nat]
  BY <1>11, <1>13
<1>15. \A k \in 1..N : f[k] = f[k - 1] + Len(Written(parts[k]))
  BY <1>12 DEF Round
<1> QED
  BY <1>1, <1>9, <1>10, <1>12, <1>14, <1>15, Zenon

\* The words of a part, by name; the second is any if there is none.
OneWord(part) == part.name \in {NoName, "json"} \/ part.joined
Size(part) == IF OneWord(part) THEN 1 ELSE 2
AreWords(w, x, part) == w = Written(part)[1] /\ (~OneWord(part) => x = Written(part)[2])

LEMMA PartWords ==
  ASSUME NEW part \in LineParts, NEW w, NEW x, AreWords(w, x, part)
  PROVE  /\ OneWord(part) <=> part.name \in {NoName, "json"} \/ part.joined
         /\ Len(Written(part)) = IF OneWord(part) THEN 1 ELSE 2
         /\ part.name = NoName => w = Bare(part.value)
         /\ part.name = "json" => w = Dashed("json", NoName)
         /\ part.name \notin {NoName, "json"} /\ part.joined => w = Dashed(part.name, part.value)
         /\ part.name \notin {NoName, "json"} /\ ~part.joined => w = Dashed(part.name, NoName) /\ x = Bare(part.value)
BY WrittenIs DEF OneWord, AreWords

\* A flag that may stand here is read, or refused, and its value if it has one.
LEMMA FlagIs ==
  ASSUME NEW s \in Reader, s.ok, s.want = NoName, NEW w \in LineWord, NEW known \in SUBSET FlagNames,
         NEW e, e \in Reader, e = Flag(s, w, known), e.ok
  PROVE  /\ w.name \in FlagNames
         /\ w.eq = NoName /\ w.name = "json" => e = s
         /\ w.eq = NoName /\ w.name # "json" => e.want = w.name /\ e.rpc = s.rpc /\ e.timeout = s.timeout /\ e.rest = s.rest
         /\ w.eq # NoName => e = Assign(s, w.name, w.eq)
<1>1. w.name \in known
  <2> SUFFICES ASSUME w.name \notin known PROVE FALSE
    OBVIOUS
  <2>1. e = [s EXCEPT !.ok = FALSE]
    BY DEF Flag
  <2> QED
    BY <2>1 DEF Reader
<1>2. CASE w.eq # NoName
  <2>1. e = Assign(s, w.name, w.eq)
    BY <1>1, <1>2 DEF Flag, NoName
  <2> QED
    BY <1>1, <1>2, <2>1
<1>3. CASE w.eq = NoName /\ w.name = "json"
  <2>1. e = s
    BY <1>1, <1>3 DEF Flag, NoName
  <2> QED
    BY <1>1, <1>3, <2>1
<1>4. CASE w.eq = NoName /\ w.name # "json"
  <2>1. e = [s EXCEPT !.want = w.name]
    BY <1>1, <1>4 DEF Flag, NoName
  <2> QED
    BY <1>1, <1>4, <2>1 DEF Reader
<1> QED
  BY <1>2, <1>3, <1>4

\* How the words of a part are read.
ReadsPart(s, part, known, anywhere, v) ==
  \E w, x, u :
    /\ AreWords(w, x, part) /\ u = ReadWord(s, w, known, anywhere)
    /\ (OneWord(part) => v = u) /\ (~OneWord(part) => v = ReadWord(u, x, known, anywhere))

\* A part is read from where the next flag may stand to where the one after it may.
LEMMA PartRead ==
  ASSUME NEW s \in Reader, s.ok => s.want = NoName, NEW part \in LineParts, part.joined => part.value # NoName,
         NEW known \in SUBSET FlagNames, NEW anywhere \in BOOLEAN,
         s.ok /\ part.name # NoName => FlagsHere(s, anywhere),
         NEW v, ReadsPart(s, part, known, anywhere, v), v.ok
  PROVE  /\ s.ok /\ v.want = NoName /\ (part.name # NoName => v.rest = s.rest)
         /\ v.rpc = IF part.name = "rpc" THEN part.value ELSE s.rpc
         /\ v.timeout = IF part.name = "timeout" THEN Seconds(part.value) ELSE s.timeout
<1>5. PICK w, x, u : /\ AreWords(w, x, part) /\ u = ReadWord(s, w, known, anywhere)
                     /\ (OneWord(part) => v = u) /\ (~OneWord(part) => v = ReadWord(u, x, known, anywhere))
  BY DEF ReadsPart
<1>2. part.name \in FlagNames \cup {NoName} /\ part.value \in Strings /\ part.joined \in BOOLEAN
  BY DEF LineParts, FlagNames, Strings, NoName
<1>1. NoName \in Strings /\ "json" \in Strings /\ part.name \in Strings
  BY <1>2 DEF Strings, FlagNames
<1>3. CASE part.name = NoName
  <2>1. w = Bare(part.value) /\ OneWord(part)
    BY <1>5, <1>3, PartWords
  <2>2. w \in LineWord /\ ~w.dash
    BY <1>5, <1>2, <2>1, WordsAre
  <2>3. v = u /\ u = ReadWord(s, w, known, anywhere)
    BY <1>5, <2>1
  <2>4. s.ok
    BY <1>5, <2>2, <2>3, ReadWordIs
  <2>5. u.want = NoName /\ u.rpc = s.rpc /\ u.timeout = s.timeout /\ u.rest = Longer(s.rest, w)
    BY <1>5, <2>2, <2>3, <2>4, ReadWordIs, SMTT(30)
  <2> QED
    BY <1>3, <2>1, <2>3, <2>4, <2>5 DEF NoName
<1>4. CASE part.name # NoName
  <2>1. w \in LineWord /\ w.dash
    <3>1. w = Dashed("json", NoName) \/ w = Dashed(part.name, part.value) \/ w = Dashed(part.name, NoName)
      BY <1>5, <1>2, <1>4, PartWords
    <3> QED
      BY <1>5, <1>1, <1>2, <3>1, WordsAre
  <2>2. u \in Reader
    BY <1>5, <2>1, ReadWordIs
  <2>3. s.ok
    <3> SUFFICES ASSUME ~s.ok PROVE FALSE
      OBVIOUS
    <3>1. u = s
      BY <1>5, <2>1, ReadWordIs
    <3>2. CASE OneWord(part)
      BY <1>5, <3>1, <3>2
    <3>3. CASE ~OneWord(part)
      <4>1. v = ReadWord(s, x, known, anywhere)
        BY <1>5, <3>1, <3>3
      <4>2. v = s
        BY <4>1 DEF ReadWord
      <4> QED
        BY <1>5, <4>2
    <3> QED
      BY <1>5, <3>2, <3>3
  <2>4. u = Flag(s, w, known)
    BY <1>5, <1>4, <2>1, <2>3, ReadWordIs
  <2>5. CASE part.name = "json"
    <3>1. w = Dashed("json", NoName) /\ OneWord(part)
      BY <1>5, <2>5, PartWords
    <3>2. w.name = "json" /\ w.eq = NoName /\ v = u
      BY <1>5, <1>1, <3>1, WordsAre
    <3>3. u = s
      BY <1>5, <2>1, <2>2, <2>3, <2>4, <3>2, FlagIs
    <3> QED
      BY <2>3, <2>5, <3>2, <3>3 DEF NoName
  <2>6. CASE part.name # "json" /\ part.joined
    <3>1. w = Dashed(part.name, part.value) /\ OneWord(part)
      BY <1>5, <1>4, <2>6, PartWords
    <3>2. w.name = part.name /\ w.eq = part.value /\ v = u
      BY <1>5, <1>1, <1>2, <3>1, WordsAre
    <3>3. v = Assign(s, part.name, part.value) /\ part.name \in FlagNames
      BY <1>5, <2>1, <2>2, <2>3, <2>4, <2>6, <3>2, FlagIs
    <3>4. /\ v.want = NoName /\ v.rest = s.rest
          /\ v.rpc = IF part.name = "rpc" THEN part.value ELSE s.rpc
          /\ v.timeout = IF part.name = "timeout" THEN Seconds(part.value) ELSE s.timeout
      BY <1>5, <1>2, <2>3, <3>3, AssignIs
    <3> QED
      BY <1>5, <1>4, <2>3, <3>4
  <2>7. CASE part.name # "json" /\ ~part.joined
    <3>1. w = Dashed(part.name, NoName) /\ ~OneWord(part) /\ x = Bare(part.value)
      BY <1>5, <1>4, <2>7, PartWords
    <3>3. w.name = part.name /\ w.eq = NoName /\ x \in LineWord /\ x.name = part.value
      BY <1>5, <1>1, <1>2, <3>1, WordsAre
    <3>4. v = ReadWord(u, x, known, anywhere)
      BY <1>5, <3>1
    <3>5. u.ok
      BY <1>5, <2>2, <3>3, <3>4, ReadWordIs
    <3>6. u.want = part.name /\ u.rpc = s.rpc /\ u.timeout = s.timeout /\ u.rest = s.rest /\ part.name \in FlagNames
      BY <1>5, <2>1, <2>2, <2>3, <2>4, <2>7, <3>3, <3>5, FlagIs
    <3>7. v = Assign(u, part.name, part.value)
      BY <1>5, <1>4, <2>2, <3>3, <3>4, <3>5, <3>6, ReadWordIs
    <3>8. /\ v.want = NoName /\ v.rest = u.rest
          /\ v.rpc = IF part.name = "rpc" THEN part.value ELSE u.rpc
          /\ v.timeout = IF part.name = "timeout" THEN Seconds(part.value) ELSE u.timeout
      BY <1>5, <1>2, <2>2, <3>5, <3>6, <3>7, AssignIs
    <3> QED
      BY <1>5, <1>4, <2>3, <3>6, <3>8
  <2> QED
    BY <1>5, <1>2, <2>5, <2>6, <2>7
<1> QED
  BY <1>5, <1>3, <1>4

\* The words ws are what the parts from c + 1 on are written as, if e says
\* where each part ends.
IsLine(ws, parts, c, e) ==
  /\ c <= Len(parts) /\ e \in [0..Len(parts) -> Nat] /\ e[c] = c /\ Len(ws) = e[Len(parts)] - c
  /\ \A k \in (c + 1)..Len(parts) :
       /\ e[k] = e[k - 1] + Size(parts[k])
       /\ AreWords(ws[e[k - 1] - c + 1], ws[e[k - 1] - c + 2], parts[k])

\* The words of a part are on the line.
LEMMA PartOnLine ==
  ASSUME NEW ws, Len(ws) \in Nat, NEW parts, Len(parts) \in Nat, NEW c \in Nat, NEW e, IsLine(ws, parts, c, e),
         NEW k \in (c + 1)..Len(parts)
  PROVE  /\ e[k - 1] - c \in 0..Len(ws) /\ e[k] - c \in 0..Len(ws)
         /\ e[k] - c = (e[k - 1] - c) + Size(parts[k])
<1>1. PICK N \in Nat : N = Len(parts)
  OBVIOUS
<1>2. e \in [0..N -> Nat] /\ e[c] = c /\ Len(ws) = e[N] - c /\ c <= N
  BY <1>1 DEF IsLine
<1>9. \A part : Size(part) \in {1, 2}
  BY DEF Size
<1>3. \A i \in (c + 1)..N : e[i - 1] <= e[i] /\ e[i] = e[i - 1] + Size(parts[i])
  <2> SUFFICES ASSUME NEW i \in (c + 1)..N PROVE e[i - 1] <= e[i] /\ e[i] = e[i - 1] + Size(parts[i])
    OBVIOUS
  <2>1. e[i] = e[i - 1] + Size(parts[i])
    BY <1>1 DEF IsLine
  <2>2. e[i - 1] \in Nat
    BY <1>2
  <2> QED
    BY <1>9, <2>1, <2>2
<1>4. ASSUME NEW j \in c..N PROVE \A i \in 0..N : i >= j => e[j] <= e[i]
  <2> DEFINE T == {i \in 0..N : i >= j => e[j] <= e[i]}
  <2>1. 0 \in T
    BY <1>2
  <2>2. ASSUME NEW i \in 1..N, i - 1 \in T PROVE i \in T
    <3>1. CASE i > j
      <4>1. e[j] <= e[i - 1] /\ e[i - 1] <= e[i]
        BY <1>3, <2>2, <3>1
      <4>2. e[j] \in Nat /\ e[i - 1] \in Nat /\ e[i] \in Nat
        BY <1>2
      <4> QED
        BY <4>1, <4>2
    <3>2. CASE i <= j
      BY <1>2, <3>2
    <3> QED
      BY <3>1, <3>2
  <2> HIDE DEF T
  <2>3. \A i \in 0..N : i \in T
    BY <2>1, <2>2, UpTo
  <2> QED
    BY <2>3 DEF T
<1>5. k \in 1..N /\ k - 1 \in c..N /\ k \in c..N /\ N \in c..N /\ c \in c..N
  BY <1>1, <1>2
<1>6. e[c] <= e[k - 1] /\ e[c] <= e[k] /\ e[k - 1] <= e[N] /\ e[k] <= e[N]
  BY <1>4, <1>5
<1>7. e[k - 1] \in Nat /\ e[k] \in Nat /\ e[N] \in Nat
  BY <1>2, <1>5
<1>8. e[k] = e[k - 1] + Size(parts[k])
  BY <1>1, <1>3
<1> QED
  <2>1. PICK size \in {1, 2} : size = Size(parts[k])
    BY <1>9
  <2>2. PICK a, b, d \in Nat : a = e[k - 1] /\ b = e[k] /\ d = e[N]
    BY <1>7
  <2>3. c <= a /\ c <= b /\ a <= d /\ b <= d /\ b = a + size /\ Len(ws) = d - c
    BY <1>2, <1>6, <1>8, <2>1, <2>2
  <2>4. a - c \in 0..Len(ws) /\ b - c \in 0..Len(ws) /\ b - c = a - c + size
    BY <2>3
  <2> QED
    BY <2>1, <2>2, <2>4

\* What the last of some flags says, or what is so without any.
Given(parts, c, k, name) == {j \in (c + 1)..k : parts[j].name = name}
LastSays(v, S, g, default) ==
  IF S = {} THEN v = default ELSE \E j \in S : (\A i \in S : i <= j) /\ v = g[j]

LEMMA OneMoreGiven ==
  ASSUME NEW c \in Nat, NEW k \in Nat, k > c, NEW parts, NEW name, NEW v, NEW g, NEW default,
         LastSays(v, Given(parts, c, k - 1, name), g, default),
         NEW e, e = IF parts[k].name = name THEN g[k] ELSE v
  PROVE  LastSays(e, Given(parts, c, k, name), g, default)
<1>1. PICK S : S = Given(parts, c, k - 1, name)
  OBVIOUS
<1>2. PICK R : R = Given(parts, c, k, name)
  OBVIOUS
<1>3. CASE parts[k].name = name
  <2>1. k \in R /\ \A i \in R : i <= k
    BY <1>2, <1>3 DEF Given
  <2> QED
    BY <1>2, <1>3, <2>1 DEF LastSays
<1>4. CASE parts[k].name # name
  <2>1. R = S
    BY <1>1, <1>2, <1>4 DEF Given
  <2> QED
    BY <1>1, <1>2, <1>4, <2>1
<1> QED
  BY <1>3, <1>4

\* Either flags are anywhere, or none is after an operand.
Orderly(parts, c, anywhere) ==
  anywhere \/ \A k \in (c + 1)..Len(parts), j \in (c + 1)..Len(parts) :
                j < k /\ parts[j].name = NoName => parts[k].name = NoName

Values(parts) == [k \in 1..Len(parts) |-> parts[k].value]
Times(parts) == [k \in 1..Len(parts) |-> Seconds(parts[k].value)]

\* A reader that is at the end of part k, and has refused nothing.
Taken(s, parts, c, k, anywhere, init) ==
  /\ s.want = NoName
  /\ LastSays(s.rpc, Given(parts, c, k, "rpc"), Values(parts), init.rpc)
  /\ LastSays(s.timeout, Given(parts, c, k, "timeout"), Times(parts), init.timeout)
  /\ (\A j \in (c + 1)..k : parts[j].name # NoName) => FlagsHere(s, anywhere)

\* Reading one part after the other.
LEMMA OneMoreTaken ==
  ASSUME NEW parts \in Seq(LineParts), NEW c \in Nat, NEW k \in (c + 1)..Len(parts), NEW anywhere \in BOOLEAN,
         NEW init \in Reader, Orderly(parts, c, anywhere), NEW known \in SUBSET FlagNames,
         NEW part, part = parts[k], part.joined => part.value # NoName,
         NEW s \in Reader, s.ok => Taken(s, parts, c, k - 1, anywhere, init),
         NEW v, ReadsPart(s, part, known, anywhere, v), v.ok
  PROVE  Taken(v, parts, c, k, anywhere, init)
<1>1. PICK N \in Nat : N = Len(parts)
  OBVIOUS
<1>2. k \in 1..N /\ part \in LineParts /\ k \in Nat /\ k > c
  BY <1>1
<1>3. s.ok => s.want = NoName
  BY DEF Taken
<1>4. ASSUME s.ok, part.name # NoName PROVE FlagsHere(s, anywhere)
  <2>1. CASE anywhere
    BY <2>1 DEF FlagsHere
  <2>2. CASE ~anywhere
    <3>1. \A j \in (c + 1)..N : j < k /\ parts[j].name = NoName => parts[k].name = NoName
      BY <1>1, <2>2 DEF Orderly
    <3>2. \A j \in (c + 1)..(k - 1) : parts[j].name # NoName
      BY <1>2, <1>4, <3>1
    <3> QED
      BY <1>4, <3>2 DEF Taken
  <2> QED
    BY <2>1, <2>2
<1>5. /\ s.ok /\ v.want = NoName /\ (part.name # NoName => v.rest = s.rest)
      /\ v.rpc = IF part.name = "rpc" THEN part.value ELSE s.rpc
      /\ v.timeout = IF part.name = "timeout" THEN Seconds(part.value) ELSE s.timeout
  BY <1>2, <1>3, <1>4, PartRead
<1>6. Values(parts)[k] = part.value /\ Times(parts)[k] = Seconds(part.value)
  BY <1>1, <1>2 DEF Values, Times
<1>7. /\ LastSays(s.rpc, Given(parts, c, k - 1, "rpc"), Values(parts), init.rpc)
      /\ LastSays(s.timeout, Given(parts, c, k - 1, "timeout"), Times(parts), init.timeout)
      /\ (\A j \in (c + 1)..(k - 1) : parts[j].name # NoName) => FlagsHere(s, anywhere)
  BY <1>5 DEF Taken
<1>8. LastSays(v.rpc, Given(parts, c, k, "rpc"), Values(parts), init.rpc)
  <2>1. v.rpc = IF parts[k].name = "rpc" THEN Values(parts)[k] ELSE s.rpc
    BY <1>5, <1>6
  <2> QED
    BY <1>2, <1>7, <2>1, OneMoreGiven
<1>9. LastSays(v.timeout, Given(parts, c, k, "timeout"), Times(parts), init.timeout)
  <2>1. v.timeout = IF parts[k].name = "timeout" THEN Times(parts)[k] ELSE s.timeout
    BY <1>5, <1>6
  <2> QED
    BY <1>2, <1>7, <2>1, OneMoreGiven
<1>10. ASSUME \A j \in (c + 1)..k : parts[j].name # NoName PROVE FlagsHere(v, anywhere)
  <2>1. part.name # NoName /\ \A j \in (c + 1)..(k - 1) : parts[j].name # NoName
    BY <1>1, <1>2, <1>10
  <2>2. FlagsHere(s, anywhere) /\ v.rest = s.rest
    BY <1>5, <1>7, <2>1
  <2> QED
    BY <2>2 DEF FlagsHere, NoOperand
<1> QED
  BY <1>5, <1>8, <1>9, <1>10, Zenon DEF Taken

\* At the end of the line.
LEMMA FinishedIs ==
  ASSUME NEW t \in Reader, NEW s, s = Finished(t)
  PROVE  s \in Reader /\ s.rpc = t.rpc /\ s.timeout = t.timeout /\ (s.ok => t.ok)
<1>1. PICK b : b = (t.ok /\ t.want = "")
  OBVIOUS
<1>2. b \in BOOLEAN /\ (b => t.ok)
  <2>1. CASE t.ok /\ t.want = ""
    BY <1>1, <2>1
  <2>2. CASE ~(t.ok /\ t.want = "")
    BY <1>1, <2>2
  <2> QED
    BY <2>1, <2>2
<1>3. s = [t EXCEPT !.ok = b]
  BY <1>1 DEF Finished
<1> QED
  BY <1>2, <1>3 DEF Reader

\* The whole line.
LEMMA LineTaken ==
  ASSUME NEW ws \in Seq(LineWord), NEW parts \in Seq(LineParts), NEW c \in Nat, NEW e, IsLine(ws, parts, c, e),
         \A k \in 1..Len(parts) : parts[k].joined => parts[k].value # NoName,
         NEW anywhere \in BOOLEAN, Orderly(parts, c, anywhere), NEW known \in SUBSET FlagNames,
         NEW init \in Reader, init.want = NoName, NoOperand(init),
         NEW s, s = ReadWords(ws, init, known, anywhere), s.ok
  PROVE  /\ LastSays(s.rpc, Given(parts, c, Len(parts), "rpc"), Values(parts), init.rpc)
         /\ LastSays(s.timeout, Given(parts, c, Len(parts), "timeout"), Times(parts), init.timeout)
<1>1. PICK f : IsRead(f, ws, init, known, anywhere) /\ s = Finished(f[Len(ws)])
  BY ReadWordsIs
<1>2. PICK N, L \in Nat : N = Len(parts) /\ L = Len(ws)
  OBVIOUS
<1>3. f \in [0..L -> Reader] /\ f[0] = init /\ \A n \in 1..L : f[n] = ReadWord(f[n - 1], ws[n], known, anywhere)
  BY <1>1, <1>2 DEF IsRead
<1>4. c <= N /\ e[c] = c /\ L = e[N] - c /\ e[N] \in Nat
  BY <1>2 DEF IsLine
<1> DEFINE Good(k) == f[e[k] - c].ok => Taken(f[e[k] - c], parts, c, k, anywhere, init)
           T == {k \in 0..N : k >= c => Good(k)}
<1>5. Good(c)
  <2>1. f[e[c] - c] = init
    BY <1>3, <1>4
  <2>2. \A name : Given(parts, c, c, name) = {}
    BY DEF Given
  <2>3. FlagsHere(init, anywhere)
    BY DEF FlagsHere
  <2>4. Taken(init, parts, c, c, anywhere, init)
    BY <2>2, <2>3 DEF Taken, LastSays
  <2> QED
    BY <2>1, <2>4
<1>6. ASSUME NEW k \in (c + 1)..N, Good(k - 1) PROVE Good(k)
  <2> SUFFICES ASSUME f[e[k] - c].ok PROVE Taken(f[e[k] - c], parts, c, k, anywhere, init)
    OBVIOUS
  <2>1. PICK part : part = parts[k]
    OBVIOUS
  <2>2. k \in (c + 1)..Len(parts) /\ k \in 1..Len(parts)
    BY <1>2
  <2>3. PICK m \in 0..L : m = e[k - 1] - c
    BY <1>2, <2>2, PartOnLine
  <2>4. PICK n \in 0..L : n = e[k] - c
    BY <1>2, <2>2, PartOnLine
  <2>5. n = m + Size(part)
    BY <1>2, <2>1, <2>2, <2>3, <2>4, PartOnLine
  <2>6. PICK w, x : w = ws[m + 1] /\ x = ws[m + 2]
    OBVIOUS
  <2>7. AreWords(w, x, part)
    BY <2>1, <2>2, <2>3, <2>6 DEF IsLine
  <2>8. m + 1 \in 1..L /\ (~OneWord(part) => m + 2 \in 1..L)
    BY <2>5 DEF Size
  <2>9. PICK t, u, v : t = f[m] /\ u = f[m + 1] /\ v = f[n]
    OBVIOUS
  <2>10. t \in Reader /\ u = ReadWord(t, w, known, anywhere)
    <3>1. f[m + 1] = ReadWord(f[(m + 1) - 1], ws[m + 1], known, anywhere)
      BY <1>3, <2>8
    <3>2. (m + 1) - 1 = m
      OBVIOUS
    <3> QED
      BY <1>3, <2>6, <2>9, <3>1, <3>2
  <2>11. OneWord(part) => v = u
    BY <2>5, <2>9 DEF Size
  <2>12. ASSUME ~OneWord(part) PROVE v = ReadWord(u, x, known, anywhere)
    <3>1. n = m + 2 /\ m + 2 \in 1..L
      BY <2>5, <2>8, <2>12 DEF Size
    <3>2. f[m + 2] = ReadWord(f[(m + 2) - 1], ws[m + 2], known, anywhere)
      BY <1>3, <3>1
    <3>3. (m + 2) - 1 = m + 1
      OBVIOUS
    <3> QED
      BY <2>6, <2>9, <3>1, <3>2, <3>3
  <2>13. v.ok
    BY <2>4, <2>9
  <2>14. part.joined => part.value # NoName
    BY <2>1, <2>2
  <2>15. t.ok => Taken(t, parts, c, k - 1, anywhere, init)
    BY <1>6, <2>3, <2>9
  <2>16. ReadsPart(t, part, known, anywhere, v)
    BY <2>7, <2>10, <2>11, <2>12 DEF ReadsPart
  <2>17. Taken(v, parts, c, k, anywhere, init)
    BY <2>1, <2>2, <2>10, <2>13, <2>14, <2>15, <2>16, OneMoreTaken
  <2> QED
    BY <2>4, <2>9, <2>17
<1> HIDE DEF Good
<1>7. 0 \in T
  BY <1>5
<1>8. ASSUME NEW k \in 1..N, k - 1 \in T PROVE k \in T
  <2>1. CASE k < c
    BY <2>1
  <2>2. CASE k = c
    BY <1>5, <2>2
  <2>3. CASE k > c
    <3>1. Good(k - 1) /\ k \in (c + 1)..N
      BY <1>8, <2>3
    <3> QED
      BY <1>6, <3>1
  <2> QED
    BY <2>1, <2>2, <2>3
<1> HIDE DEF T
<1>9. \A k \in 0..N : k \in T
  BY <1>7, <1>8, UpTo
<1>10. Good(N)
  BY <1>4, <1>9 DEF T
<1>11. PICK t : t = f[L]
  OBVIOUS
<1>12. t \in Reader
  BY <1>3, <1>11
<1>13. s.rpc = t.rpc /\ s.timeout = t.timeout /\ t.ok
  BY <1>1, <1>2, <1>11, <1>12, FinishedIs
<1>15. Taken(t, parts, c, N, anywhere, init)
  BY <1>4, <1>10, <1>11, <1>13 DEF Good
<1> QED
  BY <1>2, <1>13, <1>15, Zenon DEF Taken

\* How the words of a part are stripped.
StripsPart(s, part, v) ==
  \E w, x, u :
    /\ AreWords(w, x, part) /\ u = StripWord(s, w)
    /\ (OneWord(part) => v = u) /\ (~OneWord(part) => v = StripWord(u, x))

\* An operand is left, and neither a flag nor its value.
LEMMA PartStripped ==
  ASSUME NEW s \in Strip, ~s.skip, NEW part \in LineParts, part.joined => part.value # NoName,
         NEW v, StripsPart(s, part, v)
  PROVE  /\ v \in Strip /\ ~v.skip /\ (part.name # NoName => v.left = s.left)
         /\ part.name = NoName => \E w \in LineWord : v.left = Append(s.left, w) /\ ~w.dash /\ w.name = part.value
<1>1. PICK w, x, u : /\ AreWords(w, x, part) /\ u = StripWord(s, w)
                     /\ (OneWord(part) => v = u) /\ (~OneWord(part) => v = StripWord(u, x))
  BY DEF StripsPart
<1>2. part.name \in FlagNames \cup {NoName} /\ part.value \in Strings /\ part.joined \in BOOLEAN
  BY DEF LineParts, FlagNames, Strings, NoName
<1>3. NoName \in Strings /\ "json" \in Strings /\ part.name \in Strings
  BY <1>2 DEF Strings, FlagNames
<1>4. CASE part.name = NoName
  <2>1. w = Bare(part.value) /\ OneWord(part)
    BY <1>1, <1>4, PartWords DEF NoName
  <2>2. w \in LineWord /\ ~w.dash /\ w.name = part.value
    BY <1>2, <2>1, WordsAre
  <2>3. v = u /\ u = StripWord(s, w)
    BY <1>1, <2>1
  <2>4. v \in Strip /\ ~v.skip /\ v.left = Append(s.left, w)
    BY <2>2, <2>3, StripWordIs
  <2> QED
    BY <1>4, <2>2, <2>4
<1>5. CASE part.name = "json"
  <2>1. w = Dashed("json", NoName) /\ OneWord(part)
    BY <1>1, <1>5, PartWords
  <2>2. w \in LineWord /\ w.dash /\ w.name = "json"
    BY <1>3, <2>1, WordsAre
  <2>3. v = u /\ u = StripWord(s, w)
    BY <1>1, <2>1
  <2>4. v \in Strip /\ ~v.skip /\ v.left = s.left
    BY <2>2, <2>3, StripWordIs
  <2> QED
    BY <1>5, <2>4 DEF NoName
<1>6. CASE part.name \notin {NoName, "json"} /\ part.joined
  <2>1. w = Dashed(part.name, part.value) /\ OneWord(part)
    BY <1>1, <1>6, PartWords
  <2>2. w \in LineWord /\ w.dash /\ w.eq # NoName
    BY <1>2, <1>3, <1>6, <2>1, WordsAre
  <2>3. v = u /\ u = StripWord(s, w)
    BY <1>1, <2>1
  <2>4. v \in Strip /\ ~v.skip /\ v.left = s.left
    BY <2>2, <2>3, StripWordIs
  <2> QED
    BY <1>6, <2>4
<1>7. CASE part.name \notin {NoName, "json"} /\ ~part.joined
  <2>1. w = Dashed(part.name, NoName) /\ x = Bare(part.value) /\ ~OneWord(part)
    BY <1>1, <1>7, PartWords
  <2>2. w \in LineWord /\ w.dash /\ w.eq = NoName /\ w.name # "json" /\ x \in LineWord
    BY <1>2, <1>3, <1>7, <2>1, WordsAre
  <2>3. u = StripWord(s, w) /\ v = StripWord(u, x)
    BY <1>1, <2>1
  <2>4. u \in Strip /\ u.skip /\ u.left = s.left
    BY <2>2, <2>3, StripWordIs
  <2>5. v \in Strip /\ ~v.skip /\ v.left = u.left
    BY <2>2, <2>3, <2>4, StripWordIs
  <2> QED
    BY <1>7, <2>4, <2>5
<1> QED
  BY <1>2, <1>4, <1>5, <1>6, <1>7

\* What is left after part k, if the command cmd is after the first b parts.
Stripped(left, k, b, cmd) ==
  LET m == Len(cmd)
      done == IF k <= b THEN 0 ELSE IF k <= b + m THEN k - b ELSE m
  IN /\ Len(left) >= done /\ (k <= b + m => Len(left) = done)
     /\ \A i \in 1..done : ~left[i].dash /\ left[i].name = cmd[i]
     /\ \A i \in (done + 1)..Len(left) : ~left[i].dash /\ left[i].name \notin CommandWords

\* The command is where it is looked for.
Commanded(parts, b, cmd) ==
  /\ b + Len(cmd) <= Len(parts) /\ \A k \in 1..b : parts[k].name # NoName
  /\ \A k \in (b + 1)..(b + Len(cmd)) : parts[k].name = NoName /\ parts[k].value = cmd[k - b]
  /\ \A k \in (b + Len(cmd) + 1)..Len(parts) : parts[k].name = NoName => parts[k].value \notin CommandWords

LEMMA OneMoreStripped ==
  ASSUME NEW parts \in Seq(LineParts), NEW b \in Nat, NEW cmd, Len(cmd) \in Nat, Commanded(parts, b, cmd),
         NEW k \in 1..Len(parts), NEW part, part = parts[k], part.joined => part.value # NoName,
         NEW s \in Strip, ~s.skip, Stripped(s.left, k - 1, b, cmd), NEW v, StripsPart(s, part, v)
  PROVE  v \in Strip /\ ~v.skip /\ Stripped(v.left, k, b, cmd)
<1>1. PICK N, m \in Nat : N = Len(parts) /\ m = Len(cmd)
  OBVIOUS
<1>2. part \in LineParts
  OBVIOUS
<1>3. /\ v \in Strip /\ ~v.skip /\ (part.name # NoName => v.left = s.left)
      /\ part.name = NoName => \E w \in LineWord : v.left = Append(s.left, w) /\ ~w.dash /\ w.name = part.value
  BY <1>2, PartStripped
<1>4. k \in 1..b => part.name # NoName
  BY DEF Commanded
<1>5. k \in (b + 1)..(b + m) => part.name = NoName /\ part.value = cmd[k - b]
  BY <1>1 DEF Commanded
<1>6. k > b + m /\ part.name = NoName => part.value \notin CommandWords
  BY <1>1 DEF Commanded
<1>7. PICK l, r : l = s.left /\ r = v.left
  OBVIOUS
<1>8. l \in Seq(LineWord) /\ r \in Seq(LineWord)
  BY <1>3, <1>7 DEF Strip
<1> DEFINE Done(i) == IF i <= b THEN 0 ELSE IF i <= b + m THEN i - b ELSE m
           Good(q, i) == /\ Len(q) >= Done(i) /\ (i <= b + m => Len(q) = Done(i))
                         /\ \A j \in 1..Done(i) : ~q[j].dash /\ q[j].name = cmd[j]
                         /\ \A j \in (Done(i) + 1)..Len(q) : ~q[j].dash /\ q[j].name \notin CommandWords
<1>9. Good(l, k - 1)
  BY <1>1, <1>7 DEF Stripped
<1>10. CASE part.name # NoName
  <2>1. r = l
    BY <1>3, <1>7, <1>10
  <2>2. Done(k) = Done(k - 1) /\ (k <= b \/ k > b + m)
    BY <1>5, <1>10
  <2>3. Good(r, k)
    BY <1>9, <2>1, <2>2
  <2> QED
    BY <1>1, <1>3, <1>7, <2>3 DEF Stripped
<1>11. CASE part.name = NoName
  <2>1. PICK w \in LineWord : r = Append(l, w) /\ ~w.dash /\ w.name = part.value
    BY <1>3, <1>7, <1>11
  <2>2. PICK L \in Nat : L = Len(l)
    BY <1>8
  <2>3. Len(r) = L + 1 /\ r[L + 1] = w /\ \A j \in 1..L : r[j] = l[j]
    BY <1>8, <2>1, <2>2
  <2>4. CASE k <= b + m
    <3>1. k > b
      BY <1>4, <1>11
    <3>2. Done(k) = k - b /\ Done(k - 1) = k - 1 - b
      BY <2>4, <3>1
    <3>3. Len(l) = Done(k - 1)
      BY <1>9, <2>4
    <3>4. Done(k) = k - b /\ Done(k - 1) = k - 1 - b /\ L = k - 1 - b
      BY <2>2, <3>2, <3>3
    <3>5. w.name = cmd[L + 1]
      BY <1>5, <2>1, <2>4, <3>4, <3>1
    <3>6. Done(k) = L + 1 /\ Done(k - 1) = L
      BY <3>4
    <3>7. \A j \in 1..L : ~l[j].dash /\ l[j].name = cmd[j]
      BY <1>9, <3>6
    <3>8. \A j \in 1..(L + 1) : ~r[j].dash /\ r[j].name = cmd[j]
      BY <2>1, <2>3, <3>5, <3>7
    <3>9. Good(r, k)
      BY <2>3, <3>6, <3>8
    <3> QED
      BY <1>1, <1>3, <1>7, <3>9 DEF Stripped
  <2>5. CASE k > b + m
    <3>1. Done(k) = m /\ Done(k - 1) = m /\ L >= m
      BY <1>9, <2>2, <2>5
    <3>2. w.name \notin CommandWords
      BY <1>6, <1>11, <2>1, <2>5
    <3>3. Good(r, k)
      BY <1>9, <2>1, <2>2, <2>3, <2>5, <3>1, <3>2
    <3> QED
      BY <1>1, <1>3, <1>7, <3>3 DEF Stripped
  <2> QED
    BY <1>1, <2>4, <2>5
<1> QED
  BY <1>10, <1>11

\* What is left of the whole line: the command, and operands that make no other.
LEMMA LineStripped ==
  ASSUME NEW ws \in Seq(LineWord), NEW parts \in Seq(LineParts), NEW e, IsLine(ws, parts, 0, e),
         \A k \in 1..Len(parts) : parts[k].joined => parts[k].value # NoName,
         NEW b \in Nat, NEW cmd, Len(cmd) \in Nat, Commanded(parts, b, cmd),
         NEW left, left = StripFlags(ws)
  PROVE  /\ left \in Seq(LineWord) /\ Len(left) >= Len(cmd)
         /\ \A i \in 1..Len(cmd) : ~left[i].dash /\ left[i].name = cmd[i]
         /\ \A i \in (Len(cmd) + 1)..Len(left) : ~left[i].dash /\ left[i].name \notin CommandWords
<1>1. PICK f : IsStrip(f, ws) /\ left = f[Len(ws)].left
  BY StripFlagsIs
<1>2. PICK N, L, m \in Nat : N = Len(parts) /\ L = Len(ws) /\ m = Len(cmd)
  OBVIOUS
<1>3. f \in [0..L -> Strip] /\ \A n \in 1..L : f[n] = StripWord(f[n - 1], ws[n])
  BY <1>1, <1>2 DEF IsStrip
<1>4. PICK init : init = f[0]
  OBVIOUS
<1>5. init \in Strip /\ ~init.skip /\ Len(init.left) = 0
  <2>1. init = [skip |-> FALSE, left |-> <<>>]
    BY <1>1, <1>4 DEF IsStrip
  <2>2. PICK empty : empty = <<>> /\ Len(empty) = 0
    OBVIOUS
  <2>3. init.left = empty /\ init.skip = FALSE
    BY <2>1, <2>2
  <2> QED
    BY <1>3, <1>4, <2>2, <2>3
<1>6. e \in [0..N -> Nat] /\ e[0] = 0 /\ L = e[N] /\ e[N] \in Nat
  BY <1>2 DEF IsLine
<1> DEFINE T == {k \in 0..N : f[e[k]] \in Strip /\ ~f[e[k]].skip /\ Stripped(f[e[k]].left, k, b, cmd)}
<1>7. 0 \in T
  <2>1. Stripped(init.left, 0, b, cmd)
    BY <1>2, <1>5 DEF Stripped
  <2> QED
    BY <1>4, <1>5, <1>6, <2>1
<1>8. ASSUME NEW k \in 1..N, k - 1 \in T PROVE k \in T
  <2>1. PICK part : part = parts[k]
    OBVIOUS
  <2>2. k \in (0 + 1)..Len(parts) /\ k \in 1..Len(parts)
    BY <1>2
  <2>3. e[k - 1] \in Nat /\ e[k] \in Nat
    BY <1>6
  <2>4. PICK m1 \in 0..L : m1 = e[k - 1]
    BY <1>2, <2>2, <2>3, PartOnLine
  <2>5. PICK n \in 0..L : n = e[k]
    BY <1>2, <2>2, <2>3, PartOnLine
  <2>6. n = m1 + Size(part)
    BY <2>1, <2>2, <2>4, <2>5 DEF IsLine
  <2>7. PICK w, x : w = ws[m1 + 1] /\ x = ws[m1 + 2]
    OBVIOUS
  <2>8. AreWords(w, x, part)
    <3>1. AreWords(ws[e[k - 1] - 0 + 1], ws[e[k - 1] - 0 + 2], parts[k])
      BY <2>2 DEF IsLine
    <3>2. e[k - 1] - 0 + 1 = m1 + 1 /\ e[k - 1] - 0 + 2 = m1 + 2
      BY <2>4
    <3> QED
      BY <2>1, <2>7, <3>1, <3>2
  <2>9. m1 + 1 \in 1..L /\ (~OneWord(part) => m1 + 2 \in 1..L)
    BY <2>6 DEF Size
  <2>10. PICK t, u, v : t = f[m1] /\ u = f[m1 + 1] /\ v = f[n]
    OBVIOUS
  <2>11. u = StripWord(t, w)
    <3>1. f[m1 + 1] = StripWord(f[(m1 + 1) - 1], ws[m1 + 1])
      BY <1>3, <2>9
    <3>2. (m1 + 1) - 1 = m1
      OBVIOUS
    <3> QED
      BY <2>7, <2>10, <3>1, <3>2
  <2>12. OneWord(part) => v = u
    BY <2>6, <2>10 DEF Size
  <2>13. ASSUME ~OneWord(part) PROVE v = StripWord(u, x)
    <3>1. n = m1 + 2 /\ m1 + 2 \in 1..L
      BY <2>6, <2>9, <2>13 DEF Size
    <3>2. f[m1 + 2] = StripWord(f[(m1 + 2) - 1], ws[m1 + 2])
      BY <1>3, <3>1
    <3>3. (m1 + 2) - 1 = m1 + 1
      OBVIOUS
    <3> QED
      BY <2>7, <2>10, <3>1, <3>2, <3>3
  <2>14. StripsPart(t, part, v)
    BY <2>8, <2>11, <2>12, <2>13 DEF StripsPart
  <2>15. t \in Strip /\ ~t.skip /\ Stripped(t.left, k - 1, b, cmd)
    BY <1>8, <2>4, <2>10
  <2>16. part.joined => part.value # NoName
    BY <2>1, <2>2
  <2>17. v \in Strip /\ ~v.skip /\ Stripped(v.left, k, b, cmd)
    BY <2>1, <2>2, <2>14, <2>15, <2>16, OneMoreStripped
  <2> QED
    BY <2>5, <2>10, <2>17
<1> HIDE DEF T
<1>9. \A k \in 0..N : k \in T
  BY <1>7, <1>8, UpTo
<1>10. f[L] \in Strip /\ Stripped(left, N, b, cmd)
  <2>1. N \in T
    BY <1>9
  <2> QED
    BY <1>1, <1>2, <1>6, <2>1 DEF T
<1>11. left \in Seq(LineWord)
  BY <1>1, <1>2, <1>10 DEF Strip
<1>12. b + m <= N
  BY <1>2 DEF Commanded
<1> DEFINE done == IF N <= b THEN 0 ELSE IF N <= b + m THEN N - b ELSE m
<1>13. /\ Len(left) >= done
       /\ \A i \in 1..done : ~left[i].dash /\ left[i].name = cmd[i]
       /\ \A i \in (done + 1)..Len(left) : ~left[i].dash /\ left[i].name \notin CommandWords
  BY <1>2, <1>10 DEF Stripped
<1>14. done = m
  BY <1>12
<1> QED
  BY <1>2, <1>11, <1>13, <1>14

\* A line without its first word, an operand.
LEMMA NextOfLine ==
  ASSUME NEW ws \in Seq(LineWord), NEW parts \in Seq(LineParts), NEW c \in Nat, NEW e, IsLine(ws, parts, c, e),
         c < Len(parts), NEW part, part = parts[c + 1], part.name = NoName
  PROVE  /\ ws # <<>> /\ ws[1] = Bare(part.value)
         /\ Tail(ws) \in Seq(LineWord) /\ IsLine(Tail(ws), parts, c + 1, e)
<1>1. PICK N, L \in Nat : N = Len(parts) /\ L = Len(ws)
  OBVIOUS
<1>2. c + 1 \in (c + 1)..N /\ part \in LineParts
  BY <1>1
<1>3. e \in [0..N -> Nat] /\ e[c] = c /\ L = e[N] - c
  BY <1>1 DEF IsLine
<1>4. \A k \in (c + 1)..N :
        e[k] = e[k - 1] + Size(parts[k]) /\ AreWords(ws[e[k - 1] - c + 1], ws[e[k - 1] - c + 2], parts[k])
  BY <1>1 DEF IsLine
<1>5. AreWords(ws[1], ws[2], part) /\ e[c + 1] = c + Size(part)
  <2>1. (c + 1) - 1 = c /\ e[c] - c + 1 = 1 /\ e[c] - c + 2 = 2
    BY <1>3
  <2>2. /\ e[c + 1] = e[(c + 1) - 1] + Size(parts[c + 1])
        /\ AreWords(ws[e[(c + 1) - 1] - c + 1], ws[e[(c + 1) - 1] - c + 2], parts[c + 1])
    BY <1>2, <1>4
  <2> QED
    BY <1>3, <2>1, <2>2
<1>6. PICK v, w : v = ws[1] /\ w = ws[2]
  OBVIOUS
<1>7. AreWords(v, w, part)
  BY <1>5, <1>6
<1>8. v = Bare(part.value) /\ OneWord(part)
  BY <1>2, <1>7, PartWords DEF NoName
<1>9. e[c + 1] = c + 1
  BY <1>5, <1>8 DEF Size
<1>10. e[(c + 1) - 1] - c \in 0..L /\ e[c + 1] - c \in 0..L
  BY <1>1, <1>2, PartOnLine
<1>11. L > 0
  BY <1>9, <1>10
<1>12. ws # <<>>
  BY <1>1, <1>11
<1>13. PICK t \in Seq(LineWord) : t = Tail(ws) /\ Len(t) = L - 1 /\ \A i \in 1..(L - 1) : t[i] = ws[i + 1]
  <2>1. Tail(ws) \in Seq(LineWord) /\ Len(Tail(ws)) = L - 1 /\ \A i \in 1..Len(Tail(ws)) : Tail(ws)[i] = ws[i + 1]
    BY <1>1, <1>12, HeadTailProperties
  <2> QED
    BY <2>1
<1>14. ASSUME NEW k \in (c + 2)..N PROVE AreWords(t[e[k - 1] - (c + 1) + 1], t[e[k - 1] - (c + 1) + 2], parts[k])
  <2>1. k \in (c + 1)..N /\ k - 1 \in (c + 1)..N
    BY <1>14
  <2>2. PICK a, b \in Nat : a = e[k - 1] /\ b = e[k]
    BY <1>3, <2>1
  <2>3. a - c \in 0..L /\ b - c \in 0..L
    BY <1>1, <2>1, <2>2, PartOnLine
  <2>4. b = a + Size(parts[k]) /\ AreWords(ws[a - c + 1], ws[a - c + 2], parts[k])
    BY <1>4, <2>1, <2>2
  <2>5. a >= c + 1
    <3>1. a = e[(k - 1) - 1] + Size(parts[k - 1])
      BY <1>4, <2>1, <2>2
    <3>2. e[(k - 1) - 1] - c \in 0..L
      BY <1>1, <2>1, PartOnLine
    <3>3. e[(k - 1) - 1] \in Nat
      BY <1>3, <2>1
    <3> QED
      BY <3>1, <3>2, <3>3, SMTT(30) DEF Size
  <2>6. t[a - (c + 1) + 1] = ws[a - c + 1]
    <3>1. a - (c + 1) + 1 \in 1..(L - 1)
      BY <2>3, <2>4, <2>5 DEF Size
    <3>2. a - (c + 1) + 1 + 1 = a - c + 1
      OBVIOUS
    <3> QED
      BY <1>13, <3>1, <3>2
  <2>7. ASSUME ~OneWord(parts[k]) PROVE t[a - (c + 1) + 2] = ws[a - c + 2]
    <3>1. a - (c + 1) + 2 \in 1..(L - 1)
      BY <2>3, <2>4, <2>5, <2>7 DEF Size
    <3>2. a - (c + 1) + 2 + 1 = a - c + 2
      OBVIOUS
    <3> QED
      BY <1>13, <3>1, <3>2
  <2> QED
    BY <2>2, <2>4, <2>6, <2>7 DEF AreWords
<1>15. \A k \in (c + 2)..N : e[k] = e[k - 1] + Size(parts[k])
  BY <1>4
<1>16. c + 1 + 1 = c + 2 /\ Len(t) = e[N] - (c + 1)
  BY <1>3, <1>13
<1>17. IsLine(t, parts, c + 1, e)
  BY <1>1, <1>3, <1>9, <1>14, <1>15, <1>16 DEF IsLine
<1> QED
  BY <1>6, <1>8, <1>12, <1>13, <1>17

\* The first word of a line.
LEMMA FirstOfLine ==
  ASSUME NEW ws \in Seq(LineWord), NEW parts \in Seq(LineParts), NEW c \in Nat, NEW e, IsLine(ws, parts, c, e),
         NEW first, first = IF ws = <<>> THEN "none" ELSE Names(ws)[1]
  PROVE  /\ c < Len(parts) => ws # <<>>
         /\ c < Len(parts) /\ parts[c + 1].name = NoName => first = parts[c + 1].value
         /\ c >= Len(parts) \/ parts[c + 1].name # NoName => first \in {"none", "--"}
<1>1. PICK N \in Nat : N = Len(parts)
  OBVIOUS
<1>2. e \in [0..N -> Nat] /\ e[c] = c /\ Len(ws) = e[N] - c /\ c <= N
  BY <1>1 DEF IsLine
<1>3. CASE c < N
  <2>1. c + 1 \in (c + 1)..N /\ c + 1 \in 1..N
    BY <1>3
  <2>2. PICK part \in LineParts : part = parts[c + 1]
    BY <1>1, <2>1
  <2>3. (c + 1) - 1 = c /\ e[c] - c + 1 = 1 /\ e[c] - c + 2 = 2
    BY <1>2
  <2>4. AreWords(ws[e[(c + 1) - 1] - c + 1], ws[e[(c + 1) - 1] - c + 2], parts[c + 1])
    BY <1>1, <2>1 DEF IsLine
  <2>5. PICK w, x : w = ws[1] /\ x = ws[2]
    OBVIOUS
  <2>6. AreWords(w, x, part)
    BY <2>2, <2>3, <2>4, <2>5
  <2>7. e[(c + 1) - 1] - c \in 0..Len(ws) /\ e[c + 1] - c = (e[(c + 1) - 1] - c) + Size(part) /\ e[c + 1] - c \in 0..Len(ws)
    <3>1. PICK k \in (c + 1)..Len(parts) : k = c + 1
      BY <1>1, <2>1
    <3>2. e[k - 1] - c \in 0..Len(ws) /\ e[k] - c \in 0..Len(ws) /\ e[k] - c = (e[k - 1] - c) + Size(parts[k])
      BY PartOnLine
    <3> QED
      BY <2>2, <3>1, <3>2
  <2>8. Len(ws) > 0
    BY <1>2, <2>3, <2>7, SMTT(30) DEF Size
  <2>9. ws # <<>>
    BY <2>8
  <2>10. 1 \in DOMAIN ws
    BY <2>8
  <2>11. first = Names(ws)[1]
    BY <2>9
  <2>12. first = IF w.dash THEN "--" ELSE w.name
    BY <2>5, <2>10, <2>11 DEF Names
  <2>13. part.name \in FlagNames \cup {NoName} /\ part.value \in Strings /\ part.joined \in BOOLEAN
    BY <2>2 DEF LineParts, FlagNames, Strings, NoName
  <2>14. part.name \in Strings /\ NoName \in Strings /\ "json" \in Strings
    BY <2>13 DEF Strings, FlagNames
  <2>15. CASE part.name = NoName
    <3>1. w = Bare(part.value)
      BY <2>6, <2>15, PartWords DEF NoName
    <3>2. ~w.dash /\ w.name = part.value
      BY <2>13, <2>14, <3>1, WordsAre
    <3> QED
      BY <1>1, <1>3, <2>2, <2>9, <2>12, <2>15, <3>2
  <2>16. CASE part.name # NoName
    <3>1. w = Dashed("json", NoName) \/ w = Dashed(part.name, part.value) \/ w = Dashed(part.name, NoName)
      BY <2>6, <2>13, <2>16, PartWords
    <3>2. w.dash
      BY <2>13, <2>14, <3>1, WordsAre
    <3> QED
      BY <1>1, <1>3, <2>2, <2>9, <2>12, <2>16, <3>2
  <2> QED
    BY <2>15, <2>16
<1>4. CASE c = N
  <2>1. Len(ws) = 0
    BY <1>2, <1>4
  <2>2. ws = <<>>
    BY <2>1, EmptySeq
  <2> QED
    BY <1>1, <1>4, <2>2
<1> QED
  BY <1>2, <1>3, <1>4

\* Before the first word.
LEMMA UnreadIs ==
  ASSUME NEW rpc \in Strings, NEW timeout \in Nat, NEW s, s = Unread(rpc, timeout)
  PROVE  /\ s \in Reader /\ s.want = NoName /\ NoOperand(s) /\ s.rpc = rpc /\ s.timeout = timeout
<1>1. PICK none, rest : none = NoName /\ rest = <<>> /\ rest \in Seq(LineWord)
  BY EmptySeq
<1>2. s = [rpc |-> rpc, timeout |-> timeout, interval |-> 5, ok |-> TRUE, want |-> none, rest |-> rest]
  BY <1>1 DEF Unread, NoName
<1>3. s \in Reader /\ s.want = none /\ s.rest = rest /\ s.rpc = rpc /\ s.timeout = timeout
  BY <1>1, <1>2 DEF Reader
<1> QED
  BY <1>1, <1>3 DEF NoOperand

\* CmdFlags: a launch that is not refused has an --rpc.
LEMMA CmdFlagsAre ==
  ASSUME NEW ws \in Seq(LineWord), NEW parts \in Seq(LineParts), NEW c \in Nat, NEW e, IsLine(ws, parts, c, e),
         \A k \in 1..Len(parts) : parts[k].joined => parts[k].value # NoName, Orderly(parts, c, FALSE),
         NEW cmd, NEW set, set = CmdFlags(cmd, ws), set.cmd # "usage", NEW default
  PROVE  /\ set.cmd = cmd
         /\ LastSays(set.rpc, Given(parts, c, Len(parts), "rpc"), Values(parts), default)
         /\ LastSays(set.timeout, Given(parts, c, Len(parts), "timeout"), Times(parts), 5)
<1>1. PICK none \in Strings : none = ""
  BY DEF Strings, NoName
<1>2. PICK init : init = Unread(none, 5)
  OBVIOUS
<1>3. init \in Reader /\ init.want = NoName /\ NoOperand(init) /\ init.rpc = none /\ init.timeout = 5
  <2>1. PICK five \in Nat : five = 5
    OBVIOUS
  <2>2. init = Unread(none, five)
    BY <1>2, <2>1
  <2>3. init \in Reader /\ init.want = NoName /\ NoOperand(init) /\ init.rpc = none /\ init.timeout = five
    BY <2>2, UnreadIs
  <2> QED
    BY <2>1, <2>3
<1>4. PICK known \in SUBSET FlagNames : known = {"rpc", "timeout"}
  BY DEF FlagNames
<1>5. PICK s : s = ReadWords(ws, init, known, FALSE)
  OBVIOUS
<1>6. PICK r : r = [s EXCEPT !.ok = s.ok /\ s.rpc # none]
  OBVIOUS
<1>7. set = Take(cmd, r)
  <2>1. s = FlagParse(ws, Unread("", 5), {"rpc", "timeout"})
    BY <1>1, <1>2, <1>4, <1>5 DEF FlagParse
  <2>2. CmdFlags(cmd, ws) = Take(cmd, [s EXCEPT !.ok = s.ok /\ s.rpc # ""])
    BY <2>1, Zenon DEF CmdFlags
  <2> QED
    BY <1>1, <1>6, <2>2, Zenon
<1>8. s \in Reader
  <2>1. PICK f : IsRead(f, ws, init, known, FALSE) /\ s = Finished(f[Len(ws)])
    BY <1>3, <1>5, ReadWordsIs
  <2>2. PICK t : t = f[Len(ws)]
    OBVIOUS
  <2>3. t \in Reader
    BY <2>1, <2>2 DEF IsRead
  <2> QED
    BY <2>1, <2>2, <2>3, FinishedIs
<1>9. set.cmd = (IF r.ok THEN cmd ELSE "usage") /\ set.rpc = r.rpc /\ set.timeout = r.timeout
  BY <1>7 DEF Take
<1>10. r.rpc = s.rpc /\ r.timeout = s.timeout /\ r.ok = (s.ok /\ s.rpc # none)
  BY <1>6, <1>8, Zenon DEF Reader
<1>11. r.ok
  BY <1>9
<1>12. s.ok /\ s.rpc # none
  BY <1>10, <1>11, Zenon
<1>13. /\ LastSays(s.rpc, Given(parts, c, Len(parts), "rpc"), Values(parts), none)
       /\ LastSays(s.timeout, Given(parts, c, Len(parts), "timeout"), Times(parts), 5)
  BY <1>3, <1>5, <1>12, LineTaken
<1>14. LastSays(s.rpc, Given(parts, c, Len(parts), "rpc"), Values(parts), default)
  BY <1>12, <1>13 DEF LastSays
<1> QED
  BY <1>9, <1>10, <1>11, <1>13, <1>14

\* The words of a command.
LEMMA CommandsAre ==
  ASSUME NEW tool \in {"qikchain", "qikchaind", "cobra"}, NEW cmd, cmd \in Commands[tool]
  PROVE  /\ Len(cmd) \in 0..2 /\ (Len(cmd) > 0 => cmd # <<>> /\ Last(cmd) = cmd[Len(cmd)])
         /\ \A k \in 1..Len(cmd) : cmd[k] \in CommandWords
         /\ tool = "qikchain" => \/ Len(cmd) = 0
                                 \/ Len(cmd) = 1 /\ cmd[1] \in {"status", "block", "help"}
                                 \/ Len(cmd) = 2 /\ cmd[1] = "block" /\ cmd[2] = "head"
         /\ tool = "qikchaind" => Len(cmd) = 0 \/ (Len(cmd) = 1 /\ cmd[1] \in {"once", "run", "help"})
         /\ tool = "cobra" => \/ Len(cmd) = 0
                              \/ Len(cmd) = 1 /\ cmd[1] \in {"status", "completion"}
                              \/ Len(cmd) = 2 /\ cmd[1] = "block" /\ cmd[2] = "head"
<1> DEFINE Good(c) ==
         /\ Len(c) \in 0..2 /\ (Len(c) > 0 => c # <<>> /\ Last(c) = c[Len(c)])
         /\ \A k \in 1..Len(c) : c[k] \in CommandWords
<1>1. \A a \in CommandWords : Good(<<a>>)
  BY DEF Last
<1>2. \A a, b \in CommandWords : Good(<<a, b>>)
  BY DEF Last
<1>3. Good(<<>>)
  OBVIOUS
<1>4. /\ tool = "qikchain" => Commands[tool] = {<<"status">>, <<"block", "head">>, <<"block">>, <<"help">>, <<>>}
      /\ tool = "qikchaind" => Commands[tool] = {<<"once">>, <<"run">>, <<"help">>, <<>>}
      /\ tool = "cobra" => Commands[tool] = {<<"status">>, <<"block", "head">>, <<"completion">>, <<>>}
  <2>1. PICK a, b, c : /\ a = {<<"status">>, <<"block", "head">>, <<"block">>, <<"help">>, <<>>}
                       /\ b = {<<"once">>, <<"run">>, <<"help">>, <<>>}
                       /\ c = {<<"status">>, <<"block", "head">>, <<"completion">>, <<>>}
    OBVIOUS
  <2>2. Commands = [qikchain |-> a, qikchaind |-> b, cobra |-> c]
    BY <2>1, Zenon DEF Commands
  <2>3. Commands["qikchain"] = a /\ Commands["qikchaind"] = b /\ Commands["cobra"] = c
    BY <2>2
  <2> QED
    BY <2>1, <2>3, Zenon
<1>5. CASE tool = "qikchain"
  <2>1. cmd \in {<<"status">>, <<"block", "head">>, <<"block">>, <<"help">>, <<>>}
    BY <1>4, <1>5
  <2>2. CASE cmd = <<>>
    BY <1>3, <1>5, <2>2
  <2>3. CASE cmd = <<"block", "head">>
    <3>1. Good(cmd)
      BY <1>2, <2>3 DEF CommandWords
    <3>2. Len(cmd) = 2 /\ cmd[1] = "block" /\ cmd[2] = "head"
      BY <2>3
    <3> QED
      BY <1>5, <3>1, <3>2
  <2>4. CASE cmd \in {<<"status">>, <<"block">>, <<"help">>}
    <3>1. PICK a \in {"status", "block", "help"} : cmd = <<a>>
      BY <2>4
    <3>2. Good(cmd)
      BY <1>1, <3>1 DEF CommandWords
    <3>3. Len(cmd) = 1 /\ cmd[1] = a
      BY <3>1
    <3> QED
      BY <1>5, <3>1, <3>2, <3>3
  <2> QED
    BY <2>1, <2>2, <2>3, <2>4
<1>6. CASE tool = "qikchaind"
  <2>1. cmd \in {<<"once">>, <<"run">>, <<"help">>, <<>>}
    BY <1>4, <1>6
  <2>2. CASE cmd = <<>>
    BY <1>3, <1>6, <2>2
  <2>3. CASE cmd \in {<<"once">>, <<"run">>, <<"help">>}
    <3>1. PICK a \in {"once", "run", "help"} : cmd = <<a>>
      BY <2>3
    <3>2. Good(cmd)
      BY <1>1, <3>1 DEF CommandWords
    <3>3. Len(cmd) = 1 /\ cmd[1] = a
      BY <3>1
    <3> QED
      BY <1>6, <3>1, <3>2, <3>3
  <2> QED
    BY <2>1, <2>2, <2>3
<1>7. CASE tool = "cobra"
  <2>1. cmd \in {<<"status">>, <<"block", "head">>, <<"completion">>, <<>>}
    BY <1>4, <1>7
  <2>2. CASE cmd = <<>>
    BY <1>3, <1>7, <2>2
  <2>3. CASE cmd = <<"block", "head">>
    <3>1. Good(cmd)
      BY <1>2, <2>3 DEF CommandWords
    <3>2. Len(cmd) = 2 /\ cmd[1] = "block" /\ cmd[2] = "head"
      BY <2>3
    <3> QED
      BY <1>7, <3>1, <3>2
  <2>4. CASE cmd \in {<<"status">>, <<"completion">>}
    <3>1. PICK a \in {"status", "completion"} : cmd = <<a>>
      BY <2>4
    <3>2. Good(cmd)
      BY <1>1, <3>1 DEF CommandWords
    <3>3. Len(cmd) = 1 /\ cmd[1] = a
      BY <3>1
    <3> QED
      BY <1>7, <3>1, <3>2, <3>3
  <2> QED
    BY <2>1, <2>2, <2>3, <2>4
<1> QED
  BY <1>5, <1>6, <1>7

\* The words of a launch are its parts, the command among them.
LEMMA LaunchIs ==
  ASSUME NEW l \in Launches,
         NEW ws, ws = l.words, NEW parts, parts = l.parts, NEW cmd, cmd = l.command, NEW b, b = l.before
  PROVE  /\ l.tool \in {"qikchain", "qikchaind", "cobra"} /\ cmd \in Commands[l.tool]
         /\ ws \in Seq(LineWord) /\ parts \in Seq(LineParts) /\ b \in Nat /\ Len(cmd) \in 0..2
         /\ \A k \in 1..Len(parts) : parts[k].joined => parts[k].value # NoName
         /\ IsLine(ws, parts, 0, Ends(parts)) /\ Commanded(parts, b, cmd)
         /\ l.tool # "cobra" => b = 0 /\ Orderly(parts, Len(cmd), FALSE)
<1>1. /\ ws \in Seq([dash : BOOLEAN, name : STRING, eq : STRING]) /\ parts \in Seq(LineParts)
      /\ Spells(ws, parts) /\ \A k \in 1..Len(parts) : parts[k].joined => parts[k].value # ""
      /\ b \in Nat /\ cmd \in Commands[l.tool] /\ b + Len(cmd) <= Len(parts)
  BY LinesAssumption, Zenon
<1>2. /\ \A k \in 1..Len(cmd) : parts[b + k] = Operand(cmd[k])
      /\ \A k \in 1..b : parts[k].name # ""
      /\ \A k \in (b + Len(cmd) + 1)..Len(parts) : parts[k].name = "" => parts[k].value \notin CommandWords
  BY LinesAssumption, Zenon
<1>3. l.tool # "cobra" =>
        /\ b = 0
        /\ \A k \in (b + Len(cmd) + 1)..Len(parts) :
             parts[k].name = "" => \A j \in k..Len(parts) : parts[j].name = ""
  BY LinesAssumption, Zenon
<1>4. l.tool \in {"qikchain", "qikchaind", "cobra"}
  BY QueriesAssumption
<1>5. PICK m \in 0..2 : m = Len(cmd)
  <2>1. PICK tool \in {"qikchain", "qikchaind", "cobra"} : tool = l.tool
    BY <1>4
  <2>2. Len(cmd) \in 0..2
    BY <1>1, <2>1, CommandsAre
  <2> QED
    BY <2>2
<1>6. ws \in Seq(LineWord)
  <2>1. [dash : BOOLEAN, name : STRING, eq : STRING] \subseteq LineWord
    BY DEF LineWord, Strings
  <2> QED
    BY <1>1, <2>1, SeqMonotonic, Zenon
<1>16. parts \in Seq(LineParts)
  BY <1>1, Zenon
<1>7. PICK N \in Nat : N = Len(parts)
  BY <1>16
<1>17. b \in Nat /\ b + Len(cmd) <= Len(parts)
  BY <1>1, Zenon
<1>8. PICK e : e = Ends(parts)
  OBVIOUS
<1>9. e \in [0..N -> Nat] /\ e[0] = 0 /\ \A k \in 1..N : e[k] = e[k - 1] + Len(Written(parts[k]))
  BY <1>7, <1>8, <1>16, EndsAre
<1>10. Len(ws) = e[N] /\ \A k \in 1..N : \A i \in 1..Len(Written(parts[k])) : ws[e[k - 1] + i] = Written(parts[k])[i]
  BY <1>1, <1>7, <1>8, Zenon DEF Spells
<1>11. ASSUME NEW k \in 1..N
       PROVE  /\ e[k] = e[k - 1] + Size(parts[k])
              /\ AreWords(ws[e[k - 1] - 0 + 1], ws[e[k - 1] - 0 + 2], parts[k])
  <2>1. PICK part \in LineParts : part = parts[k]
    BY <1>7, <1>16
  <2>2. PICK one, two : one = Written(part)[1] /\ two = Written(part)[2]
    OBVIOUS
  <2>3. AreWords(one, two, part)
    BY <2>2 DEF AreWords
  <2>4. Len(Written(part)) = Size(part)
    BY <2>3, PartWords DEF Size
  <2>5. PICK a \in Nat : a = e[k - 1]
    BY <1>9
  <2>6. ws[a + 1] = one
    <3>1. 1 \in 1..Len(Written(part))
      BY <2>4 DEF Size
    <3> QED
      BY <1>10, <2>1, <2>2, <2>5, <3>1
  <2>7. ~OneWord(part) => ws[a + 2] = two
    <3>1. ~OneWord(part) => 2 \in 1..Len(Written(part))
      BY <2>4 DEF Size
    <3> QED
      BY <1>10, <2>1, <2>2, <2>5, <3>1
  <2>8. AreWords(ws[a + 1], ws[a + 2], part)
    BY <2>3, <2>6, <2>7 DEF AreWords
  <2>9. a - 0 + 1 = a + 1 /\ a - 0 + 2 = a + 2
    OBVIOUS
  <2>10. e[k] = a + Size(part)
    BY <1>9, <2>1, <2>4, <2>5
  <2> QED
    BY <2>1, <2>5, <2>8, <2>9, <2>10
<1>12. IsLine(ws, parts, 0, e)
  <2>1. \A k \in (0 + 1)..Len(parts) : k \in 1..N
    BY <1>7
  <2>2. Len(ws) = e[Len(parts)] - 0 /\ 0 <= Len(parts) /\ e \in [0..Len(parts) -> Nat] /\ e[0] = 0
    BY <1>7, <1>9, <1>10
  <2> QED
    BY <1>11, <2>1, <2>2, Zenon DEF IsLine
<1>13. Commanded(parts, b, cmd)
  <2>1. ASSUME NEW k \in (b + 1)..(b + m) PROVE parts[k].name = NoName /\ parts[k].value = cmd[k - b]
    <3>1. k - b \in 1..m /\ b + (k - b) = k
      BY <1>17, <2>1
    <3>2. parts[k] = Operand(cmd[k - b])
      BY <1>2, <1>5, <3>1
    <3>3. PICK v, none : v = cmd[k - b] /\ none = NoName
      OBVIOUS
    <3>4. parts[k] = [name |-> none, value |-> v, joined |-> FALSE]
      BY <3>2, <3>3 DEF Operand, NoName
    <3> QED
      BY <3>3, <3>4
  <2>2. \A k \in 1..b : parts[k].name # NoName
    BY <1>2 DEF NoName
  <2>3. \A k \in (b + m + 1)..Len(parts) : parts[k].name = NoName => parts[k].value \notin CommandWords
    BY <1>2, <1>5 DEF NoName
  <2> QED
    BY <1>5, <1>17, <2>1, <2>2, <2>3 DEF Commanded
<1>14. ASSUME l.tool # "cobra" PROVE b = 0 /\ Orderly(parts, m, FALSE)
  <2>1. b = 0
    BY <1>3, <1>14
  <2>2. \A k \in (m + 1)..N : parts[k].name = NoName => \A j \in k..N : parts[j].name = NoName
    <3>1. 0 + m + 1 = m + 1
      OBVIOUS
    <3> QED
      BY <1>3, <1>5, <1>7, <1>14, <2>1, <3>1, Zenon DEF NoName
  <2>3. ASSUME NEW k \in (m + 1)..N, NEW j \in (m + 1)..N, j < k, parts[j].name = NoName PROVE parts[k].name = NoName
    BY <2>2, <2>3
  <2> QED
    BY <1>7, <2>1, <2>3 DEF Orderly
<1>15. \A k \in 1..Len(parts) : parts[k].joined => parts[k].value # NoName
  BY <1>1 DEF NoName
<1> QED
  BY <1>1, <1>4, <1>5, <1>6, <1>8, <1>12, <1>13, <1>14, <1>15

\* How long a call may take if the line does not say it.
UsualTimeout(l) ==
  IF l.tool = "cobra" THEN CobraTimeout(l.timeoutEnv) ELSE IF l.tool = "qikchaind" THEN DaemonTimeout(l.timeoutEnv) ELSE 5

\* The flags that count: qikchaind reads its flags and drops them.
Counting(l, name) == IF l.tool = "qikchaind" THEN {} ELSE Given(l.parts, 0, Len(l.parts), name)

\* What a launch is taken for, if it is not refused and prints no text.
TakenFor(l, set) ==
  set.cmd \notin {"usage", "help"} =>
    /\ Len(l.command) > 0 /\ set.cmd = l.command[Len(l.command)]
    /\ LastSays(set.rpc, Counting(l, "rpc"), Values(l.parts), RpcFromEnv(l.rpcEnv))
    /\ LastSays(set.timeout, Counting(l, "timeout"), Times(l.parts), UsualTimeout(l))

\* Flags are not among the words of the command.
LEMMA GivenAfter ==
  ASSUME NEW parts, NEW c \in Nat, c <= Len(parts), Len(parts) \in Nat,
         \A k \in 1..c : parts[k].name = NoName, NEW name, name # NoName
  PROVE  Given(parts, c, Len(parts), name) = Given(parts, 0, Len(parts), name)
<1>1. PICK N \in Nat : N = Len(parts)
  OBVIOUS
<1>2. \A j \in 1..N : parts[j].name = name => j \in (c + 1)..N
  OBVIOUS
<1> QED
  BY <1>1, <1>2 DEF Given

\* What the defaults are.
LEMMA DefaultsAre ==
  ASSUME NEW l \in Launches
  PROVE  RpcFromEnv(l.rpcEnv) \in Strings /\ DaemonTimeout(l.timeoutEnv) \in Nat /\ CobraTimeout(l.timeoutEnv) \in Nat
<1>1. l.rpcEnv \in STRING /\ l.timeoutEnv \in [kind : {"none", "duration", "number"}, seconds : Nat]
  BY LinesAssumption, Zenon
<1>2. l.rpcEnv \in STRING /\ l.timeoutEnv.seconds \in Nat
  BY <1>1
<1>3. RpcFromEnv(l.rpcEnv) \in Strings
  BY <1>2 DEF RpcFromEnv, Strings
<1> QED
  BY <1>2, <1>3 DEF DaemonTimeout, CobraTimeout

\* qikchain.
LEMMA QikchainIs ==
  ASSUME NEW l \in Launches, l.tool = "qikchain", NEW set, set = Qikchain(l.words)
  PROVE  TakenFor(l, set)
<1>1. PICK ws, parts, cmd, b, e : ws = l.words /\ parts = l.parts /\ cmd = l.command /\ b = l.before /\ e = Ends(parts)
  OBVIOUS
<1>2. /\ cmd \in Commands["qikchain"]
      /\ ws \in Seq(LineWord) /\ parts \in Seq(LineParts) /\ Len(cmd) \in 0..2
      /\ \A k \in 1..Len(parts) : parts[k].joined => parts[k].value # NoName
      /\ IsLine(ws, parts, 0, e) /\ Commanded(parts, 0, cmd) /\ Orderly(parts, Len(cmd), FALSE)
  BY <1>1, LaunchIs
<1>3. PICK m \in 0..2, N \in Nat : m = Len(cmd) /\ N = Len(parts)
  BY <1>2
<1>4. /\ m <= N /\ \A k \in 1..m : parts[k].name = NoName /\ parts[k].value = cmd[k]
      /\ \A k \in (m + 1)..N : parts[k].name = NoName => parts[k].value \notin CommandWords
  BY <1>3, <1>2 DEF Commanded
<1>5. \/ m = 0
      \/ m = 1 /\ cmd[1] \in {"status", "block", "help"}
      \/ m = 2 /\ cmd[1] = "block" /\ cmd[2] = "head"
  BY <1>2, <1>3, CommandsAre
<1>6. PICK first : first = IF ws = <<>> THEN "none" ELSE Names(ws)[1]
  OBVIOUS
<1>7. /\ 0 < N => ws # <<>>
      /\ 0 < N /\ parts[1].name = NoName => first = parts[1].value
      /\ 0 >= N \/ parts[1].name # NoName => first \in {"none", "--"}
  BY <1>2, <1>3, <1>6, FirstOfLine
<1>8. set = CASE first = "help" -> Only("help")
              [] first = "status" -> CmdFlags("status", Tail(ws))
              [] first = "block" -> CmdBlock(Tail(ws))
              [] OTHER -> Only("usage")
  BY <1>1, <1>6 DEF Qikchain
<1>9. Only("help").cmd = "help" /\ Only("usage").cmd = "usage"
  BY DEF Only
<1> SUFFICES ASSUME set.cmd \notin {"usage", "help"} PROVE TakenFor(l, set)
  BY DEF TakenFor
<1>10. CASE m = 0
  <2>1. first \in {"none", "--"} \/ first \notin CommandWords
    BY <1>3, <1>4, <1>7, <1>10
  <2>2. set = Only("usage")
    BY <1>8, <2>1 DEF CommandWords
  <2> QED
    BY <1>9, <2>2
<1>11. CASE m > 0
  <2>1. first = cmd[1] /\ 1 <= N
    BY <1>4, <1>7, <1>11
  <2>2. /\ Tail(ws) \in Seq(LineWord) /\ IsLine(Tail(ws), parts, 0 + 1, e)
    BY <1>2, <1>3, <1>4, <1>11, NextOfLine
  <2>15. PICK one \in Nat : one = 0 + 1
    OBVIOUS
  <2>3. PICK t \in Seq(LineWord) : t = Tail(ws) /\ IsLine(t, parts, one, e)
    BY <2>2, <2>15
  <2>4. Given(parts, m, N, "rpc") = Given(parts, 0, N, "rpc") /\ Given(parts, m, N, "timeout") = Given(parts, 0, N, "timeout")
    <3>1. \A name : name # NoName => Given(parts, m, Len(parts), name) = Given(parts, 0, Len(parts), name)
      <4>1. /\ m \in Nat /\ m <= Len(parts) /\ Len(parts) \in Nat
            /\ \A k \in 1..m : parts[k].name = NoName
        BY <1>3, <1>4
      <4> QED
        BY <4>1, GivenAfter, Zenon
    <3> QED
      BY <1>3, <3>1 DEF NoName
  <2>5. Counting(l, "rpc") = Given(parts, 0, N, "rpc") /\ Counting(l, "timeout") = Given(parts, 0, N, "timeout")
    BY <1>1, <1>3 DEF Counting
  <2>6. UsualTimeout(l) = 5
    BY DEF UsualTimeout
  <2>7. ASSUME NEW q \in Seq(LineWord), IsLine(q, parts, m, e), set = CmdFlags(cmd[m], q) PROVE TakenFor(l, set)
    <3>1. PICK c, default : c = cmd[m] /\ default = RpcFromEnv(l.rpcEnv)
      OBVIOUS
    <3>2. /\ set.cmd = c
          /\ LastSays(set.rpc, Given(parts, m, Len(parts), "rpc"), Values(parts), default)
          /\ LastSays(set.timeout, Given(parts, m, Len(parts), "timeout"), Times(parts), 5)
      <4>1. /\ IsLine(q, parts, m, e) /\ Orderly(parts, m, FALSE)
            /\ \A k \in 1..Len(parts) : parts[k].joined => parts[k].value # NoName
        BY <1>2, <1>3, <2>7
      <4>2. set = CmdFlags(c, q) /\ set.cmd # "usage"
        BY <2>7, <3>1
      <4>3. m \in Nat
        BY <1>3
      <4> QED
        BY <1>2, <4>1, <4>2, <4>3, CmdFlagsAre, ZenonT(60)
    <3> QED
      BY <1>1, <1>3, <1>11, <2>4, <2>5, <2>6, <3>1, <3>2, Zenon DEF TakenFor
  <2>8. CASE m = 1 /\ cmd[1] = "help"
    BY <1>8, <1>9, <2>1, <2>8
  <2>9. CASE m = 1 /\ cmd[1] = "status"
    <3>1. set = CmdFlags(cmd[m], t)
      BY <1>8, <2>1, <2>3, <2>9
    <3>2. IsLine(t, parts, m, e)
      BY <2>3, <2>9, <2>15
    <3> QED
      BY <2>7, <3>1, <3>2
  <2>10. PICK second : second = IF t = <<>> THEN "none" ELSE Names(t)[1]
    OBVIOUS
  <2>11. /\ 1 < N => t # <<>>
         /\ 1 < N /\ parts[2].name = NoName => second = parts[2].value
         /\ 1 >= N \/ parts[2].name # NoName => second \in {"none", "--"}
    <3>1. one + 1 = 2 /\ one = 1
      BY <2>15
    <3>2. /\ one < Len(parts) => t # <<>>
          /\ one < Len(parts) /\ parts[one + 1].name = NoName => second = parts[one + 1].value
          /\ one >= Len(parts) \/ parts[one + 1].name # NoName => second \in {"none", "--"}
      BY <1>2, <2>3, <2>10, FirstOfLine, Zenon
    <3> QED
      BY <1>3, <3>1, <3>2
  <2>12. cmd[1] = "block" => set = IF t # <<>> /\ Names(t)[1] = "head" THEN CmdFlags("head", Tail(t)) ELSE Only("usage")
    BY <1>8, <2>1, <2>3 DEF CmdBlock
  <2>13. CASE m = 1 /\ cmd[1] = "block"
    <3>1. second # "head"
      BY <1>3, <1>4, <2>11, <2>13 DEF CommandWords
    <3>2. set = Only("usage")
      BY <2>10, <2>12, <2>13, <3>1
    <3> QED
      BY <1>9, <3>2
  <2>14. CASE m = 2
    <3>1. second = "head" /\ t # <<>> /\ 1 < N
      BY <1>4, <1>5, <2>11, <2>14
    <3>2. set = CmdFlags(cmd[m], Tail(t))
      BY <1>5, <2>10, <2>12, <2>14, <3>1
    <3>3. PICK part : part = parts[one + 1]
      OBVIOUS
    <3>4. one < Len(parts) /\ part.name = NoName /\ one + 1 = m
      BY <1>3, <1>4, <2>14, <2>15, <3>1, <3>3
    <3>5. Tail(t) \in Seq(LineWord) /\ IsLine(Tail(t), parts, one + 1, e)
      BY <1>2, <2>3, <3>3, <3>4, NextOfLine, Zenon
    <3>6. PICK q \in Seq(LineWord) : q = Tail(t) /\ IsLine(q, parts, m, e)
      BY <3>4, <3>5
    <3> QED
      BY <2>7, <3>2, <3>6
  <2> QED
    BY <1>5, <1>11, <2>8, <2>9, <2>13, <2>14
<1> QED
  BY <1>10, <1>11

\* qikchaind.
LEMMA QikchaindIs ==
  ASSUME NEW l \in Launches, l.tool = "qikchaind", NEW set, set = Qikchaind(l)
  PROVE  TakenFor(l, set)
<1>1. PICK ws, parts, cmd, b, e : ws = l.words /\ parts = l.parts /\ cmd = l.command /\ b = l.before /\ e = Ends(parts)
  OBVIOUS
<1>2. /\ cmd \in Commands["qikchaind"]
      /\ ws \in Seq(LineWord) /\ parts \in Seq(LineParts) /\ Len(cmd) \in 0..2
      /\ IsLine(ws, parts, 0, e) /\ Commanded(parts, 0, cmd)
  BY <1>1, LaunchIs
<1>3. PICK m \in 0..2, N \in Nat : m = Len(cmd) /\ N = Len(parts)
  BY <1>2
<1>4. /\ m <= N /\ \A k \in 1..m : parts[k].name = NoName /\ parts[k].value = cmd[k]
      /\ \A k \in (m + 1)..N : parts[k].name = NoName => parts[k].value \notin CommandWords
  BY <1>3, <1>2 DEF Commanded
<1>5. m = 0 \/ (m = 1 /\ cmd[1] \in {"once", "run", "help"})
  BY <1>2, <1>3, CommandsAre
<1>6. PICK first : first = IF ws = <<>> THEN "none" ELSE Names(ws)[1]
  OBVIOUS
<1>7. /\ 0 < N /\ parts[1].name = NoName => first = parts[1].value
      /\ 0 >= N \/ parts[1].name # NoName => first \in {"none", "--"}
  BY <1>2, <1>3, <1>6, FirstOfLine
<1>8. PICK bound : bound = BindCommonFlags(l)
  OBVIOUS
<1>9. bound \in Reader /\ bound.rpc = RpcFromEnv(l.rpcEnv) /\ bound.timeout = DaemonTimeout(l.timeoutEnv)
  BY <1>8, DefaultsAre, UnreadIs DEF BindCommonFlags
<1>10. ASSUME NEW known PROVE LET p == ParseCommonFlags(l, known) IN p.rpc = bound.rpc /\ p.timeout = bound.timeout
  <2>1. PICK s, i, ok : s = FlagParse(Tail(l.words), bound, known) /\ i = s.interval /\ ok = (s.ok /\ s.rest = <<>>)
    OBVIOUS
  <2>2. ParseCommonFlags(l, known) = [bound EXCEPT !.ok = ok, !.interval = i]
    BY <1>8, <2>1 DEF ParseCommonFlags
  <2>3. PICK p : p = ParseCommonFlags(l, known)
    OBVIOUS
  <2>4. p.rpc = bound.rpc /\ p.timeout = bound.timeout
    BY <1>9, <2>2, <2>3 DEF Reader
  <2> QED
    BY <2>3, <2>4
<1> SUFFICES ASSUME set.cmd \notin {"usage", "help"} PROVE TakenFor(l, set)
  BY DEF TakenFor
<1>11. PICK polling, once, ok :
         /\ polling = ParseCommonFlags(l, {"rpc", "timeout", "interval"}) /\ once = ParseCommonFlags(l, {"rpc", "timeout"})
         /\ ok = (polling.ok /\ polling.interval > 0)
  OBVIOUS
<1>12. PICK p : p = [polling EXCEPT !.ok = ok]
  OBVIOUS
<1>13. set = CASE first = "help" -> Only("help")
               [] first = "once" -> Take("once", once)
               [] first = "run" -> Take("run", p)
               [] OTHER -> Only("usage")
  BY <1>1, <1>6, <1>11, <1>12 DEF Qikchaind
<1>14. Only("help").cmd = "help" /\ Only("usage").cmd = "usage"
  BY DEF Only
<1>15. first \in {"once", "run"}
  BY <1>13, <1>14
<1>16. p.rpc = polling.rpc /\ p.timeout = polling.timeout
  BY <1>12
<1>17. set.cmd = first /\ set.rpc = bound.rpc /\ set.timeout = bound.timeout
  <2>1. polling.rpc = bound.rpc /\ polling.timeout = bound.timeout /\ once.rpc = bound.rpc /\ once.timeout = bound.timeout
    BY <1>10, <1>11, Zenon
  <2>2. CASE first = "once"
    <3>1. set = Take("once", once)
      BY <1>13, <2>2
    <3>2. set.cmd = (IF once.ok THEN "once" ELSE "usage") /\ set.rpc = once.rpc /\ set.timeout = once.timeout
      BY <3>1 DEF Take
    <3> QED
      BY <2>1, <2>2, <3>2
  <2>3. CASE first = "run"
    <3>1. set = Take("run", p)
      BY <1>13, <2>3
    <3>2. set.cmd = (IF p.ok THEN "run" ELSE "usage") /\ set.rpc = p.rpc /\ set.timeout = p.timeout
      BY <3>1 DEF Take
    <3> QED
      BY <1>16, <2>1, <2>3, <3>2
  <2> QED
    BY <1>15, <2>2, <2>3
<1>18. m = 1 /\ first = cmd[1]
  <2>1. m # 0
    <3> SUFFICES ASSUME m = 0 PROVE FALSE
      OBVIOUS
    <3>1. first \in {"none", "--"} \/ first \notin CommandWords
      BY <1>3, <1>4, <1>7
    <3> QED
      BY <1>15, <3>1 DEF CommandWords
  <2> QED
    BY <1>4, <1>5, <1>7, <2>1
<1>19. \A name : Counting(l, name) = {}
  BY DEF Counting
<1>20. UsualTimeout(l) = DaemonTimeout(l.timeoutEnv)
  BY DEF UsualTimeout
<1>21. LastSays(set.rpc, {}, Values(l.parts), RpcFromEnv(l.rpcEnv)) /\ LastSays(set.timeout, {}, Times(l.parts), UsualTimeout(l))
  BY <1>9, <1>17, <1>20 DEF LastSays
<1>22. Len(l.command) > 0 /\ set.cmd = l.command[Len(l.command)]
  BY <1>1, <1>3, <1>17, <1>18
<1> QED
  BY <1>19, <1>21, <1>22, Zenon DEF TakenFor

\* The programs on cobra.
LEMMA CobraIs ==
  ASSUME NEW l \in Launches, l.tool = "cobra", NEW set, set = Cobra(l)
  PROVE  TakenFor(l, set)
<1>1. PICK ws, parts, cmd, b, e : ws = l.words /\ parts = l.parts /\ cmd = l.command /\ b = l.before /\ e = Ends(parts)
  OBVIOUS
<1>2. /\ cmd \in Commands["cobra"]
      /\ ws \in Seq(LineWord) /\ parts \in Seq(LineParts) /\ Len(cmd) \in 0..2 /\ b \in Nat
      /\ \A k \in 1..Len(parts) : parts[k].joined => parts[k].value # NoName
      /\ IsLine(ws, parts, 0, e) /\ Commanded(parts, b, cmd)
  BY <1>1, LaunchIs
<1>3. PICK m \in 0..2, N \in Nat : m = Len(cmd) /\ N = Len(parts)
  BY <1>2
<1>4. \/ m = 0
      \/ m = 1 /\ cmd[1] \in {"status", "completion"}
      \/ m = 2 /\ cmd[1] = "block" /\ cmd[2] = "head"
  BY <1>2, <1>3, CommandsAre
<1>5. PICK init : init = Unread(RpcFromEnv(l.rpcEnv), CobraTimeout(l.timeoutEnv))
  OBVIOUS
<1>6. /\ init \in Reader /\ init.want = NoName /\ NoOperand(init)
      /\ init.rpc = RpcFromEnv(l.rpcEnv) /\ init.timeout = CobraTimeout(l.timeoutEnv)
  BY <1>5, DefaultsAre, UnreadIs
<1>7. PICK s : s = ReadWords(ws, init, CobraFlags, TRUE)
  OBVIOUS
<1>8. PICK left : left = StripFlags(ws)
  OBVIOUS
<1>9. /\ left \in Seq(LineWord) /\ Len(left) >= m
      /\ \A i \in 1..m : ~left[i].dash /\ left[i].name = cmd[i]
      /\ \A i \in (m + 1)..Len(left) : ~left[i].dash /\ left[i].name \notin CommandWords
  BY <1>2, <1>3, <1>8, LineStripped
<1>10. PICK names : names = Names(left)
  OBVIOUS
<1>11. PICK n \in Nat : n = Len(left) /\ n = Len(names) /\ names \in Seq(Strings) /\ \A i \in 1..n : names[i] = left[i].name
  <2>1. PICK k \in Nat : k = Len(left) /\ DOMAIN left = 1..k
    BY <1>9
  <2>2. names = [i \in 1..k |-> IF left[i].dash THEN "--" ELSE left[i].name]
    BY <1>10, <2>1 DEF Names
  <2>3. \A i \in 1..k : ~left[i].dash
    BY <1>9, <2>1
  <2>5. \A i \in 1..k : left[i].name \in Strings
    <3>1. \A w \in LineWord : w.name \in Strings
      BY DEF LineWord
    <3>2. \A i \in 1..k : left[i] \in LineWord
      BY <1>9, <2>1
    <3> QED
      BY <3>1, <3>2
  <2>6. names \in Seq(Strings)
    <3>1. \A i \in 1..k : names[i] \in Strings
      BY <2>2, <2>3, <2>5
    <3> QED
      BY <2>2, <3>1
  <2>4. Len(names) = k /\ \A i \in 1..k : names[i] = left[i].name
    BY <2>2, <2>3
  <2> QED
    BY <2>1, <2>4, <2>6
<1>12. PICK next : next = IF names = <<>> THEN "none" ELSE names[1]
  OBVIOUS
<1>13. n > 0 => next = left[1].name
  <2>1. n > 0 => names # <<>>
    BY <1>11
  <2> QED
    BY <1>11, <1>12, <2>1
<1>14. set = CASE next = "status" -> Take("status", s)
               [] next = "completion" /\ s.ok -> Only("help")
               [] next = "block" /\ Len(names) > 1 /\ names[2] = "head" -> Take("head", s)
               [] OTHER -> Only("usage")
  BY <1>1, <1>5, <1>7, <1>8, <1>10, <1>12 DEF Cobra, ApplyPersistentFlags
<1>15. Only("help").cmd = "help" /\ Only("usage").cmd = "usage"
  BY DEF Only
<1> SUFFICES ASSUME set.cmd \notin {"usage", "help"} PROVE TakenFor(l, set)
  BY DEF TakenFor
<1>16. next \in CommandWords
  BY <1>14, <1>15 DEF CommandWords
<1>17. n > 0 /\ m > 0
  <2>1. n > 0
    <3> SUFFICES ASSUME n = 0 PROVE FALSE
      OBVIOUS
    <3>1. next = "none"
      <4>1. names = <<>>
        BY <1>11, EmptySeq
      <4> QED
        BY <1>12, <4>1
    <3> QED
      BY <1>16, <3>1 DEF CommandWords
  <2> QED
    BY <1>9, <1>11, <1>13, <1>16, <2>1
<1>18. next = cmd[1]
  BY <1>9, <1>11, <1>13, <1>17
<1>19. set = Take(cmd[m], s)
  <2>1. CASE m = 1 /\ cmd[1] = "status"
    BY <1>14, <1>18, <2>1
  <2>2. CASE m = 1 /\ cmd[1] = "completion"
    <3>1. set = Only("help") \/ set = Only("usage")
      BY <1>14, <1>18, <2>2
    <3> QED
      BY <1>15, <3>1
  <2>3. CASE m = 2
    <3>1. n > 1 /\ names[2] = "head"
      BY <1>4, <1>9, <1>11, <2>3
    <3> QED
      BY <1>4, <1>11, <1>14, <1>18, <2>3, <3>1
  <2> QED
    BY <1>4, <1>17, <2>1, <2>2, <2>3
<1>20. PICK c : c = cmd[m]
  OBVIOUS
<1>21. set.cmd = (IF s.ok THEN c ELSE "usage") /\ set.rpc = s.rpc /\ set.timeout = s.timeout
  BY <1>19, <1>20 DEF Take
<1>22. s.ok
  BY <1>21
<1>23. PICK known, anywhere : known = CobraFlags /\ anywhere = TRUE
  OBVIOUS
<1>24. known \in SUBSET FlagNames /\ anywhere \in BOOLEAN /\ Orderly(parts, 0, anywhere)
  BY <1>23 DEF CobraFlags, FlagNames, Orderly
<1>25. s = ReadWords(ws, init, known, anywhere)
  BY <1>7, <1>23
<1>26. /\ LastSays(s.rpc, Given(parts, 0, Len(parts), "rpc"), Values(parts), init.rpc)
       /\ LastSays(s.timeout, Given(parts, 0, Len(parts), "timeout"), Times(parts), init.timeout)
  BY <1>2, <1>6, <1>22, <1>24, <1>25, LineTaken
<1>27. Counting(l, "rpc") = Given(parts, 0, Len(parts), "rpc") /\ Counting(l, "timeout") = Given(parts, 0, Len(parts), "timeout")
  BY <1>1 DEF Counting
<1>28. UsualTimeout(l) = CobraTimeout(l.timeoutEnv)
  BY DEF UsualTimeout
<1>29. Len(l.command) > 0 /\ set.cmd = l.command[Len(l.command)]
  BY <1>1, <1>3, <1>17, <1>20, <1>21, <1>22
<1> QED
  BY <1>1, <1>6, <1>21, <1>26, <1>27, <1>28, <1>29, Zenon DEF TakenFor

\* Whatever the program.
LEMMA SettingsAre ==
  ASSUME NEW l \in Launches
  PROVE  TakenFor(l, Settings(l))
<1>1. PICK set : set = Settings(l)
  OBVIOUS
<1>2. l.tool \in {"qikchain", "qikchaind", "cobra"}
  BY QueriesAssumption
<1>3. CASE l.tool = "qikchain"
  <2>1. set = Qikchain(l.words)
    BY <1>1, <1>3 DEF Settings
  <2>2. TakenFor(l, set)
    BY <1>3, <2>1, QikchainIs, Zenon
  <2> QED
    BY <1>1, <2>2
<1>4. CASE l.tool = "qikchaind"
  <2>1. set = Qikchaind(l)
    BY <1>1, <1>4 DEF Settings
  <2>2. TakenFor(l, set)
    BY <1>4, <2>1, QikchaindIs, Zenon
  <2> QED
    BY <1>1, <2>2
<1>5. CASE l.tool = "cobra"
  <2>1. set = Cobra(l)
    BY <1>1, <1>5 DEF Settings
  <2>2. TakenFor(l, set)
    BY <1>5, <2>1, CobraIs, Zenon
  <2> QED
    BY <1>1, <2>2
<1> QED
  BY <1>2, <1>3, <1>4, <1>5

\* The last flag of a name is at the greatest place that has one.
LEMMA LastIsMax ==
  ASSUME NEW S \in SUBSET Nat, NEW v, NEW g, NEW default, LastSays(v, S, g, default), S # {}
  PROVE  Max(S) \in S /\ v = g[Max(S)]
<1>1. PICK j \in S : (\A i \in S : i <= j) /\ v = g[j]
  BY DEF LastSays
<1>2. PICK m : m = Max(S)
  OBVIOUS
<1>3. m = CHOOSE x \in S : \A y \in S : x >= y
  BY <1>2, Zenon DEF Max
<1>4. \E x \in S : \A y \in S : x >= y
  BY <1>1
<1>5. m \in S /\ \A y \in S : m >= y
  BY <1>3, <1>4, Zenon
<1>6. m = j
  BY <1>1, <1>5
<1> QED
  BY <1>1, <1>2, <1>6

\* What was taken from the command line stays as it was taken.
Launched == launch \in Launches /\ (settings # None => settings = Settings(launch))

LEMMA LaunchedHolds == ClientsSpec => []Launched
<1>1. ClientsInit => Launched
  BY DEF ClientsInit, QueryInit, Launched
<1>2. Launched /\ [ClientsNext]_clientVars => Launched'
  <2> SUFFICES ASSUME Launched, [ClientsNext]_clientVars PROVE Launched'
    OBVIOUS
  <2>1. CASE Start
    BY <2>1 DEF Launched, Start
  <2>2. CASE UNCHANGED <<launch, settings>>
    BY <2>2 DEF Launched
  <2>3. CASE AQueryStep
    <3>1. Start \/ UNCHANGED <<launch, settings>>
      BY <2>3 DEF AQueryStep, QueryNext, NewBlock, ResetNode, Call, Report, TickerFires, SelectTick, Signal, SelectDone
    <3> QED
      BY <2>1, <2>2, <3>1
  <2>4. CASE ASendStep \/ ACapsStep \/ UNCHANGED clientVars
    <3>1. UNCHANGED <<launch, settings>>
      BY <2>4 DEF ASendStep, ACapsStep, clientVars, queryVars
    <3> QED
      BY <2>2, <3>1
  <2> QED
    BY <2>3, <2>4 DEF ClientsNext
<1> QED
  BY <1>1, <1>2, PTL DEF ClientsSpec

\* The node that the command line names is asked, by the command that it has,
\* within the time that it says, for any line of cmd/qikchain or internal/cli
\* that has its flags as --flag value or --flag=value, and of qikchaind for
\* any such line without --rpc and --timeout.
THEOREM NamedNodeIsAsked == ClientsSpec => []AsksNamedNode
<1>1. Launched => AsksNamedNode
  <2> SUFFICES ASSUME Launched, settings # None, settings.cmd \notin {"usage", "help"},
                      launch.tool = "qikchaind" => FlagsNamed("rpc") = {} /\ FlagsNamed("timeout") = {}
               PROVE  AsTheLineSays
    BY DEF AsksNamedNode, Queries
  <2>1. PICK l \in Launches : l = launch
    BY DEF Launched
  <2>2. PICK set : set = settings /\ set = Settings(l)
    BY <2>1 DEF Launched
  <2>3. TakenFor(l, set)
    BY <2>2, SettingsAre
  <2>4. PICK parts, cmd : parts = l.parts /\ cmd = l.command
    OBVIOUS
  <2>5. /\ parts \in Seq(LineParts) /\ cmd \in Commands[l.tool] /\ l.tool \in {"qikchain", "qikchaind", "cobra"}
    BY <2>4, LaunchIs
  <2>6. /\ Len(cmd) > 0 /\ set.cmd = cmd[Len(cmd)]
        /\ LastSays(set.rpc, Counting(l, "rpc"), Values(parts), RpcFromEnv(l.rpcEnv))
        /\ LastSays(set.timeout, Counting(l, "timeout"), Times(parts), UsualTimeout(l))
    BY <2>2, <2>3, <2>4 DEF TakenFor
  <2>7. cmd # <<>> /\ Last(cmd) = cmd[Len(cmd)]
    <3>1. PICK tool \in {"qikchain", "qikchaind", "cobra"} : tool = l.tool
      BY <2>5
    <3> QED
      BY <2>5, <2>6, <3>1, CommandsAre
  <2>8. PICK N \in Nat : N = Len(parts)
    BY <2>5
  <2>9. \A name \in {"rpc", "timeout"} : FlagsNamed(name) = Counting(l, name) /\ FlagsNamed(name) \in SUBSET (1..N)
    <3>1. CASE l.tool = "qikchaind"
      BY <2>1, <2>4, <2>8, <3>1 DEF Counting, Given, FlagsNamed
    <3>2. CASE l.tool # "qikchaind"
      BY <2>1, <2>4, <2>8, <3>2 DEF Counting, Given, FlagsNamed
    <3> QED
      BY <3>1, <3>2
  <2>10. PICK rpcs, times \in SUBSET (1..N) : rpcs = FlagsNamed("rpc") /\ times = FlagsNamed("timeout")
    BY <2>9
  <2>11. LastSays(set.rpc, rpcs, Values(parts), RpcFromEnv(l.rpcEnv)) /\ LastSays(set.timeout, times, Times(parts), UsualTimeout(l))
    BY <2>6, <2>9, <2>10
  <2>15. rpcs \in SUBSET Nat /\ times \in SUBSET Nat
    OBVIOUS
  <2>12. set.rpc = IF rpcs # {} THEN parts[Max(rpcs)].value ELSE IF l.rpcEnv = "" THEN DefaultRpc ELSE l.rpcEnv
    <3>1. CASE rpcs = {}
      BY <2>11, <3>1 DEF LastSays, RpcFromEnv
    <3>2. CASE rpcs # {}
      <4>1. Max(rpcs) \in 1..N /\ set.rpc = Values(parts)[Max(rpcs)]
        BY <2>11, <2>15, <3>2, LastIsMax
      <4> QED
        BY <2>8, <3>2, <4>1 DEF Values
    <3> QED
      BY <3>1, <3>2
  <2>13. set.timeout = IF times # {} THEN Seconds(parts[Max(times)].value) ELSE UsualTimeout(l)
    <3>1. CASE times = {}
      BY <2>11, <3>1 DEF LastSays
    <3>2. CASE times # {}
      <4>1. Max(times) \in 1..N /\ set.timeout = Times(parts)[Max(times)]
        BY <2>11, <2>15, <3>2, LastIsMax
      <4> QED
        BY <2>8, <3>2, <4>1 DEF Times
    <3> QED
      BY <3>1, <3>2
  <2>14. UsualTimeout(l) = IF \/ l.timeoutEnv.kind = "duration" /\ l.tool # "qikchain"
                              \/ l.timeoutEnv.kind = "number" /\ l.timeoutEnv.seconds > 0 /\ l.tool = "cobra"
                           THEN l.timeoutEnv.seconds ELSE 5
    BY <2>5 DEF UsualTimeout, CobraTimeout, DaemonTimeout
  <2> QED
    BY <2>1, <2>2, <2>4, <2>6, <2>7, <2>10, <2>12, <2>13, <2>14, Zenon DEF AsTheLineSays
<1> QED
  BY <1>1, LaunchedHolds, PTL

----------------------------------------------------------------------------
(* Senders: what holds of every state *)

\* Where a sender can be.
Places == {"off", "new", "params", "estimate", "send", "wait", "exited"}

\* Before the node is sent anything.
Early == {"off", "new", "params", "estimate", "send"}

\* What it may have said of a receipt.
Told == [mined : BOOLEAN, ok : BOOLEAN \cup {Unset}, address : BOOLEAN \cup {Unset}]

\* What the state of a sender is made of.
Process == [pc : Places, job : Jobs \cup {Unset}, nonce : Nat \cup {Unset}, capped : BOOLEAN, exit : Nat \cup {Unset},
            told : Told \cup {Unset}, refused : BOOLEAN, after : SUBSET Senders]

\* What the state of the node and its senders is made of.
SendTypes ==
  /\ blocks \in Seq([by : Senders, ok : BOOLEAN])
  /\ pool \in [DOMAIN pool -> Senders] /\ DOMAIN pool \subseteq Nat
  /\ restarts \in Nat
  /\ proc \in [Senders -> Process]
  /\ afloat \subseteq Senders /\ took \subseteq Senders

\* What has become of a sender's transaction agrees with where the sender is,
\* and what it told is so.
SentOK(p) ==
  /\ proc[p].pc \in Early => p \notin took /\ p \notin afloat
  /\ proc[p].pc = "wait" => p \in took
  /\ p \in afloat => proc[p].pc = "exited" /\ p \notin took /\ proc[p].exit # 0
  /\ proc[p].pc \in {"off", "new"} <=> proc[p].job = Unset
  /\ proc[p].pc \in {"estimate", "send", "wait"} \/ p \in took \/ p \in afloat => proc[p].nonce # Unset
  /\ proc[p].pc \in {"off", "new", "params"} => proc[p].nonce = Unset
  /\ proc[p].nonce # Unset => proc[p].job # Unset
  /\ proc[p].pc = "exited" <=> proc[p].exit # Unset
  /\ proc[p].capped => proc[p].job # Unset /\ proc[p].job.action = "deploy" /\ proc[p].job.cap
  /\ \A q \in proc[p].after : proc[q].pc = "exited"

\* What a sender that ends with 0 told is so.
ToldOK(p) ==
  LET told == proc[p].told IN
  proc[p].exit = 0 =>
    /\ p \in took /\ told \in Told
    /\ told.mined => InBlock(p, told.ok)
    /\ proc[p].job.tool = "txsmoke" => told.mined /\ told.ok
    /\ told.address = TRUE => told.ok \/ proc[p].job.cap

\* The blocks and the pool hold each transaction at its nonce; none is lost
\* without a restart.
PlacedOK ==
  /\ \A n \in DOMAIN pool : n >= Len(blocks) /\ pool[n] \in took /\ proc[pool[n]].nonce = n
  /\ \A i \in DOMAIN blocks :
       LET p == blocks[i].by IN
       /\ p \in took /\ proc[p].nonce = i - 1
       /\ blocks[i].ok \/ proc[p].capped \/ proc[p].job.action = "raw"
  /\ restarts = 0 => \A p \in took : p \in Range(pool) \/ \E ok \in BOOLEAN : InBlock(p, ok)

\* As long as the node keeps its pool and nobody else signs, there is no gap
\* in it, and no sender has a nonce that would make one.
Ready(k) ==
  /\ DOMAIN pool = Len(blocks)..(Len(blocks) + k - 1)
  /\ \A p \in Senders : proc[p].nonce # Unset => proc[p].nonce <= Len(blocks) + k
GapOK == restarts > 0 \/ FromOutside \/ \E k \in Nat : Ready(k)

\* Who may have taken the nonce of p: a sender that ran at the same time, or
\* one that had failed and whose transaction arrived late.
Blames(p, q) ==
  /\ q # p /\ proc[q].nonce # Unset
  /\ \/ q \notin proc[p].after /\ p \notin proc[q].after
     \/ q \in took /\ proc[q].exit \notin {0, Unset}
BlameOK(p) ==
  proc[p].job # Unset /\ proc[p].job.action # "raw" /\ proc[p].nonce # Unset
    /\ (proc[p].refused \/ (proc[p].pc \in {"estimate", "send"} /\ ~Accepts(proc[p].nonce))) =>
    \E q \in Senders : Blames(p, q)
RefusedOK(p) == proc[p].refused => proc[p].pc = "exited" /\ proc[p].nonce # Unset

\* The inductive invariant of the senders.
SendersInv ==
  /\ SendTypes /\ PlacedOK /\ GapOK
  /\ \A p \in Senders : SentOK(p) /\ ToldOK(p) /\ BlameOK(p) /\ RefusedOK(p)

----------------------------------------------------------------------------
\* A sender that has not ended goes to another state of itself: what it was
\* started with, its nonce once it has one, and whom it had seen end, stay.
Moves(p, e) ==
  /\ e \in Process /\ proc' = [proc EXCEPT ![p] = e]
  /\ proc[p].pc # "exited"
  /\ proc[p].job # Unset => e.job = proc[p].job /\ e.after = proc[p].after
  /\ proc[p].nonce # Unset => e.nonce = proc[p].nonce
  /\ p \in took => e.capped = proc[p].capped

\* Nobody else notices.
LEMMA OthersSame ==
  ASSUME SendersInv, NEW p \in Senders, NEW e, Moves(p, e), took \subseteq took'
  PROVE  /\ proc' \in [Senders -> Process] /\ proc'[p] = e /\ \A q \in Senders \ {p} : proc'[q] = proc[q]
         /\ \A r, q \in Senders : proc[r].job # Unset /\ Blames(r, q) => Blames(r, q)'
         /\ FromOutside => FromOutside'
<1>1. proc \in [Senders -> Process] /\ took \subseteq Senders /\ \A q \in Senders : SentOK(q)
  BY DEF SendersInv, SendTypes
<1>2. proc' \in [Senders -> Process] /\ proc'[p] = e /\ \A q \in Senders \ {p} : proc'[q] = proc[q]
  BY <1>1 DEF Moves
<1>3. ASSUME NEW r \in Senders, NEW q \in Senders, proc[r].job # Unset, Blames(r, q)
      PROVE  Blames(r, q)'
  <2>1. proc'[r].after = proc[r].after
    BY <1>2, <1>3 DEF Moves
  <2>2. proc'[q].after = proc[q].after /\ proc'[q].nonce = proc[q].nonce
    BY <1>1, <1>2, <1>3 DEF Moves, Blames, SentOK
  <2>3. q \in took /\ proc[q].exit \notin {0, Unset} => q # p
    BY <1>1 DEF Moves, SentOK
  <2> QED
    BY <1>2, <1>3, <2>1, <2>2, <2>3 DEF Blames
<1>4. ASSUME FromOutside PROVE FromOutside'
  BY <1>1, <1>2, <1>4 DEF FromOutside, Moves
<1> QED
  BY <1>2, <1>3, <1>4

\* A step that puts nothing into the pool and nothing into a block.
LEMMA PlacesSame ==
  ASSUME SendersInv, NEW p \in Senders, NEW e, Moves(p, e), UNCHANGED <<blocks, pool, restarts, took>>,
         afloat' \in {afloat, afloat \cup {p}}
  PROVE  /\ SendTypes' /\ PlacedOK'
         /\ \A q \in Senders \ {p} : SentOK(q)' /\ ToldOK(q)' /\ BlameOK(q)' /\ RefusedOK(q)'
         /\ e.nonce = proc[p].nonce => GapOK'
<1>1. /\ proc' \in [Senders -> Process] /\ proc'[p] = e /\ \A q \in Senders \ {p} : proc'[q] = proc[q]
      /\ \A r, q \in Senders : proc[r].job # Unset /\ Blames(r, q) => Blames(r, q)'
      /\ FromOutside => FromOutside'
  BY OthersSame
<1>2. /\ SendTypes /\ PlacedOK /\ GapOK
      /\ \A q \in Senders : SentOK(q) /\ ToldOK(q) /\ BlameOK(q) /\ RefusedOK(q)
  BY DEF SendersInv
<1>3. SendTypes'
  BY <1>1, <1>2 DEF SendTypes
<1>4. \A q \in Senders : q \in took => /\ proc'[q].nonce = proc[q].nonce /\ proc'[q].capped = proc[q].capped
                                       /\ proc'[q].job = proc[q].job
  BY <1>1, <1>2 DEF SentOK, Moves
<1>5. PlacedOK'
  BY <1>2, <1>4, SMTT(30) DEF PlacedOK, SendTypes, InBlock
<1>6. ASSUME NEW q \in Senders \ {p} PROVE SentOK(q)' /\ ToldOK(q)' /\ BlameOK(q)' /\ RefusedOK(q)'
  <2>1. SentOK(q)'
    BY <1>1, <1>2 DEF SentOK, Moves
  <2>2. ToldOK(q)' /\ RefusedOK(q)'
    BY <1>1, <1>2 DEF ToldOK, RefusedOK, InBlock
  <2>3. BlameOK(q)'
    BY <1>1, <1>2 DEF BlameOK, Accepts
  <2> QED
    BY <2>1, <2>2, <2>3
<1>7. ASSUME e.nonce = proc[p].nonce PROVE GapOK'
  <2>1. \A q \in Senders : proc'[q].nonce = proc[q].nonce
    BY <1>1, <1>7
  <2>2. \A k \in Nat : Ready(k) => Ready(k)'
    BY <2>1 DEF Ready
  <2> QED
    BY <1>1, <1>2, <2>2 DEF GapOK
<1> QED
  BY <1>3, <1>5, <1>6, <1>7

\* The node's next nonce is free.
LEMMA PendingIs ==
  ASSUME SendersInv
  PROVE  /\ PendingNonce \in Nat /\ Accepts(PendingNonce)
         /\ \A k \in Nat : Ready(k) => PendingNonce = Len(blocks) + k
<1>1. /\ pool \in [DOMAIN pool -> Senders] /\ DOMAIN pool \subseteq Nat /\ Len(blocks) \in Nat /\ NumSenders \in Nat
      /\ \A n \in DOMAIN pool : proc[pool[n]].nonce = n
  BY SendersAssumption DEF SendersInv, SendTypes, PlacedOK
<1>2. IsFiniteSet(Senders) /\ Cardinality(Senders) = NumSenders
  BY <1>1, FS_Interval DEF Senders
<1>3. pool \in Injection(DOMAIN pool, Senders)
  BY <1>1 DEF Injection, IsInjective
<1>4. IsFiniteSet(DOMAIN pool) /\ Cardinality(DOMAIN pool) <= NumSenders
  BY <1>2, <1>3, FS_Injection DEF ExistsInjection
<1> DEFINE near == Len(blocks)..(Len(blocks) + NumSenders)
           free == near \ DOMAIN pool
<1>5. IsFiniteSet(near) /\ Cardinality(near) = NumSenders + 1
  <2>1. PICK a \in Int, b \in Int : a = Len(blocks) /\ b = Len(blocks) + NumSenders
    BY <1>1
  <2>2. IsFiniteSet(a..b) /\ Cardinality(a..b) = IF a > b THEN 0 ELSE b - a + 1
    BY FS_Interval
  <2> QED
    BY <1>1, <2>1, <2>2
<1>6. free # {}
  <2> SUFFICES ASSUME near \subseteq DOMAIN pool PROVE FALSE
    OBVIOUS
  <2>1. Cardinality(near) <= Cardinality(DOMAIN pool)
    BY <1>4, FS_Subset
  <2>2. Cardinality(DOMAIN pool) \in Nat
    BY <1>4, FS_CardinalityType
  <2> QED
    BY <1>1, <1>4, <1>5, <2>1, <2>2
<1>7. free \in SUBSET Nat
  BY <1>1
<1>8. \E n \in free : \A m \in free : n <= m
  BY <1>6, <1>7, Smallest
<1>9. PendingNonce \in free /\ \A m \in free : PendingNonce <= m
  BY <1>8 DEF PendingNonce, First
<1>10. ASSUME NEW k \in Nat, Ready(k) PROVE PendingNonce = Len(blocks) + k
  <2>1. DOMAIN pool = Len(blocks)..(Len(blocks) + k - 1)
    BY <1>10 DEF Ready
  <2>2. Cardinality(DOMAIN pool) = k
    <3>1. PICK a \in Int, b \in Int : a = Len(blocks) /\ b = Len(blocks) + k - 1
      BY <1>1
    <3>2. Cardinality(a..b) = IF a > b THEN 0 ELSE b - a + 1
      BY FS_Interval
    <3>3. DOMAIN pool = a..b
      BY <2>1, <3>1
    <3>4. Cardinality(DOMAIN pool) = IF a > b THEN 0 ELSE b - a + 1
      BY <3>2, <3>3, Zenon
    <3>5. (IF a > b THEN 0 ELSE b - a + 1) = k
      BY <1>1, <3>1
    <3> QED
      BY <3>4, <3>5
  <2>3. Len(blocks) + k \in free
    BY <1>1, <1>4, <2>1, <2>2
  <2> QED
    BY <1>1, <1>9, <2>1, <2>3
<1> QED
  BY <1>1, <1>9, <1>10 DEF Accepts

\* The node accepts the transaction of p, which it had not, at once or late.
LEMMA Accepted ==
  ASSUME SendersInv, NEW p \in Senders, p \notin took, proc[p].nonce # Unset, Accepts(proc[p].nonce),
         pool' = Pooled(p), took' = took \cup {p}, UNCHANGED <<blocks, restarts>>,
         afloat' \in SUBSET afloat,
         proc' \in [Senders -> Process], \A q \in Senders \ {p} : proc'[q] = proc[q],
         /\ proc'[p].nonce = proc[p].nonce /\ proc'[p].job = proc[p].job
         /\ proc'[p].capped = proc[p].capped /\ proc'[p].after = proc[p].after,
         proc[p].pc = "exited" => proc'[p].pc = "exited",
         \A r, q \in Senders : proc[r].job # Unset /\ Blames(r, q) => Blames(r, q)',
         \A r \in Senders \ {p} : proc[r].pc \in {"estimate", "send"} => Blames(r, p)'
  PROVE  /\ SendTypes' /\ PlacedOK' /\ GapOK'
         /\ \A q \in Senders \ {p} : SentOK(q)' /\ ToldOK(q)' /\ BlameOK(q)' /\ RefusedOK(q)'
<1>1. /\ SendTypes /\ PlacedOK /\ GapOK
      /\ \A q \in Senders : SentOK(q) /\ ToldOK(q) /\ BlameOK(q) /\ RefusedOK(q)
  BY DEF SendersInv
<1>2. PICK n \in Nat : n = proc[p].nonce
  BY <1>1 DEF SendTypes, Process
<1>3. /\ pool' = [m \in DOMAIN pool \cup {n} |-> IF m = n THEN p ELSE pool[m]]
      /\ n >= Len(blocks) /\ n \notin DOMAIN pool
  BY <1>2 DEF Pooled, Accepts
<1>4. /\ DOMAIN pool' = DOMAIN pool \cup {n} /\ pool'[n] = p
      /\ \A m \in DOMAIN pool : pool'[m] = pool[m] /\ m # n
  BY <1>3
<1>5. SendTypes'
  <2>1. pool' \in [DOMAIN pool' -> Senders]
    BY <1>1, <1>3 DEF SendTypes
  <2>2. DOMAIN pool' \subseteq Nat /\ afloat' \subseteq Senders /\ took' \subseteq Senders
    BY <1>1, <1>2, <1>4 DEF SendTypes
  <2> QED
    BY <1>1, <2>1, <2>2 DEF SendTypes
<1>6. \A q \in Senders : /\ proc'[q].nonce = proc[q].nonce /\ proc'[q].job = proc[q].job
                         /\ proc'[q].capped = proc[q].capped
  OBVIOUS
<1>7. PlacedOK'
  <2>1. \A m \in DOMAIN pool' : m >= Len(blocks') /\ pool'[m] \in took' /\ proc'[pool'[m]].nonce = m
    BY <1>1, <1>2, <1>3, <1>4, <1>6 DEF PlacedOK, SendTypes
  <2>2. \A i \in DOMAIN blocks' :
          LET q == blocks'[i].by IN
          /\ q \in took' /\ proc'[q].nonce = i - 1
          /\ blocks'[i].ok \/ proc'[q].capped \/ proc'[q].job.action = "raw"
    BY <1>1, <1>6 DEF PlacedOK, SendTypes
  <2>3. restarts' = 0 => \A q \in took' : q \in Range(pool') \/ \E ok \in BOOLEAN : InBlock(q, ok)'
    <3>1. \A q : q \in Range(pool) => q \in Range(pool')
      BY <1>4 DEF Range
    <3>2. p \in Range(pool')
      BY <1>4 DEF Range
    <3>3. \A q, ok : InBlock(q, ok) <=> InBlock(q, ok)'
      BY DEF InBlock
    <3> QED
      BY <1>1, <3>1, <3>2, <3>3, Zenon DEF PlacedOK
  <2> QED
    BY <2>1, <2>2, <2>3 DEF PlacedOK
<1>8. GapOK'
  <2>1. FromOutside => FromOutside'
    BY <1>6 DEF FromOutside
  <2>2. ASSUME NEW k \in Nat, Ready(k) PROVE Ready(k + 1)'
    <3>1. DOMAIN pool = Len(blocks)..(Len(blocks) + k - 1) /\ n <= Len(blocks) + k /\ Len(blocks) \in Nat
      BY <1>1, <1>2, <2>2 DEF Ready, SendTypes
    <3>2. n = Len(blocks) + k
      BY <1>2, <1>3, <3>1
    <3>3. DOMAIN pool' = Len(blocks)..(Len(blocks) + (k + 1) - 1)
      BY <1>4, <3>1, <3>2
    <3>4. \A q \in Senders : proc[q].nonce # Unset => proc[q].nonce <= Len(blocks) + (k + 1)
      BY <1>1, <2>2, <3>1, SendersAssumption DEF Ready, SendTypes, Process
    <3> QED
      BY <1>6, <3>3, <3>4 DEF Ready
  <2> QED
    BY <1>1, <2>1, <2>2 DEF GapOK
<1>9. ASSUME NEW q \in Senders \ {p} PROVE SentOK(q)' /\ ToldOK(q)' /\ BlameOK(q)' /\ RefusedOK(q)'
  <2>1. SentOK(q)'
    <3>1. proc'[q] = proc[q] /\ SentOK(q) /\ (q \in took' <=> q \in took) /\ (q \in afloat' => q \in afloat)
      BY <1>1
    <3>2. proc[q].after \subseteq Senders
      BY <1>1 DEF SendTypes, Process
    <3>3. \A r \in Senders : proc[r].pc = "exited" => proc'[r].pc = "exited"
      OBVIOUS
    <3>4. \A r \in proc'[q].after : proc'[r].pc = "exited"
      BY <3>1, <3>2, <3>3 DEF SentOK
    <3> QED
      BY <3>1, <3>4 DEF SentOK
  <2>2. ToldOK(q)' /\ RefusedOK(q)'
    BY <1>1 DEF ToldOK, RefusedOK, InBlock
  <2>3. BlameOK(q)'
    <3> SUFFICES ASSUME proc[q].job # Unset, proc[q].job.action # "raw", proc[q].nonce # Unset,
                        proc[q].refused \/ (proc[q].pc \in {"estimate", "send"} /\ ~Accepts(proc[q].nonce)')
                 PROVE  \E r \in Senders : Blames(q, r)'
      BY DEF BlameOK, Accepts
    <3>1. CASE proc[q].refused \/ ~Accepts(proc[q].nonce)
      BY <1>1, <3>1 DEF BlameOK
    <3>2. CASE ~proc[q].refused /\ Accepts(proc[q].nonce)
      BY <3>2
    <3> QED
      BY <3>1, <3>2
  <2> QED
    BY <2>1, <2>2, <2>3
<1> QED
  BY <1>5, <1>7, <1>8, <1>9

\* A transaction in a block has a sender and has done what it should or not.
LEMMA BlockIs ==
  ASSUME SendTypes, NEW i \in DOMAIN blocks
  PROVE  blocks[i].ok \in BOOLEAN /\ blocks[i] = [by |-> blocks[i].by, ok |-> blocks[i].ok]
<1>1. PICK S : S = [by : Senders, ok : BOOLEAN]
  OBVIOUS
<1>2. blocks[i] \in S
  <2>1. blocks \in Seq(S)
    BY <1>1 DEF SendTypes
  <2> QED
    BY <2>1
<1> QED
  BY <1>1, <1>2

\* What a sender is that has ended.
LEMMA ExitIs ==
  ASSUME NEW p \in Senders, proc[p] \in Process, NEW status \in Nat, NEW told \in Told \cup {Unset},
         NEW e, e = Exit(p, status, told)
  PROVE  /\ e \in Process /\ e.pc = "exited" /\ e.nonce = proc[p].nonce /\ e.job = proc[p].job /\ e.after = proc[p].after
         /\ e.capped = proc[p].capped /\ e.exit = status /\ e.refused = proc[p].refused /\ e.told = told
<1> QED
  BY DEF Process, Places, Exit

\* To tell that a transaction is not mined is to tell something.
LEMMA UnminedIs ==
  Unmined \in Told /\ ~Unmined.mined /\ Unmined.address # TRUE
<1>1. Unset \notin BOOLEAN
  BY SendersAssumption
<1>2. Unset # TRUE
  BY <1>1, Zenon
<1>3. Unmined.address = Unset /\ Unmined.mined = FALSE
  BY DEF Unmined
<1>4. Unmined \in Told
  BY DEF Unmined, Told
<1> QED
  BY <1>2, <1>3, <1>4, Zenon

\* A step of p that puts nothing into the pool, from what it does to p.
LEMMA PlacesKept ==
  ASSUME SendersInv, NEW p \in Senders, NEW e, Moves(p, e), UNCHANGED <<blocks, pool, restarts, took>>,
         afloat' \in {afloat, afloat \cup {p}},
         e.nonce = proc[p].nonce, SentOK(p)', ToldOK(p)', BlameOK(p)', RefusedOK(p)'
  PROVE  SendersInv'
<1>1. /\ SendTypes' /\ PlacedOK' /\ GapOK'
      /\ \A q \in Senders \ {p} : SentOK(q)' /\ ToldOK(q)' /\ BlameOK(q)' /\ RefusedOK(q)'
  BY PlacesSame
<1> QED
  BY <1>1 DEF SendersInv

\* A sender that ends with a failure, whatever it was doing.
LEMMA EndsBadly ==
  ASSUME SendersInv, NEW p \in Senders, NEW e \in Process, proc' = [proc EXCEPT ![p] = e],
         UNCHANGED <<blocks, pool, restarts, took>>, Busy(p),
         afloat' \in {afloat} \cup (IF proc[p].pc = "send" THEN {afloat \cup {p}} ELSE {}),
         e.pc = "exited", e.exit \notin {0, Unset}, e.refused = proc[p].refused,
         e.nonce = proc[p].nonce, e.job = proc[p].job, e.after = proc[p].after, e.capped = proc[p].capped
  PROVE  SendersInv'
<1>1. /\ SendTypes /\ proc[p] \in Process
      /\ SentOK(p) /\ ToldOK(p) /\ BlameOK(p) /\ RefusedOK(p)
  BY DEF SendersInv, SendTypes
<1>2. Moves(p, e) /\ ~e.refused
  BY <1>1 DEF Moves, Busy, RefusedOK, Process
<1>3. afloat' \in {afloat, afloat \cup {p}} /\ (p \in afloat' /\ p \notin afloat => proc[p].pc = "send")
  OBVIOUS
<1>4. proc'[p] = e /\ \A q \in Senders \ {p} : proc'[q] = proc[q]
  BY <1>1 DEF SendTypes
<1>5. SentOK(p)'
  <2>1. \A q \in proc'[p].after : proc'[q].pc = "exited"
    BY <1>1, <1>4 DEF SentOK, Process
  <2>2. proc[p].job # Unset /\ p \notin afloat
    BY <1>1 DEF SentOK, Busy
  <2> QED
    BY <1>1, <1>3, <1>4, <2>1, <2>2 DEF SentOK, Early, Busy
<1>6. ToldOK(p)' /\ RefusedOK(p)' /\ BlameOK(p)'
  BY <1>2, <1>4 DEF ToldOK, RefusedOK, BlameOK
<1> QED
  BY <1>2, <1>3, <1>5, <1>6, PlacesKept

\* A sender is started.
LEMMA LaunchKeeps ==
  ASSUME SendersInv, NEW p \in Senders, NEW job \in Jobs, Launch(p, job)
  PROVE  SendersInv'
<1>1. /\ SendTypes /\ proc[p] \in Process /\ proc[p].pc = "new"
      /\ SentOK(p) /\ ToldOK(p) /\ BlameOK(p) /\ RefusedOK(p)
  BY DEF SendersInv, SendTypes, Launch
<1>2. /\ proc[p].job = Unset /\ proc[p].nonce = Unset /\ ~proc[p].capped /\ proc[p].exit = Unset /\ ~proc[p].refused
      /\ p \notin took /\ p \notin afloat
  BY <1>1 DEF SentOK, RefusedOK, Early, Process
<1>3. PICK job0 \in JobKinds : job0 = job /\ job0 # Unset
  BY SendersAssumption
<1>4. UNCHANGED <<blocks, pool, restarts, took, afloat>>
  BY DEF Launch, chain
<1>5. PICK ended \in SUBSET Senders : ended = {q \in Senders : proc[q].pc = "exited"}
  OBVIOUS
<1>6. p \notin ended /\ \A q \in ended : proc[q].pc = "exited"
  BY <1>1, <1>5
<1> DEFINE Begun(e) == /\ e \in Process /\ e.job = job /\ e.after = ended /\ ~e.capped /\ ~e.refused
<1>7. \E e : /\ Begun(e) /\ proc' = [proc EXCEPT ![p] = e]
             /\ \/ e.pc = "exited" /\ e.exit \in {1, 2} /\ e.nonce = Unset
                \/ e.pc = "params" /\ e.exit = Unset /\ e.nonce = Unset
                \/ e.pc = "send" /\ e.exit = Unset /\ e.nonce \in Nat /\ job.action = "raw"
  <2> DEFINE begun == [proc[p] EXCEPT !.job = job, !.after = ended]
  <2>1. /\ begun \in Process /\ Begun(begun) /\ begun.nonce = Unset /\ begun.exit = Unset
    BY <1>1, <1>2, <1>5 DEF Process
  <2> HIDE DEF begun
  <2>2. CASE job.args = "unreadable"
    <3>1. proc' = [proc EXCEPT ![p] = [begun EXCEPT !.pc = "exited", !.exit = 2]]
      BY <2>2, <1>5 DEF Launch, Becomes, begun
    <3>2. 2 \in Nat
      OBVIOUS
    <3>4. PICK e : e = [begun EXCEPT !.pc = "exited", !.exit = 2]
      OBVIOUS
    <3>3. Begun(e) /\ e.pc = "exited" /\ e.exit \in {1, 2} /\ e.nonce = Unset
      BY <2>1, <3>2, <3>4 DEF Process, Places
    <3> QED
      BY <3>1, <3>3, <3>4
  <2>3. CASE job.args = "wrong"
    <3>1. proc' = [proc EXCEPT ![p] = [begun EXCEPT !.pc = "exited", !.exit = 1]]
      BY <2>3, <1>5 DEF Launch, Becomes, begun
    <3>4. PICK e : e = [begun EXCEPT !.pc = "exited", !.exit = 1]
      OBVIOUS
    <3>3. Begun(e) /\ e.pc = "exited" /\ e.exit \in {1, 2} /\ e.nonce = Unset
      BY <2>1, <3>4 DEF Process, Places
    <3> QED
      BY <3>1, <3>3, <3>4
  <2>4. CASE job.args = "good" /\ job.action # "raw"
    <3>1. proc' = [proc EXCEPT ![p] = [begun EXCEPT !.pc = "params"]]
      BY <2>4, <1>5 DEF Launch, Becomes, begun
    <3>4. PICK e : e = [begun EXCEPT !.pc = "params"]
      OBVIOUS
    <3>3. Begun(e) /\ e.pc = "params" /\ e.exit = Unset /\ e.nonce = Unset
      BY <2>1, <3>4 DEF Process, Places
    <3> QED
      BY <3>1, <3>3, <3>4
  <2>5. CASE job.args = "good" /\ job.action = "raw"
    <3>1. \E n \in 0..PendingNonce : proc' = [proc EXCEPT ![p] = [begun EXCEPT !.pc = "send", !.nonce = n]]
      BY <2>5, <1>5 DEF Launch, Becomes, begun
    <3>2. PICK n \in Nat : proc' = [proc EXCEPT ![p] = [begun EXCEPT !.pc = "send", !.nonce = n]]
      <4>1. PendingNonce \in Nat
        BY PendingIs
      <4>2. 0..PendingNonce \subseteq Nat
        BY <4>1
      <4> QED
        BY <3>1, <4>2, Zenon
    <3>4. PICK e : e = [begun EXCEPT !.pc = "send", !.nonce = n]
      OBVIOUS
    <3>3. Begun(e) /\ e.pc = "send" /\ e.exit = Unset /\ e.nonce \in Nat
      BY <2>1, <3>4 DEF Process, Places
    <3> QED
      BY <2>5, <3>2, <3>3, <3>4
  <2> QED
    BY <1>3, <2>2, <2>3, <2>4, <2>5 DEF JobKinds
<1>8. PICK e : /\ Begun(e) /\ proc' = [proc EXCEPT ![p] = e]
               /\ \/ e.pc = "exited" /\ e.exit \in {1, 2} /\ e.nonce = Unset
                  \/ e.pc = "params" /\ e.exit = Unset /\ e.nonce = Unset
                  \/ e.pc = "send" /\ e.exit = Unset /\ e.nonce \in Nat /\ job.action = "raw"
  BY <1>7
<1>9. Moves(p, e)
  BY <1>1, <1>2, <1>8 DEF Moves
<1>10. proc'[p] = e /\ \A q \in Senders \ {p} : proc'[q] = proc[q]
  BY <1>1, <1>8 DEF SendTypes
<1>11. SentOK(p)'
  <2>1. \A q \in proc'[p].after : proc'[q].pc = "exited"
    BY <1>6, <1>5, <1>8, <1>10
  <2> QED
    BY <1>2, <1>3, <1>4, <1>8, <1>10, <2>1, SendersAssumption DEF SentOK, Early
<1>12. ToldOK(p)' /\ RefusedOK(p)'
  BY <1>3, <1>8, <1>10, SendersAssumption DEF ToldOK, RefusedOK
<1>13. BlameOK(p)'
  BY <1>8, <1>10 DEF BlameOK
<1>14. /\ SendTypes' /\ PlacedOK' /\ (e.nonce = proc[p].nonce => GapOK')
       /\ \A q \in Senders \ {p} : SentOK(q)' /\ ToldOK(q)' /\ BlameOK(q)' /\ RefusedOK(q)'
  BY <1>4, <1>9, PlacesSame
<1>15. job.action = "raw" => FromOutside'
  BY <1>3, <1>8, <1>10 DEF FromOutside
<1>16. GapOK'
  BY <1>2, <1>8, <1>14, <1>15 DEF GapOK
<1> QED
  BY <1>11, <1>12, <1>13, <1>14, <1>16 DEF SendersInv

\* It asks for its nonce.
LEMMA TxParamsKeeps ==
  ASSUME SendersInv, NEW p \in Senders, TxParams(p)
  PROVE  SendersInv'
<1>1. /\ SendTypes /\ proc[p] \in Process /\ proc[p].pc = "params"
      /\ SentOK(p) /\ ToldOK(p) /\ BlameOK(p) /\ RefusedOK(p) /\ GapOK
  BY DEF SendersInv, SendTypes, TxParams
<1>2. UNCHANGED <<blocks, pool, restarts, took, afloat>>
  BY DEF TxParams, chain
<1>3. proc[p].nonce = Unset /\ proc[p].exit = Unset /\ ~proc[p].refused /\ p \notin took /\ p \notin afloat
  BY <1>1 DEF SentOK, RefusedOK, Early, Process
<1>4. PendingNonce \in Nat /\ Accepts(PendingNonce) /\ \A k \in Nat : Ready(k) => PendingNonce = Len(blocks) + k
  BY PendingIs
<1>5. CASE baseFee
  <2>1. PICK n \in Nat : n = PendingNonce
    BY <1>4
  <2>2. PICK e : e = [proc[p] EXCEPT !.pc = "estimate", !.nonce = n]
    OBVIOUS
  <2>3. /\ e \in Process /\ e.pc = "estimate" /\ e.nonce = n /\ e.job = proc[p].job /\ e.after = proc[p].after
        /\ e.capped = proc[p].capped /\ e.exit = proc[p].exit /\ e.refused = proc[p].refused /\ e.told = proc[p].told
    BY <1>1, <2>2 DEF Process, Places
  <2>4. proc' = [proc EXCEPT ![p] = e]
    BY <1>5, <2>1, <2>2 DEF TxParams, Becomes
  <2>5. Moves(p, e)
    BY <1>1, <1>3, <2>3, <2>4 DEF Moves
  <2>6. proc'[p] = e /\ \A q \in Senders \ {p} : proc'[q] = proc[q]
    BY <1>1, <2>4 DEF SendTypes
  <2>7. SentOK(p)'
    <3>1. \A q \in proc'[p].after : proc'[q].pc = "exited"
      BY <1>1, <2>3, <2>6 DEF SentOK, Process
    <3> QED
      BY <1>1, <1>2, <1>3, <2>3, <2>6, <3>1, SendersAssumption DEF SentOK, Early
  <2>8. ToldOK(p)' /\ RefusedOK(p)'
    BY <1>3, <2>3, <2>6, SendersAssumption DEF ToldOK, RefusedOK
  <2>9. BlameOK(p)'
    BY <1>2, <1>3, <1>4, <2>1, <2>3, <2>6 DEF BlameOK, Accepts
  <2>10. /\ SendTypes' /\ PlacedOK'
         /\ \A q \in Senders \ {p} : SentOK(q)' /\ ToldOK(q)' /\ BlameOK(q)' /\ RefusedOK(q)'
    BY <1>2, <2>5, PlacesSame
  <2>11. GapOK'
    <3>1. FromOutside => FromOutside'
      BY <1>2, <2>5, OthersSame
    <3>2. ASSUME NEW k \in Nat, Ready(k) PROVE Ready(k)'
      <4>1. n = Len(blocks) + k /\ Len(blocks) \in Nat
        BY <1>1, <1>4, <2>1, <3>2 DEF SendTypes
      <4>2. n <= Len(blocks) + k
        BY <4>1
      <4> QED
        BY <1>2, <2>3, <2>6, <3>2, <4>2 DEF Ready
    <3> QED
      BY <1>1, <1>2, <3>1, <3>2 DEF GapOK
  <2> QED
    BY <2>7, <2>8, <2>9, <2>10, <2>11 DEF SendersInv
<1>6. CASE ~baseFee
  <2>1. PICK e : e = Exit(p, 1, Unset)
    OBVIOUS
  <2>2. /\ e \in Process /\ e.pc = "exited" /\ e.nonce = proc[p].nonce /\ e.job = proc[p].job /\ e.after = proc[p].after
        /\ e.capped = proc[p].capped /\ e.exit = 1 /\ e.refused = proc[p].refused /\ e.told = Unset
    BY <1>1, <2>1 DEF Process, Places, Exit
  <2>3. proc' = [proc EXCEPT ![p] = e]
    BY <1>6, <2>1 DEF TxParams, Becomes
  <2> QED
    <3>1. Busy(p) /\ e.exit \notin {0, Unset}
      BY <1>1, <2>2, SendersAssumption DEF Busy
    <3> QED
      BY <1>2, <2>2, <2>3, <3>1, EndsBadly
<1> QED
  BY <1>5, <1>6

\* It asks what gas it needs.
LEMMA EstimateGasKeeps ==
  ASSUME SendersInv, NEW p \in Senders, EstimateGas(p)
  PROVE  SendersInv'
<1>1. /\ SendTypes /\ proc[p] \in Process /\ proc[p].pc = "estimate"
      /\ SentOK(p) /\ ToldOK(p) /\ BlameOK(p) /\ RefusedOK(p)
  BY DEF SendersInv, SendTypes, EstimateGas
<1>2. UNCHANGED <<blocks, pool, restarts, took, afloat>>
  BY DEF EstimateGas, chain
<1>3. /\ proc[p].job \in JobKinds /\ proc[p].job # Unset /\ proc[p].nonce # Unset
      /\ ~proc[p].refused /\ p \notin took /\ p \notin afloat /\ proc[p].exit = Unset
  BY <1>1, SendersAssumption DEF SentOK, RefusedOK, Early, Process
<1>4. PICK c : c = (proc[p].job.action = "deploy" /\ proc[p].job.cap)
  OBVIOUS
<1>5. c \in BOOLEAN /\ (c => proc[p].job.action = "deploy" /\ proc[p].job.cap)
  BY <1>3, <1>4 DEF JobKinds
<1>6. PICK e : e = [proc[p] EXCEPT !.pc = "send", !.capped = c]
  OBVIOUS
<1>7. /\ e \in Process /\ e.pc = "send" /\ e.nonce = proc[p].nonce /\ e.job = proc[p].job /\ e.after = proc[p].after
      /\ e.capped = c /\ e.exit = proc[p].exit /\ e.refused = proc[p].refused /\ e.told = proc[p].told
  BY <1>1, <1>5, <1>6 DEF Process, Places
<1>8. proc' = [proc EXCEPT ![p] = e]
  BY <1>4, <1>6 DEF EstimateGas, Becomes
<1>9. Moves(p, e)
  BY <1>1, <1>3, <1>7, <1>8 DEF Moves
<1>10. proc'[p] = e /\ \A q \in Senders \ {p} : proc'[q] = proc[q]
  BY <1>1, <1>8 DEF SendTypes
<1>11. SentOK(p)'
  <2>1. \A q \in proc'[p].after : proc'[q].pc = "exited"
    BY <1>1, <1>7, <1>10 DEF SentOK, Process
  <2> QED
    BY <1>1, <1>2, <1>3, <1>5, <1>7, <1>10, <2>1 DEF SentOK, Early
<1>12. ToldOK(p)' /\ RefusedOK(p)'
  BY <1>3, <1>7, <1>10, SendersAssumption DEF ToldOK, RefusedOK
<1>13. BlameOK(p)'
  <2>1. \A q \in Senders : Blames(p, q) => Blames(p, q)'
    BY <1>2, <1>3, <1>9, OthersSame
  <2> QED
    BY <1>1, <1>2, <1>3, <1>7, <1>10, <2>1 DEF BlameOK, Accepts
<1> QED
  BY <1>2, <1>7, <1>9, <1>11, <1>12, <1>13, PlacesKept

\* It sends.
LEMMA SendKeeps ==
  ASSUME SendersInv, NEW p \in Senders, SendTransaction(p)
  PROVE  SendersInv'
<1>1. /\ SendTypes /\ proc[p] \in Process /\ proc[p].pc = "send"
      /\ \A q \in Senders : SentOK(q)
      /\ ToldOK(p) /\ BlameOK(p) /\ RefusedOK(p)
  BY DEF SendersInv, SendTypes, SendTransaction
<1>2. UNCHANGED <<blocks, restarts, afloat>>
  BY DEF SendTransaction
<1>3. /\ proc[p].job \in JobKinds /\ proc[p].job # Unset /\ proc[p].nonce # Unset
      /\ ~proc[p].refused /\ p \notin took /\ p \notin afloat /\ proc[p].exit = Unset
  BY <1>1, SendersAssumption DEF SentOK, RefusedOK, Early, Process
<1>4. CASE Accepts(proc[p].nonce)
  <2> DEFINE Same(e) == /\ e \in Process /\ e.nonce = proc[p].nonce /\ e.job = proc[p].job /\ e.after = proc[p].after
                        /\ e.capped = proc[p].capped /\ ~e.refused
  <2>1. \E e : /\ Same(e) /\ proc' = [proc EXCEPT ![p] = e]
               /\ \/ e.pc = "wait" /\ e.exit = Unset
                  \/ e.pc = "exited" /\ e.exit = 0 /\ e.told = Unmined /\ proc[p].job.tool # "txsmoke"
                  \/ e.pc = "exited" /\ e.exit = 1
    <3>1. \/ Waits(p) /\ Becomes(p, [proc[p] EXCEPT !.pc = "wait"])
          \/ ~Waits(p) /\ Becomes(p, Exit(p, 0, Unmined))
          \/ Becomes(p, Exit(p, 1, Unset))
      BY <1>4 DEF SendTransaction
    <3>2. CASE Waits(p) /\ Becomes(p, [proc[p] EXCEPT !.pc = "wait"])
      <4>1. PICK e : e = [proc[p] EXCEPT !.pc = "wait"]
        OBVIOUS
      <4>2. Same(e) /\ e.pc = "wait" /\ e.exit = Unset
        BY <1>1, <1>3, <4>1 DEF Process, Places
      <4> QED
        BY <3>2, <4>1, <4>2 DEF Becomes
    <3>3. CASE ~Waits(p) /\ Becomes(p, Exit(p, 0, Unmined))
      <4>1. PICK e : e = Exit(p, 0, Unmined)
        OBVIOUS
      <4>2. Same(e) /\ e.pc = "exited" /\ e.exit = 0 /\ e.told = Unmined
        BY <1>1, <1>3, <4>1, ZenonT(60) DEF Process, Places, Exit, Unmined, Told
      <4> QED
        BY <3>3, <4>1, <4>2 DEF Becomes, Waits
    <3>4. CASE Becomes(p, Exit(p, 1, Unset))
      <4>1. PICK e : e = Exit(p, 1, Unset)
        OBVIOUS
      <4>2. Same(e) /\ e.pc = "exited" /\ e.exit = 1
        BY <1>1, <1>3, <4>1 DEF Process, Places, Exit
      <4> QED
        BY <3>4, <4>1, <4>2 DEF Becomes
    <3> QED
      BY <3>1, <3>2, <3>3, <3>4
  <2>2. PICK e : /\ Same(e) /\ proc' = [proc EXCEPT ![p] = e]
                 /\ \/ e.pc = "wait" /\ e.exit = Unset
                    \/ e.pc = "exited" /\ e.exit = 0 /\ e.told = Unmined /\ proc[p].job.tool # "txsmoke"
                    \/ e.pc = "exited" /\ e.exit = 1
    BY <2>1
  <2>3. pool' = Pooled(p) /\ took' = took \cup {p}
    BY <1>4 DEF SendTransaction
  <2>4. Moves(p, e)
    BY <1>1, <1>3, <2>2 DEF Moves
  <2>5. /\ proc' \in [Senders -> Process] /\ proc'[p] = e /\ \A q \in Senders \ {p} : proc'[q] = proc[q]
        /\ \A r, q \in Senders : proc[r].job # Unset /\ Blames(r, q) => Blames(r, q)'
    BY <2>3, <2>4, OthersSame
  <2>6. ASSUME NEW r \in Senders \ {p}, proc[r].pc \in {"estimate", "send"} PROVE Blames(r, p)'
    <3>1. p \notin proc[r].after /\ r \notin proc[p].after
      BY <1>1, <2>6 DEF SentOK
    <3> QED
      BY <1>3, <2>2, <2>5, <2>6, <3>1 DEF Blames
  <2>7. /\ SendTypes' /\ PlacedOK' /\ GapOK'
        /\ \A q \in Senders \ {p} : SentOK(q)' /\ ToldOK(q)' /\ BlameOK(q)' /\ RefusedOK(q)'
    BY <1>1, <1>2, <1>3, <1>4, <2>2, <2>3, <2>5, <2>6, Accepted
  <2>8. SentOK(p)'
    <3>1. \A q \in proc'[p].after : proc'[q].pc = "exited"
      BY <1>1, <2>2, <2>5 DEF SentOK, Process
    <3>2. e.capped => e.job.action = "deploy" /\ e.job.cap
      <4>1. proc[p].capped => proc[p].job.action = "deploy" /\ proc[p].job.cap
        BY <1>1 DEF SentOK
      <4>2. e.capped = proc[p].capped /\ e.job = proc[p].job
        BY <2>2
      <4> QED
        BY <4>1, <4>2, Zenon
    <3>3. 0 # Unset /\ 1 # Unset
      BY SendersAssumption
    <3> QED
      BY <1>2, <1>3, <2>2, <2>3, <2>5, <3>1, <3>2, <3>3 DEF SentOK, Early
  <2>9. ToldOK(p)'
    <3>1. proc'[p] = e /\ p \in took' /\ (e.exit = 0 => e.told = Unmined /\ e.job.tool # "txsmoke")
      BY <2>2, <2>3, <2>5, SendersAssumption
    <3> QED
      BY <3>1, UnminedIs, Zenon DEF ToldOK
  <2>10. BlameOK(p)' /\ RefusedOK(p)'
    BY <2>2, <2>5 DEF BlameOK, RefusedOK
  <2> QED
    BY <2>7, <2>8, <2>9, <2>10 DEF SendersInv
<1>5. CASE ~Accepts(proc[p].nonce)
  <2>1. PICK e : e = [Exit(p, 1, Unset) EXCEPT !.refused = TRUE]
    OBVIOUS
  <2>2. /\ e \in Process /\ e.pc = "exited" /\ e.nonce = proc[p].nonce /\ e.job = proc[p].job /\ e.after = proc[p].after
        /\ e.capped = proc[p].capped /\ e.exit = 1 /\ e.refused
    BY <1>1, <2>1 DEF Process, Places, Exit
  <2>3. proc' = [proc EXCEPT ![p] = e] /\ UNCHANGED <<pool, took>>
    BY <1>5, <2>1 DEF SendTransaction, Becomes
  <2>4. Moves(p, e)
    BY <1>1, <1>3, <2>2, <2>3 DEF Moves
  <2>5. proc'[p] = e /\ \A q \in Senders \ {p} : proc'[q] = proc[q]
    BY <1>1, <2>3 DEF SendTypes
  <2>6. SentOK(p)'
    <3>1. \A q \in proc'[p].after : proc'[q].pc = "exited"
      BY <1>1, <2>2, <2>5 DEF SentOK, Process
    <3>2. e.capped => e.job.action = "deploy" /\ e.job.cap
      <4>1. proc[p].capped => proc[p].job.action = "deploy" /\ proc[p].job.cap
        BY <1>1 DEF SentOK
      <4>2. e.capped = proc[p].capped /\ e.job = proc[p].job
        BY <2>2
      <4> QED
        BY <4>1, <4>2, Zenon
    <3>3. 0 # Unset /\ 1 # Unset
      BY SendersAssumption
    <3> QED
      BY <1>2, <1>3, <2>2, <2>3, <2>5, <3>1, <3>2, <3>3 DEF SentOK, Early
  <2>7. ToldOK(p)' /\ RefusedOK(p)'
    BY <1>3, <2>2, <2>5 DEF ToldOK, RefusedOK
  <2>8. BlameOK(p)'
    <3>1. \A q \in Senders : Blames(p, q) => Blames(p, q)'
      BY <1>3, <2>3, <2>4, OthersSame
    <3> QED
      BY <1>1, <1>3, <1>5, <2>2, <2>5, <3>1 DEF BlameOK
  <2> QED
    BY <1>2, <2>2, <2>3, <2>4, <2>6, <2>7, <2>8, PlacesKept
<1> QED
  BY <1>4, <1>5

\* It fails, or is killed.
LEMMA FailsKeeps ==
  ASSUME SendersInv, NEW p \in Senders, Fails(p) \/ Killed(p)
  PROVE  SendersInv'
<1>1. /\ SendTypes /\ proc[p] \in Process /\ RefusedOK(p)
  BY DEF SendersInv, SendTypes
<1>2. UNCHANGED <<blocks, pool, restarts, took>> /\ Busy(p)
  BY DEF Fails, Killed, chain, Busy
<1>3. afloat' \in {afloat} \cup (IF proc[p].pc = "send" THEN {afloat \cup {p}} ELSE {})
  BY DEF Fails, Killed
<1>4. PICK status \in {1, 143} : proc' = [proc EXCEPT ![p] = Exit(p, status, Unset)]
  BY DEF Fails, Killed, Becomes, BySigterm
<1>5. PICK e : e = Exit(p, status, Unset)
  OBVIOUS
<1>6. /\ e \in Process /\ e.pc = "exited" /\ e.nonce = proc[p].nonce /\ e.job = proc[p].job /\ e.after = proc[p].after
      /\ e.capped = proc[p].capped /\ e.exit = status /\ e.refused = proc[p].refused
  <2>1. status \in Nat /\ Unset \in Told \cup {Unset}
    BY <1>4
  <2> QED
    BY <1>1, <1>5, <2>1, ExitIs
<1>7. e.exit \notin {0, Unset}
  BY <1>6, SendersAssumption
<1> QED
  BY <1>2, <1>3, <1>4, <1>5, <1>6, <1>7, EndsBadly

\* It waits for its receipt, in vain or not.
LEMMA WaitKeeps ==
  ASSUME SendersInv, NEW p \in Senders, WaitForReceipt(p) \/ WaitTimesOut(p)
  PROVE  SendersInv'
<1>1. /\ SendTypes /\ proc[p] \in Process /\ proc[p].pc = "wait" /\ PlacedOK
      /\ SentOK(p) /\ ToldOK(p) /\ BlameOK(p) /\ RefusedOK(p)
  BY DEF SendersInv, SendTypes, WaitForReceipt, WaitTimesOut
<1>2. UNCHANGED <<blocks, pool, restarts, took, afloat>>
  BY DEF WaitForReceipt, WaitTimesOut, chain
<1>3. /\ proc[p].job \in JobKinds /\ proc[p].job # Unset /\ proc[p].nonce # Unset
      /\ ~proc[p].refused /\ p \in took /\ p \notin afloat /\ proc[p].exit = Unset
  BY <1>1, SendersAssumption DEF SentOK, RefusedOK, Process
<1> DEFINE Tells(told) == /\ told.mined => InBlock(p, told.ok)
                          /\ told.address = TRUE => told.ok \/ proc[p].job.cap
           EndsSo(status, told) == /\ proc' = [proc EXCEPT ![p] = Exit(p, status, told)]
                                 /\ \/ status = 1 /\ told \in Told \cup {Unset}
                                    \/ /\ status = 0 /\ told \in Told /\ Tells(told)
                                       /\ proc[p].job.tool = "txsmoke" => told.mined /\ told.ok
<1>4. \E status, told : EndsSo(status, told)
  <2>1. CASE WaitTimesOut(p)
    <3>1. CASE proc[p].job.tool = "txsmoke"
      BY <2>1, <3>1 DEF WaitTimesOut, Becomes
    <3>2. CASE proc[p].job.tool # "txsmoke"
      <4>1. proc' = [proc EXCEPT ![p] = Exit(p, 0, Unmined)]
        BY <2>1, <3>2 DEF WaitTimesOut, Becomes
      <4>2. Tells(Unmined)
        BY UnminedIs, Zenon
      <4> HIDE DEF Tells
      <4> QED
        BY <3>2, <4>1, <4>2, UnminedIs, Zenon
    <3> QED
      BY <3>1, <3>2
  <2>2. CASE WaitForReceipt(p)
    <3>1. PICK i \in DOMAIN blocks :
            /\ blocks[i].by = p
            /\ Becomes(p, Exit(p, IF proc[p].job.tool = "txsmoke" /\ ~blocks[i].ok THEN 1 ELSE 0,
                               [mined |-> TRUE, ok |-> blocks[i].ok, address |-> proc[p].job.action = "deploy"]))
      BY <2>2 DEF WaitForReceipt
    <3>2. PICK ok \in BOOLEAN : ok = blocks[i].ok
      <4>1. blocks[i].ok \in BOOLEAN
        BY <1>1, <3>1, BlockIs, Zenon
      <4> QED
        BY <4>1, Zenon
    <3>3. PICK deploys \in BOOLEAN : deploys = (proc[p].job.action = "deploy")
      OBVIOUS
    <3>4. PICK told : told = [mined |-> TRUE, ok |-> ok, address |-> deploys]
      OBVIOUS
    <3>5. told \in Told /\ told.mined = TRUE /\ told.ok = ok /\ told.address = deploys
      <4>1. told \in Told
        BY <3>4 DEF Told
      <4>2. told.mined = TRUE
        BY <3>4
      <4>3. told.ok = ok
        BY <3>4
      <4>4. told.address = deploys
        BY <3>4
      <4> QED
        BY <4>1, <4>2, <4>3, <4>4
    <3>6. InBlock(p, ok)
      BY <1>1, <3>1, <3>2, BlockIs, Zenon DEF InBlock
    <3>7. ok \/ proc[p].capped \/ proc[p].job.action = "raw"
      BY <1>1, <3>1, <3>2 DEF PlacedOK
    <3>8. deploys => ok \/ proc[p].job.cap
      BY <1>1, <3>3, <3>7 DEF SentOK
    <3>9. Tells(told)
      BY <3>5, <3>6, <3>8, Zenon
    <3>10. proc' = [proc EXCEPT ![p] = Exit(p, IF proc[p].job.tool = "txsmoke" /\ ~ok THEN 1 ELSE 0, told)]
      BY <3>1, <3>2, <3>3, <3>4 DEF Becomes
    <3> HIDE DEF Tells
    <3>11. CASE proc[p].job.tool = "txsmoke" /\ ~ok
      <4>1. proc' = [proc EXCEPT ![p] = Exit(p, 1, told)]
        BY <3>10, <3>11
      <4> QED
        BY <3>5, <4>1, Zenon
    <3>12. CASE ~(proc[p].job.tool = "txsmoke" /\ ~ok)
      <4>1. proc' = [proc EXCEPT ![p] = Exit(p, 0, told)]
        BY <3>10, <3>12
      <4> QED
        BY <3>5, <3>9, <3>12, <4>1, Zenon
    <3> QED
      BY <3>11, <3>12
  <2> QED
    BY <2>1, <2>2
<1>5. PICK status, told : EndsSo(status, told)
  BY <1>4
<1>6. PICK e : e = Exit(p, status, told)
  OBVIOUS
<1>7. status \in {0, 1} /\ told \in Told \cup {Unset}
  BY <1>5
<1>8. /\ e \in Process /\ e.pc = "exited" /\ e.nonce = proc[p].nonce /\ e.job = proc[p].job /\ e.after = proc[p].after
      /\ e.capped = proc[p].capped /\ e.exit = status /\ e.refused = proc[p].refused /\ e.told = told
  <2>1. status \in Nat
    BY <1>7
  <2> QED
    BY <1>1, <1>6, <1>7, <2>1, ExitIs
<1>9. proc' = [proc EXCEPT ![p] = e]
  BY <1>5, <1>6
<1>10. Moves(p, e)
  BY <1>1, <1>8, <1>9 DEF Moves
<1>11. proc'[p] = e /\ \A q \in Senders \ {p} : proc'[q] = proc[q]
  BY <1>1, <1>9 DEF SendTypes
<1>12. SentOK(p)'
  <2>1. \A q \in proc'[p].after : proc'[q].pc = "exited"
    BY <1>1, <1>8, <1>11 DEF SentOK, Process
  <2>2. e.capped => e.job.action = "deploy" /\ e.job.cap
    BY <1>1, <1>8 DEF SentOK
  <2>3. status # Unset
    BY <1>7, SendersAssumption
  <2> QED
    BY <1>2, <1>3, <1>8, <1>11, <2>1, <2>2, <2>3 DEF SentOK, Early
<1>13. ToldOK(p)'
  <2>1. InBlock(p, told.ok) => InBlock(p, told.ok)'
    BY <1>2 DEF InBlock
  <2>2. p \in took' /\ proc'[p].job = proc[p].job /\ proc'[p].told = told /\ proc'[p].exit = status
    BY <1>2, <1>3, <1>8, <1>11
  <2>3. status = 0 => /\ told \in Told /\ Tells(told)
                      /\ proc[p].job.tool = "txsmoke" => told.mined /\ told.ok
    BY <1>5
  <2> QED
    BY <2>1, <2>2, <2>3, Zenon DEF ToldOK, InBlock
<1>14. RefusedOK(p)' /\ BlameOK(p)'
  BY <1>3, <1>8, <1>11 DEF RefusedOK, BlameOK
<1> QED
  BY <1>2, <1>8, <1>10, <1>12, <1>13, <1>14, PlacesKept

\* What a sender that has ended had sent arrives.
LEMMA ArrivesKeeps ==
  ASSUME SendersInv, NEW p \in Senders, Arrives(p)
  PROVE  SendersInv'
<1>1. /\ SendTypes /\ proc[p] \in Process /\ PlacedOK /\ GapOK
      /\ \A q \in Senders : SentOK(q) /\ ToldOK(q) /\ BlameOK(q) /\ RefusedOK(q)
  BY DEF SendersInv, SendTypes
<1>2. /\ p \in afloat /\ afloat' = afloat \ {p} /\ UNCHANGED <<blocks, restarts, proc>>
      /\ proc[p].pc = "exited" /\ p \notin took /\ proc[p].exit \notin {0, Unset} /\ proc[p].nonce # Unset
  BY <1>1 DEF Arrives, SentOK
<1>3. CASE Accepts(proc[p].nonce)
  <2>1. pool' = Pooled(p) /\ took' = took \cup {p}
    BY <1>3 DEF Arrives
  <2>2. \A r, q \in Senders : Blames(r, q) => Blames(r, q)'
    BY <1>2, <2>1 DEF Blames
  <2>3. \A r \in Senders \ {p} : Blames(r, p)'
    BY <1>2, <2>1 DEF Blames
  <2>4. proc' \in [Senders -> Process]
    BY <1>1, <1>2 DEF SendTypes
  <2>5. /\ SendTypes' /\ PlacedOK' /\ GapOK'
        /\ \A q \in Senders \ {p} : SentOK(q)' /\ ToldOK(q)' /\ BlameOK(q)' /\ RefusedOK(q)'
    BY <1>2, <1>3, <2>1, <2>2, <2>3, <2>4, Accepted
  <2>6. SentOK(p)'
    BY <1>1, <1>2, <2>1 DEF SentOK, Early
  <2>7. ToldOK(p)' /\ RefusedOK(p)'
    BY <1>1, <1>2 DEF ToldOK, RefusedOK
  <2>8. BlameOK(p)'
    BY <1>1, <1>2, <2>2 DEF BlameOK
  <2> QED
    BY <2>5, <2>6, <2>7, <2>8 DEF SendersInv
<1>4. CASE ~Accepts(proc[p].nonce)
  <2>1. UNCHANGED <<pool, took>>
    BY <1>4 DEF Arrives
  <2>2. SendTypes'
    BY <1>1, <1>2, <2>1 DEF SendTypes
  <2>3. PlacedOK'
    BY <1>1, <1>2, <2>1 DEF PlacedOK, InBlock
  <2>4. GapOK'
    BY <1>1, <1>2, <2>1 DEF GapOK, Ready, FromOutside
  <2>5. ASSUME NEW q \in Senders PROVE SentOK(q)' /\ ToldOK(q)' /\ BlameOK(q)' /\ RefusedOK(q)'
    <3>1. SentOK(q)'
      BY <1>1, <1>2, <2>1 DEF SentOK
    <3>2. ToldOK(q)'
      BY <1>1, <1>2, <2>1 DEF ToldOK, InBlock
    <3>3. BlameOK(q)'
      BY <1>1, <1>2, <2>1 DEF BlameOK, Accepts, Blames
    <3>4. RefusedOK(q)'
      BY <1>1, <1>2, <2>1 DEF RefusedOK
    <3> QED
      BY <3>1, <3>2, <3>3, <3>4
  <2> QED
    BY <2>2, <2>3, <2>4, <2>5 DEF SendersInv
<1> QED
  BY <1>3, <1>4

\* The node makes a block.
LEMMA MineKeeps ==
  ASSUME SendersInv, Mine
  PROVE  SendersInv'
<1>1. /\ SendTypes /\ PlacedOK /\ GapOK
      /\ \A q \in Senders : SentOK(q) /\ ToldOK(q) /\ BlameOK(q) /\ RefusedOK(q)
  BY DEF SendersInv
<1>2. PICK L \in Nat : L = Len(blocks)
  BY <1>1 DEF SendTypes
<1>3. /\ L \in DOMAIN pool /\ UNCHANGED <<restarts, proc, afloat, took>>
      /\ pool' = [n \in DOMAIN pool \ {L} |-> pool[n]]
  BY <1>2 DEF Mine
<1>4. PICK p \in Senders : p = pool[L] /\ p \in took /\ proc[p].nonce = L
  BY <1>1, <1>3 DEF SendTypes, PlacedOK
<1>5. PICK ok \in (IF proc[p].capped THEN {FALSE} ELSE IF proc[p].job.action = "raw" THEN BOOLEAN ELSE {TRUE}) :
        blocks' = Append(blocks, [by |-> p, ok |-> ok])
  BY <1>2, <1>4 DEF Mine
<1>6. ok \in BOOLEAN /\ (ok \/ proc[p].capped \/ proc[p].job.action = "raw")
  BY <1>5
<1>7. PICK block \in [by : Senders, ok : BOOLEAN] : block = [by |-> p, ok |-> ok]
  BY <1>6
<1>8. PICK S : S = [by : Senders, ok : BOOLEAN]
  OBVIOUS
<1>9. /\ blocks \in Seq(S) /\ block \in S /\ blocks' = Append(blocks, block)
  BY <1>1, <1>5, <1>7, <1>8 DEF SendTypes
<1>10. /\ blocks' \in Seq(S) /\ Len(blocks') = L + 1 /\ DOMAIN blocks = 1..L /\ DOMAIN blocks' = 1..(L + 1)
       /\ blocks'[L + 1] = block /\ \A i \in 1..L : blocks'[i] = blocks[i]
  BY <1>2, <1>9
<1>11. SendTypes'
  BY <1>1, <1>3, <1>8, <1>10 DEF SendTypes
<1>12. \A q, b : InBlock(q, b) => InBlock(q, b)'
  BY <1>10 DEF InBlock
<1>13. PlacedOK'
  <2>1. \A n \in DOMAIN pool' : n >= Len(blocks') /\ pool'[n] \in took' /\ proc'[pool'[n]].nonce = n
    BY <1>1, <1>2, <1>3, <1>10 DEF PlacedOK, SendTypes
  <2>2. \A i \in DOMAIN blocks' :
          LET q == blocks'[i].by IN
          /\ q \in took' /\ proc'[q].nonce = i - 1
          /\ blocks'[i].ok \/ proc'[q].capped \/ proc'[q].job.action = "raw"
    <3> SUFFICES ASSUME NEW i \in 1..(L + 1)
                 PROVE  /\ blocks'[i].by \in took /\ proc[blocks'[i].by].nonce = i - 1
                        /\ blocks'[i].ok \/ proc[blocks'[i].by].capped \/ proc[blocks'[i].by].job.action = "raw"
      BY <1>3, <1>10
    <3>1. CASE i \in 1..L
      BY <1>1, <1>10, <3>1 DEF PlacedOK
    <3>2. CASE i = L + 1
      BY <1>4, <1>6, <1>7, <1>10, <3>2
    <3> QED
      BY <3>1, <3>2
  <2>3. ASSUME restarts' = 0, NEW q \in took'
        PROVE  q \in Range(pool') \/ \E b \in BOOLEAN : InBlock(q, b)'
    <3>1. q \in Range(pool) \/ \E b \in BOOLEAN : InBlock(q, b)
      BY <1>1, <1>3, <2>3 DEF PlacedOK
    <3>2. CASE q \in Range(pool)
      <4>1. PICK n \in DOMAIN pool : pool[n] = q
        BY <3>2 DEF Range
      <4>2. CASE n = L
        BY <1>4, <1>6, <1>7, <1>10, <4>1, <4>2 DEF InBlock
      <4>3. CASE n # L
        BY <1>3, <4>1, <4>3 DEF Range
      <4> QED
        BY <4>2, <4>3
    <3> QED
      BY <1>12, <3>1, <3>2
  <2> QED
    BY <2>1, <2>2, <2>3 DEF PlacedOK
<1>14. GapOK'
  <2>1. ASSUME NEW k \in Nat, Ready(k) PROVE k - 1 \in Nat /\ Ready(k - 1)'
    <3>1. DOMAIN pool = L..(L + k - 1) /\ \A q \in Senders : proc[q].nonce # Unset => proc[q].nonce <= L + k
      BY <1>2, <2>1 DEF Ready
    <3>2. k - 1 \in Nat
      BY <1>3, <3>1
    <3>3. DOMAIN pool' = (L + 1)..((L + 1) + (k - 1) - 1)
      BY <1>3, <3>1
    <3>4. (L + 1) + (k - 1) = L + k
      OBVIOUS
    <3> QED
      BY <1>3, <1>10, <3>1, <3>2, <3>3, <3>4 DEF Ready
  <2> QED
    BY <1>1, <1>3, <2>1 DEF GapOK, FromOutside
<1>15. ASSUME NEW q \in Senders PROVE SentOK(q)' /\ ToldOK(q)' /\ BlameOK(q)' /\ RefusedOK(q)'
  <2>1. SentOK(q)' /\ RefusedOK(q)'
    BY <1>1, <1>3 DEF SentOK, RefusedOK
  <2>2. ToldOK(q)'
    BY <1>1, <1>3, <1>12 DEF ToldOK
  <2>3. proc[q].nonce # Unset /\ Accepts(proc[q].nonce) => Accepts(proc[q].nonce)'
    <3> SUFFICES ASSUME proc[q].nonce # Unset, Accepts(proc[q].nonce) PROVE Accepts(proc[q].nonce)'
      OBVIOUS
    <3>1. PICK n \in Nat : n = proc[q].nonce
      BY <1>1 DEF SendTypes, Process
    <3>2. n >= L /\ n \notin DOMAIN pool
      BY <1>2, <3>1 DEF Accepts
    <3>3. n >= L + 1
      BY <1>3, <3>2
    <3> QED
      BY <1>3, <1>10, <3>1, <3>2, <3>3 DEF Accepts
  <2>4. BlameOK(q)'
    BY <1>1, <1>3, <2>3 DEF BlameOK, Blames
  <2> QED
    BY <2>1, <2>2, <2>4
<1> QED
  BY <1>11, <1>13, <1>14, <1>15 DEF SendersInv

\* The node is restarted and its pool is lost.
LEMMA RestartKeeps ==
  ASSUME SendersInv, RestartNode
  PROVE  SendersInv'
<1>1. /\ SendTypes /\ PlacedOK
      /\ \A q \in Senders : SentOK(q) /\ ToldOK(q) /\ BlameOK(q) /\ RefusedOK(q)
  BY DEF SendersInv
<1>2. pool' = <<>> /\ restarts' = restarts + 1 /\ UNCHANGED <<blocks, proc, afloat, took>>
  BY DEF RestartNode
<1>3. DOMAIN pool' = {} /\ restarts' \in Nat /\ restarts' > 0
  BY <1>1, <1>2 DEF SendTypes
<1>4. SendTypes'
  BY <1>1, <1>2, <1>3 DEF SendTypes
<1>5. PlacedOK'
  BY <1>1, <1>2, <1>3 DEF PlacedOK
<1>6. GapOK'
  BY <1>3 DEF GapOK
<1>7. ASSUME NEW q \in Senders PROVE SentOK(q)' /\ ToldOK(q)' /\ BlameOK(q)' /\ RefusedOK(q)'
  <2>1. SentOK(q)' /\ RefusedOK(q)'
    BY <1>1, <1>2 DEF SentOK, RefusedOK
  <2>2. ToldOK(q)'
    BY <1>1, <1>2 DEF ToldOK, InBlock
  <2>3. BlameOK(q)'
    BY <1>1, <1>2, <1>3 DEF BlameOK, Blames, Accepts
  <2> QED
    BY <2>1, <2>2, <2>3
<1> QED
  BY <1>4, <1>5, <1>6, <1>7 DEF SendersInv

----------------------------------------------------------------------------
\* The senders start with their invariant.
LEMMA SendersInit == ClientsInit => SendersInv
<1> SUFFICES ASSUME ClientsInit PROVE SendersInv
  OBVIOUS
<1>1. /\ blocks = <<>> /\ pool = <<>> /\ restarts = 0 /\ afloat = {} /\ took = {}
      /\ proc = [p \in Senders |-> NotStarted] \/ proc = [p \in Senders |-> [NotStarted EXCEPT !.pc = "off"]]
  BY DEF ClientsInit, SendInit
<1>2. ASSUME NEW p \in Senders
      PROVE  /\ proc[p] \in Process /\ proc[p].pc \in {"off", "new"} /\ proc[p].job = Unset /\ proc[p].nonce = Unset
             /\ ~proc[p].capped /\ proc[p].exit = Unset /\ ~proc[p].refused /\ proc[p].after = {}
  <2>1. NotStarted \in Process
    BY DEF NotStarted, Process, Places
  <2>2. CASE proc = [q \in Senders |-> NotStarted]
    BY <2>1, <2>2 DEF NotStarted
  <2>3. CASE proc = [q \in Senders |-> [NotStarted EXCEPT !.pc = "off"]]
    <3>1. proc[p] = [NotStarted EXCEPT !.pc = "off"]
      BY <2>3
    <3> QED
      BY <2>1, <3>1 DEF NotStarted, Process, Places
  <2> QED
    BY <1>1, <2>2, <2>3
<1>3. DOMAIN pool = {} /\ DOMAIN blocks = {} /\ Len(blocks) = 0
  BY <1>1
<1>4. SendTypes
  <2>1. blocks \in Seq([by : Senders, ok : BOOLEAN])
    BY <1>1
  <2>2. proc \in [Senders -> Process]
    BY <1>1, <1>2
  <2> QED
    BY <1>1, <1>3, <2>1, <2>2 DEF SendTypes
<1>5. PlacedOK
  BY <1>1, <1>3 DEF PlacedOK
<1>6. GapOK
  <2>1. Ready(0)
    BY <1>2, <1>3 DEF Ready
  <2> QED
    BY <2>1 DEF GapOK
<1>7. ASSUME NEW p \in Senders PROVE SentOK(p) /\ ToldOK(p) /\ BlameOK(p) /\ RefusedOK(p)
  <2>1. SentOK(p)
    BY <1>1, <1>2 DEF SentOK, Early
  <2>2. ToldOK(p)
    BY <1>2, SendersAssumption DEF ToldOK
  <2>3. BlameOK(p) /\ RefusedOK(p)
    BY <1>2 DEF BlameOK, RefusedOK
  <2> QED
    BY <2>1, <2>2, <2>3
<1> QED
  BY <1>4, <1>5, <1>6, <1>7 DEF SendersInv

\* Every step keeps it.
LEMMA SendersStep == SendersInv /\ [ClientsNext]_clientVars => SendersInv'
<1> SUFFICES ASSUME SendersInv, [ClientsNext]_clientVars PROVE SendersInv'
  OBVIOUS
<1>1. CASE ASendStep
  <2>1. \/ Mine \/ RestartNode
        \/ \E p \in Senders : \/ \E job \in Jobs : Launch(p, job)
                              \/ TxParams(p) \/ EstimateGas(p) \/ SendTransaction(p) \/ Fails(p) \/ Killed(p)
                              \/ WaitForReceipt(p) \/ WaitTimesOut(p) \/ Arrives(p)
    BY <1>1 DEF ASendStep, SendNext, Sender
  <2> QED
    BY <2>1, MineKeeps, RestartKeeps, LaunchKeeps, TxParamsKeeps, EstimateGasKeeps, SendKeeps, FailsKeeps, WaitKeeps,
       ArrivesKeeps
<1>2. CASE UNCHANGED sendVars
  <2>1. UNCHANGED <<blocks, pool, restarts, proc, afloat, took>>
    BY <1>2 DEF sendVars, chain
  <2>2. SendTypes' = SendTypes /\ PlacedOK' = PlacedOK /\ GapOK' = GapOK
    BY <2>1 DEF SendTypes, PlacedOK, GapOK, Ready, FromOutside, InBlock
  <2>3. \A p \in Senders : /\ SentOK(p) => SentOK(p)'
                           /\ ToldOK(p) => ToldOK(p)'
                           /\ BlameOK(p) => BlameOK(p)'
                           /\ RefusedOK(p) => RefusedOK(p)'
    BY <2>1 DEF SentOK, ToldOK, InBlock, BlameOK, Blames, Accepts, RefusedOK
  <2> QED
    BY <2>2, <2>3 DEF SendersInv
<1> QED
  BY <1>1, <1>2 DEF ClientsNext, AQueryStep, ACapsStep, clientVars

\* What is in the pool is next to come.
LEMMA NoGapInPool ==
  ASSUME SendersInv, NEW k \in Nat, Ready(k)
  PROVE  NoGap
<1>1. Len(blocks) \in Nat /\ DOMAIN pool = Len(blocks)..(Len(blocks) + k - 1)
  BY DEF SendersInv, SendTypes, Ready
<1>2. PICK a \in Int, b \in Int : a = Len(blocks) /\ b = Len(blocks) + k - 1
  BY <1>1
<1>3. Cardinality(a..b) = IF a > b THEN 0 ELSE b - a + 1
  BY FS_Interval
<1>4. DOMAIN pool = a..b
  BY <1>1, <1>2
<1>5. Cardinality(DOMAIN pool) = IF a > b THEN 0 ELSE b - a + 1
  BY <1>3, <1>4, Zenon
<1>6. (IF a > b THEN 0 ELSE b - a + 1) = k
  BY <1>1, <1>2
<1> QED
  BY <1>1, <1>5, <1>6 DEF NoGap

----------------------------------------------------------------------------
(* edge caps *)

\* Where `qikchain edge caps` can be.
CapsPlaces == {"off", "new", "exited"} \cup Forms \cup {"server", "genesis", "hash"}

\* Past the look at the path.
Found == caps.pc \in Forms \cup {"server", "genesis", "hash"} \/ caps.exit = 0

\* Past each help text.
Past(part) == caps.pc = "hash" \/ (part = "server" /\ caps.pc = "genesis") \/ caps.exit = 0

\* What it can report.
Reports == [version : Binaries \cup {NoReport}, hash : Binaries \cup {NoReport},
            server : [ServerFlagNames -> BOOLEAN], genesis : [GenesisFlagNames -> BOOLEAN]]

\* What its state is made of.
CapsTypes ==
  /\ binary \in Binaries /\ replaced \in Nat
  /\ caps \in [pc : CapsPlaces, version : Binaries \cup {NoReport}, server : HelpTexts, genesis : HelpTexts,
               exit : Int, report : Reports \cup {NoReport}, cut : SUBSET Parts]

\* The inductive invariant of `qikchain edge caps`.
CapsInv ==
  /\ CapsTypes
  /\ caps.exit = 0 => caps.pc = "exited"
  /\ replaced = 0 =>
       /\ Found => binary.file = "program"
       /\ caps.version # NoReport => caps.version = binary /\ binary.answers # {}
       /\ \A part \in Parts \ caps.cut : Past(part) => caps[part] = binary[part]
  /\ caps.exit = 0 =>
       /\ caps.report \in Reports
       /\ replaced = 0 => caps.report.hash = binary
       /\ caps.report.version = caps.version
       /\ \A part \in Parts : \A name \in NamesOf[part] : caps.report[part][name] <=> HasFlag(caps[part], name)

\* The first part of a sequence.
LEMMA FirstOf ==
  ASSUME NEW T, NEW s \in Seq(T), NEW n \in 0..Len(s)
  PROVE  SubSeq(s, 1, n) \in Seq(T) /\ (n > 0 => SubSeq(s, 1, n) # <<>>)
<1>1. n \in Int /\ 1 \in Int /\ \A i \in 1..n : s[i] \in T
  OBVIOUS
<1>2. SubSeq(s, 1, n) \in Seq(T)
  BY <1>1, SubSeqProperties, Zenon
<1>3. Len(SubSeq(s, 1, n)) = IF 1 <= n THEN n - 1 + 1 ELSE 0
  BY <1>1, SubSeqProperties
<1>4. PICK part \in Seq(T) : part = SubSeq(s, 1, n)
  BY <1>2, Zenon
<1>5. Len(part) = IF 1 <= n THEN n - 1 + 1 ELSE 0
  BY <1>3, <1>4, Zenon
<1>6. n > 0 => part # <<>>
  BY <1>1, <1>5
<1> QED
  BY <1>4, <1>6, Zenon

\* A help text that is cut short is a help text.
LEMMA CutIs ==
  ASSUME NEW text \in HelpTexts, NEW part \in CutShort(text)
  PROVE  part \in HelpTexts
<1>1. PICK S : S = STRING
  OBVIOUS
<1>2. PICK T : T = Seq(S) \ {<<>>}
  OBVIOUS
<1>3. HelpTexts = Seq(T) /\ text \in Seq(T)
  BY <1>1, <1>2 DEF HelpTexts
<1>4. CASE \E n \in 0..Len(text) - 1 : part = SubSeq(text, 1, n)
  <2>1. PICK n \in 0..Len(text) - 1 : part = SubSeq(text, 1, n)
    BY <1>4
  <2>2. n \in 0..Len(text)
    BY <1>3, <2>1
  <2> QED
    BY <1>3, <2>1, <2>2, FirstOf
<1>5. CASE \E n \in DOMAIN text, k \in 1..1 : part = Append(SubSeq(text, 1, n - 1), SubSeq(text[n], 1, k))
  <2>1. PICK n \in DOMAIN text, k \in 1..1 : part = Append(SubSeq(text, 1, n - 1), SubSeq(text[n], 1, k))
    BY <1>5, Zenon
  <2>2. n \in 1..Len(text) /\ n - 1 \in 0..Len(text)
    BY <1>3, <2>1
  <2>3. SubSeq(text, 1, n - 1) \in Seq(T)
    BY <1>3, <2>2, FirstOf, Zenon
  <2>4. text[n] \in Seq(S) /\ text[n] # <<>>
    BY <1>2, <1>3, <2>2
  <2>5. k \in 0..Len(text[n]) /\ k > 0
    <3>1. Len(text[n]) \in Nat \ {0}
      BY <2>4, EmptySeq, Zenon
    <3> QED
      BY <2>1, <3>1
  <2>6. SubSeq(text[n], 1, k) \in T
    BY <1>2, <2>4, <2>5, FirstOf, Zenon
  <2>7. PICK a \in Seq(T), b \in T : a = SubSeq(text, 1, n - 1) /\ b = SubSeq(text[n], 1, k)
    BY <2>3, <2>6, Zenon
  <2>8. part = Append(a, b)
    BY <2>1, <2>7, Zenon
  <2> QED
    BY <1>3, <2>7, <2>8
<1> QED
  BY <1>4, <1>5 DEF CutShort

\* So is none.
LEMMA NoHelp == <<>> \in HelpTexts
<1> QED
  BY EmptySeq DEF HelpTexts

\* A step of the program that prints nothing: it goes on to place and learns
\* one thing, or nothing.
LEMMA CapsMoves ==
  ASSUME CapsInv, CapsRunning, UNCHANGED <<binary, replaced>>,
         caps' \in [pc : CapsPlaces, version : Binaries \cup {NoReport}, server : HelpTexts, genesis : HelpTexts,
                    exit : Int, report : Reports \cup {NoReport}, cut : SUBSET Parts],
         caps'.exit # 0,
         replaced = 0 =>
           /\ Found' => binary.file = "program"
           /\ caps'.version # NoReport => caps'.version = binary /\ binary.answers # {}
           /\ \A part \in Parts \ caps'.cut : Past(part)' => caps'[part] = binary[part]
  PROVE  CapsInv'
<1> QED
  BY DEF CapsInv, CapsTypes

\* Every step keeps the invariant of `qikchain edge caps`.
LEMMA CapsStep == CapsInv /\ [ClientsNext]_clientVars => CapsInv'
<1> SUFFICES ASSUME CapsInv, [ClientsNext]_clientVars PROVE CapsInv'
  OBVIOUS
<1>1. CapsTypes /\ (caps.exit = 0 => caps.pc = "exited")
  BY DEF CapsInv
<1>2. CASE Replace
  <2>1. /\ binary' \in Binaries /\ replaced' = replaced + 1 /\ caps' = caps /\ caps.exit # 0
    BY <1>1, <1>2 DEF Replace, CapsRunning
  <2>2. CapsTypes' /\ replaced' # 0
    BY <1>1, <2>1 DEF CapsTypes
  <2> QED
    BY <2>1, <2>2 DEF CapsInv
<1>3. CASE CapsRefused \/ (ResolveEdgeBinary /\ binary.file # "program")
  <2>1. PICK status \in {1, 2} : caps' = [caps EXCEPT !.pc = "exited", !.exit = status]
    BY <1>3 DEF CapsRefused, ResolveEdgeBinary
  <2>2. caps.pc = "new" /\ UNCHANGED <<binary, replaced>>
    BY <1>3 DEF CapsRefused, ResolveEdgeBinary
  <2>3. /\ CapsTypes' /\ caps'.exit = status /\ caps'.pc = "exited" /\ caps'.version = caps.version
    <3>1. status \in Int
      OBVIOUS
    <3> QED
      BY <1>1, <2>1, <2>2, <3>1 DEF CapsTypes, CapsPlaces
  <2>4. caps.exit # 0 /\ CapsRunning
    BY <1>1, <2>2 DEF CapsRunning
  <2>5. ~Found' /\ \A part \in Parts : ~Past(part)'
    BY <2>1, <2>3 DEF Found, Past, Forms
  <2> QED
    BY <2>1, <2>2, <2>3, <2>4, <2>5, CapsMoves DEF CapsInv, CapsTypes
<1>4. CASE ResolveEdgeBinary /\ binary.file = "program"
  <2>1. caps' = [caps EXCEPT !.pc = "version"] /\ caps.pc = "new" /\ UNCHANGED <<binary, replaced>>
    BY <1>4 DEF ResolveEdgeBinary
  <2>2. /\ CapsTypes' /\ caps'.exit = caps.exit /\ caps'.pc = "version" /\ caps'.version = caps.version
    BY <1>1, <2>1 DEF CapsTypes, CapsPlaces, Forms
  <2>3. caps.exit # 0 /\ CapsRunning
    BY <1>1, <2>1 DEF CapsRunning
  <2>4. \A part \in Parts : ~Past(part)'
    BY <2>2, <2>3 DEF Past
  <2> QED
    BY <1>4, <2>1, <2>2, <2>3, <2>4, CapsMoves DEF CapsInv, CapsTypes
<1>5. CASE FirstVersion
  <2>1. caps.pc \in Forms /\ UNCHANGED <<binary, replaced>> /\ caps.exit # 0 /\ CapsRunning
    BY <1>1, <1>5 DEF FirstVersion, Forms, CapsRunning
  <2>2. \/ binary.file = "program" /\ binary.answers # {} /\ caps' = [caps EXCEPT !.pc = "server", !.version = binary]
        \/ \E place \in Forms \cup {"server"} : caps' = [caps EXCEPT !.pc = place]
    BY <1>5, <2>1 DEF FirstVersion, Runs, Forms
  <2>3. CASE binary.file = "program" /\ binary.answers # {} /\ caps' = [caps EXCEPT !.pc = "server", !.version = binary]
    <3>1. /\ CapsTypes' /\ caps'.exit = caps.exit /\ caps'.pc = "server" /\ caps'.version = binary
      BY <1>1, <2>1, <2>3 DEF CapsTypes, CapsPlaces
    <3>2. \A part \in Parts : ~Past(part)'
      BY <2>1, <3>1 DEF Past
    <3> QED
      BY <2>1, <2>3, <3>1, <3>2, CapsMoves DEF CapsInv, CapsTypes
  <2>4. CASE \E place \in Forms \cup {"server"} : caps' = [caps EXCEPT !.pc = place]
    <3>1. PICK place \in Forms \cup {"server"} : caps' = [caps EXCEPT !.pc = place]
      BY <2>4
    <3>2. /\ CapsTypes' /\ caps'.exit = caps.exit /\ caps'.pc = place /\ caps'.version = caps.version
      BY <1>1, <2>1, <3>1 DEF CapsTypes, CapsPlaces
    <3>3. \A part \in Parts : ~Past(part)'
      BY <2>1, <3>1, <3>2 DEF Past, Forms
    <3>4. Found
      BY <2>1 DEF Found
    <3> QED
      BY <2>1, <3>2, <3>3, <3>4, CapsMoves DEF CapsInv, CapsTypes
  <2> QED
    BY <2>2, <2>3, <2>4
<1>6. CASE Help
  <2>1. /\ caps.pc \in Parts /\ UNCHANGED <<binary, replaced>> /\ caps.exit # 0 /\ CapsRunning /\ Found
    BY <1>1, <1>6 DEF Help, CapsRunning, Parts, Found
  <2>2. PICK here \in Parts : here = caps.pc
    BY <2>1
  <2>3. PICK next \in {"genesis", "hash"} : next = IF here = "server" THEN "genesis" ELSE "hash"
    OBVIOUS
  <2>4. binary.server \in HelpTexts /\ binary.genesis \in HelpTexts
    BY <1>1, CapsAssumption DEF CapsTypes, BinaryKinds
  <2>5. PICK whole \in HelpTexts : whole = IF binary.file = "program" THEN binary[caps.pc] ELSE <<>>
    BY <2>1, <2>4, NoHelp DEF Parts
  <2>6. \/ binary.file = "program" /\ caps' = [caps EXCEPT ![here] = whole, !.pc = next]
        \/ \E part \in {<<>>} \cup CutShort(whole) :
             caps' = [caps EXCEPT ![here] = part, !.cut = @ \cup {here}, !.pc = next]
    BY <1>6, <2>2, <2>3, <2>5 DEF Help
  <2>7. \E part \in HelpTexts, cut \in {caps.cut, caps.cut \cup {here}} :
          /\ caps' = [caps EXCEPT ![here] = part, !.cut = cut, !.pc = next]
          /\ here \in cut \/ (binary.file = "program" /\ part = binary[here])
    <3>1. CASE binary.file = "program" /\ caps' = [caps EXCEPT ![here] = whole, !.pc = next]
      <4>1. [caps EXCEPT ![here] = whole, !.pc = next] = [caps EXCEPT ![here] = whole, !.cut = caps.cut, !.pc = next]
        BY <1>1, <2>2 DEF CapsTypes, Parts
      <4> QED
        BY <2>2, <2>5, <3>1, <4>1
    <3>2. CASE \E part \in {<<>>} \cup CutShort(whole) :
                 caps' = [caps EXCEPT ![here] = part, !.cut = @ \cup {here}, !.pc = next]
      <4>1. PICK part \in {<<>>} \cup CutShort(whole) :
              caps' = [caps EXCEPT ![here] = part, !.cut = @ \cup {here}, !.pc = next]
        BY <3>2
      <4>2. part \in HelpTexts
        <5>1. CASE part = <<>>
          BY <5>1, NoHelp
        <5>2. CASE part \in CutShort(whole)
          BY <5>2, CutIs
        <5> QED
          BY <4>1, <5>1, <5>2
      <4>3. caps' = [caps EXCEPT ![here] = part, !.cut = caps.cut \cup {here}, !.pc = next]
        BY <1>1, <2>2, <4>1 DEF CapsTypes, Parts
      <4> QED
        BY <4>2, <4>3
    <3> QED
      BY <2>6, <3>1, <3>2
  <2>8. PICK part \in HelpTexts, cut \in {caps.cut, caps.cut \cup {here}} :
          /\ caps' = [caps EXCEPT ![here] = part, !.cut = cut, !.pc = next]
          /\ here \in cut \/ (binary.file = "program" /\ part = binary[here])
    BY <2>7
  <2>9. /\ CapsTypes' /\ caps'.exit = caps.exit /\ caps'.pc = next /\ caps'.version = caps.version /\ caps'.cut = cut
        /\ caps'[here] = part /\ \A other \in Parts \ {here} : caps'[other] = caps[other]
    BY <1>1, <2>1, <2>2, <2>8 DEF CapsTypes, CapsPlaces, Parts
  <2>10. replaced = 0 => \A p \in Parts \ caps'.cut : Past(p)' => caps'[p] = binary[p]
    <3> SUFFICES ASSUME replaced = 0, NEW p \in Parts \ cut, Past(p)' PROVE caps'[p] = binary[p]
      BY <2>9
    <3>1. CASE p = here
      BY <2>8, <2>9, <3>1
    <3>2. CASE p # here
      <4>1. Past(p)
        BY <2>1, <2>2, <2>3, <2>9, <3>2 DEF Past, Parts
      <4>2. p \in Parts \ caps.cut
        BY <2>8
      <4> QED
        BY <2>9, <3>2, <4>1, <4>2 DEF CapsInv
    <3> QED
      BY <3>1, <3>2
  <2> QED
    BY <2>1, <2>9, <2>10, CapsMoves DEF CapsInv, CapsTypes
<1>7. CASE ReportCaps
  <2>1. /\ caps.pc = "hash" /\ UNCHANGED <<binary, replaced>> /\ Found /\ \A part \in Parts : Past(part)
    BY <1>7 DEF ReportCaps, Found, Past
  <2>2. PICK report :
          report = [version |-> caps.version, hash |-> IF binary.file \in {"program", "plain"} THEN binary ELSE NoReport,
                    server |-> DetectFlags(caps.server, ServerFlagNames),
                    genesis |-> DetectFlags(caps.genesis, GenesisFlagNames)]
    OBVIOUS
  <2>3. /\ DetectFlags(caps.server, ServerFlagNames) \in [ServerFlagNames -> BOOLEAN]
        /\ DetectFlags(caps.genesis, GenesisFlagNames) \in [GenesisFlagNames -> BOOLEAN]
    BY DEF DetectFlags, HasFlag, Contains
  <2>4. /\ report \in Reports /\ report.version = caps.version
        /\ report.server = DetectFlags(caps.server, ServerFlagNames)
        /\ report.genesis = DetectFlags(caps.genesis, GenesisFlagNames)
        /\ binary.file = "program" => report.hash = binary
    BY <1>1, <2>2, <2>3 DEF CapsTypes, Reports
  <2>5. caps' = [caps EXCEPT !.pc = "exited", !.exit = 0, !.report = report]
    BY <1>7, <2>2 DEF ReportCaps
  <2>6. /\ CapsTypes' /\ caps'.pc = "exited" /\ caps'.report = report /\ caps'.version = caps.version
        /\ caps'.cut = caps.cut /\ \A part \in Parts : caps'[part] = caps[part]
    <3>1. /\ caps'.pc = "exited" /\ caps'.report = report /\ caps'.version = caps.version /\ caps'.cut = caps.cut
          /\ caps'.server = caps.server /\ caps'.genesis = caps.genesis
      BY <1>1, <2>5 DEF CapsTypes
    <3>2. \A part \in Parts : caps'[part] = caps[part]
      BY <3>1 DEF Parts
    <3>3. report \in Reports \cup {NoReport} /\ 0 \in Int /\ "exited" \in CapsPlaces
      BY <2>4 DEF CapsPlaces
    <3>4. CapsTypes'
      BY <1>1, <2>1, <2>5, <3>3 DEF CapsTypes
    <3> QED
      BY <3>1, <3>2, <3>4
  <2>7. \A part \in Parts : \A name \in NamesOf[part] : report[part][name] <=> HasFlag(caps[part], name)
    BY <2>4 DEF Parts, NamesOf, DetectFlags
  <2>8. replaced = 0 => binary.file = "program"
    BY <2>1 DEF CapsInv
  <2> QED
    BY <2>1, <2>4, <2>6, <2>7, <2>8 DEF CapsInv
<1>8. CASE UNCHANGED capsVars
  BY <1>8 DEF capsVars, CapsInv, CapsTypes, Found, Past
<1> QED
  BY <1>2, <1>3, <1>4, <1>5, <1>6, <1>7, <1>8 DEF ClientsNext, AQueryStep, ASendStep, ACapsStep, CapsNext, clientVars

\* It starts with it.
LEMMA CapsInitial == ClientsInit => CapsInv
<1> SUFFICES ASSUME ClientsInit PROVE CapsInv
  OBVIOUS
<1>1. binary \in Binaries /\ replaced = 0 /\ caps \in {Asked, [Asked EXCEPT !.pc = "off"]}
  BY DEF ClientsInit, CapsInit
<1>2. /\ caps \in [pc : CapsPlaces, version : Binaries \cup {NoReport}, server : HelpTexts, genesis : HelpTexts,
                    exit : Int, report : Reports \cup {NoReport}, cut : SUBSET Parts]
      /\ caps.exit = -1 /\ caps.version = NoReport /\ caps.pc \in {"off", "new"}
  <2>1. "off" \in CapsPlaces /\ "new" \in CapsPlaces
    BY DEF CapsPlaces
  <2>2. PICK none : none = <<>> /\ none \in HelpTexts
    BY NoHelp
  <2>3. PICK minus \in Int : minus = -1
    OBVIOUS
  <2>4. Asked = [pc |-> "new", version |-> NoReport, server |-> none, genesis |-> none, exit |-> minus,
                 report |-> NoReport, cut |-> {}]
    BY <2>2, <2>3 DEF Asked
  <2> QED
    BY <1>1, <2>1, <2>2, <2>3, <2>4
<1>3. CapsTypes
  BY <1>1, <1>2 DEF CapsTypes
<1>4. ~Found /\ \A part \in Parts : ~Past(part)
  <2>1. caps.exit # 0
    BY <1>2
  <2> QED
    BY <1>2, <2>1 DEF Found, Past, Forms
<1> QED
  BY <1>2, <1>3, <1>4 DEF CapsInv

----------------------------------------------------------------------------
(* Theorems *)

\* The invariants hold in every state.
THEOREM QueryInvariant == ClientsSpec => []QueryInv
<1> QED
  BY QueryInitial, QueryStep, PTL DEF ClientsSpec

\* Whoever waits for a receipt or has a nonce, whatever order the node takes
\* the transactions in, mines them and loses them.
THEOREM SendersInvariant == ClientsSpec => []SendersInv
<1> QED
  BY SendersInit, SendersStep, PTL DEF ClientsSpec

\* Whatever program is put at the path of another while it is looked at.
THEOREM CapsInvariant == ClientsSpec => []CapsInv
<1> QED
  BY CapsInitial, CapsStep, PTL DEF ClientsSpec

\* Every number that is printed is the one the node answered in this round,
\* for any base, any length of the digits and any width of a word; only
\* cmd/qikchain, which shifts without a check, prints something else, for an
\* answer that does not fit or is no number (rpc/hex.go:9-26,
\* qikchain/main.go:649-651, 781-802).
THEOREM NumbersAreRight == ClientsSpec => []NumbersAreTheNodes
<1>1. QueryInv => NumbersAreTheNodes
  BY DEF QueryInv
<1> QED
  BY <1>1, QueryInvariant, PTL

\* A program that asks ends with 0 if and only if it printed what it was asked
\* for, and with 2 only before it asks, but for one error of the node that
\* the stand-in for cobra takes for its user's (qikchaind/main.go:40-59,
\* internal/cli/root.go:46-81).
THEOREM QueriesTellTruth == ClientsSpec => []QueryTellsTruth
<1>1. QueryInv => QueryTellsTruth
  BY DEF QueryInv
<1> QED
  BY <1>1, QueryInvariant, PTL

\* A sender that ends with 0 has a transaction in a block or on the way to
\* one, and what it says of the receipt is so, for any number of senders,
\* jobs, blocks and restarts (txhelper/main.go:109-162, txsmoke/main.go:118-132).
THEOREM SendersTellTruth == ClientsSpec => []SenderTellsTruth
<1>1. SendersInv => SenderTellsTruth
  <2> SUFFICES ASSUME SendersInv, NEW p \in Senders, proc[p].exit = 0
               PROVE  LET told == proc[p].told IN
                      /\ p \in took
                      /\ \E ok \in BOOLEAN : InBlock(p, ok) \/ (p \in Range(pool) /\ NoGap) \/ restarts > 0 \/ FromOutside
                      /\ told.mined => InBlock(p, told.ok)
                      /\ proc[p].job.tool = "txsmoke" => told.mined /\ told.ok
                      /\ told.address = TRUE => told.ok \/ proc[p].job.cap
    BY DEF SenderTellsTruth
  <2>1. ToldOK(p) /\ PlacedOK /\ GapOK /\ restarts \in Nat
    BY DEF SendersInv, SendTypes
  <2>2. restarts > 0 \/ FromOutside \/ NoGap
    BY <2>1, NoGapInPool DEF GapOK
  <2>3. restarts > 0 \/ p \in Range(pool) \/ \E ok \in BOOLEAN : InBlock(p, ok)
    BY <2>1 DEF ToldOK, PlacedOK
  <2>4. \E ok \in BOOLEAN : InBlock(p, ok) \/ (p \in Range(pool) /\ NoGap) \/ restarts > 0 \/ FromOutside
    BY <2>2, <2>3
  <2> QED
    BY <2>1, <2>4, Zenon DEF ToldOK
<1> QED
  BY <1>1, SendersInvariant, PTL

\* Senders that run one after the other are never refused a nonce, unless
\* one of them failed and its transaction arrived late (txhelper/main.go:224,
\* txsmoke/main.go:67).
THEOREM SerialSendsSafe == ClientsSpec => []SerialSendsNeverClash
<1>1. SendersInv => SerialSendsNeverClash
  <2> SUFFICES ASSUME SendersInv, NEW p \in Senders, proc[p].refused, proc[p].job.action # "raw"
               PROVE  \E q \in Senders \ {p} :
                        /\ proc[q].nonce # Unset
                        /\ \/ q \notin proc[p].after /\ p \notin proc[q].after
                           \/ q \in took /\ proc[q].exit # 0
    BY DEF SerialSendsNeverClash
  <2>1. SentOK(p) /\ BlameOK(p) /\ RefusedOK(p)
    BY DEF SendersInv
  <2>2. PICK q \in Senders : Blames(p, q)
    BY <2>1 DEF SentOK, BlameOK, RefusedOK
  <2> QED
    BY <2>2 DEF Blames
<1> QED
  BY <1>1, SendersInvariant, PTL

\* Unless the program is replaced meanwhile, all that `qikchain edge caps`
\* reports is of one program, for any help texts (caps.go:30-57,
\* flags.go:13-16).
THEOREM CapsAreReported == ClientsSpec => []CapsTellTruth
<1>1. CapsInv => CapsTellTruth
  <2> SUFFICES ASSUME CapsInv, caps.exit = 0
               PROVE  LET report == caps.report IN
                      /\ replaced = 0 =>
                           /\ binary.file = "program" /\ report.hash = binary
                           /\ report.version \in {NoReport} \cup {b \in {binary} : b.answers # {}}
                           /\ \A part \in Parts \ caps.cut :
                                \A name \in NamesOf[part] :
                                  report[part][name] <=> \E i \in DOMAIN binary[part] : binary[part][i] = name
                      /\ \A part \in Parts : (\E name \in NamesOf[part] : report[part][name]) => caps[part] # <<>>
    BY DEF CapsTellTruth
  <2>1. /\ replaced = 0 => caps.report.hash = binary
        /\ caps.report.version = caps.version
        /\ \A part \in Parts : \A name \in NamesOf[part] : caps.report[part][name] <=> HasFlag(caps[part], name)
    BY DEF CapsInv
  <2>2. replaced = 0 => /\ binary.file = "program"
                        /\ caps.version # NoReport => caps.version = binary /\ binary.answers # {}
                        /\ \A part \in Parts \ caps.cut : caps[part] = binary[part]
    BY DEF CapsInv, Found, Past
  <2>3. \A part \in Parts : binary[part] \in HelpTexts
    BY CapsAssumption DEF CapsInv, CapsTypes, BinaryKinds, Parts
  <2>4. \A part \in Parts : DOMAIN binary[part] = 1..Len(binary[part])
    BY <2>3 DEF HelpTexts
  <2>5. ASSUME replaced = 0, NEW part \in Parts \ caps.cut, NEW name \in NamesOf[part]
        PROVE  caps.report[part][name] <=> \E i \in DOMAIN binary[part] : binary[part][i] = name
    BY <2>1, <2>2, <2>4, <2>5 DEF HasFlag, Contains
  <2>6. ASSUME NEW part \in Parts, NEW name \in NamesOf[part], caps.report[part][name] PROVE caps[part] # <<>>
    <3>1. \E i \in 1..Len(caps[part]) : caps[part][i] = name
      BY <2>1, <2>6 DEF HasFlag, Contains
    <3>2. Len(<<>>) = 0 /\ 1..0 = {}
      OBVIOUS
    <3> QED
      BY <3>1, <3>2
  <2> QED
    BY <2>1, <2>2, <2>5, <2>6
<1> QED
  BY <1>1, CapsInvariant, PTL

\* What a program says by its exit status and its output is what happened.
THEOREM ExitIsTrue == ClientsSpec => []ExitTellsTruth
<1>1. QueryTellsTruth /\ SenderTellsTruth /\ CapsTellTruth => ExitTellsTruth
  BY DEF ExitTellsTruth
<1> QED
  BY <1>1, QueriesTellTruth, SendersTellTruth, CapsAreReported, PTL

----------------------------------------------------------------------------
(* The paths of a document *)

\* One path leads to another if all its keys are the other's first.
LEMMA PrefixIs ==
  ASSUME NEW S, NEW p \in Seq(S), NEW q \in Seq(S)
  PROVE  IsPrefix(p, q) <=> Len(p) <= Len(q) /\ \A i \in 1..Len(p) : p[i] = q[i]
<1>1. SubSeq(p, 1, Len(p)) = p
  BY SubSeqFull
<1>2. Len(p) \in Nat /\ Len(q) \in Nat
  OBVIOUS
<1>3. CASE Len(p) <= Len(q)
  <2>1. /\ SubSeq(q, 1, Len(p)) \in Seq(S) /\ Len(SubSeq(q, 1, Len(p))) = Len(p)
        /\ \A i \in 1..Len(p) : SubSeq(q, 1, Len(p))[i] = q[i]
    BY <1>2, <1>3
  <2>2. p = SubSeq(q, 1, Len(p)) <=> \A i \in 1..Len(p) : p[i] = q[i]
    BY <2>1, SeqEqual
  <2> QED
    BY <1>1, <1>3, <2>2 DEF IsPrefix
<1> QED
  BY <1>3 DEF IsPrefix

\* The way on from a path, and back.
LEMMA BeyondIs ==
  ASSUME NEW S, NEW p \in Seq(S), NEW q \in Seq(S), IsPrefix(p, q)
  PROVE  /\ Beyond(p, q) \in Seq(S) /\ Len(Beyond(p, q)) = Len(q) - Len(p)
         /\ \A i \in 1..(Len(q) - Len(p)) : Beyond(p, q)[i] = q[Len(p) + i]
         /\ p \o Beyond(p, q) = q
<1>1. Len(p) \in Nat /\ Len(q) \in Nat /\ Len(p) <= Len(q) /\ \A i \in 1..Len(p) : p[i] = q[i]
  BY PrefixIs
<1>2. /\ Beyond(p, q) \in Seq(S) /\ Len(Beyond(p, q)) = Len(q) - Len(p)
      /\ \A i \in 1..(Len(q) - Len(p)) : Beyond(p, q)[i] = q[Len(p) + i]
  BY <1>1 DEF Beyond
<1>3. PICK r \in Seq(S) : r = Beyond(p, q)
  BY <1>2
<1>4. /\ p \o r \in Seq(S) /\ Len(p \o r) = Len(q)
      /\ \A i \in 1..Len(q) : (p \o r)[i] = q[i]
  <2>1. /\ p \o r \in Seq(S) /\ Len(p \o r) = Len(p) + Len(r)
        /\ \A i \in 1..(Len(p) + Len(r)) : (p \o r)[i] = IF i <= Len(p) THEN p[i] ELSE r[i - Len(p)]
    BY ConcatProperties
  <2>2. \A i \in 1..Len(q) : i <= Len(p) \/ (i - Len(p) \in 1..(Len(q) - Len(p)) /\ Len(p) + (i - Len(p)) = i)
    BY <1>1
  <2> QED
    BY <1>1, <1>2, <1>3, <2>1, <2>2
<1>5. p \o r = q
  BY <1>4, SeqEqual
<1> QED
  BY <1>2, <1>3, <1>5

\* What is put behind a path leads on from it.
LEMMA BehindIs ==
  ASSUME NEW S, NEW p \in Seq(S), NEW r \in Seq(S)
  PROVE  p \o r \in Seq(S) /\ IsPrefix(p, p \o r) /\ Beyond(p, p \o r) = r
<1>1. /\ p \o r \in Seq(S) /\ Len(p \o r) = Len(p) + Len(r)
      /\ \A i \in 1..(Len(p) + Len(r)) : (p \o r)[i] = IF i <= Len(p) THEN p[i] ELSE r[i - Len(p)]
  BY ConcatProperties
<1>2. PICK q \in Seq(S) : q = p \o r
  BY <1>1
<1>3. Len(p) \in Nat /\ Len(r) \in Nat
  OBVIOUS
<1>4. IsPrefix(p, q)
  <2>1. Len(q) = Len(p) + Len(r)
    BY <1>1, <1>2
  <2>2. \A i \in 1..Len(p) : p[i] = q[i]
    <3>1. \A i \in 1..Len(p) : i \in 1..(Len(p) + Len(r)) /\ i <= Len(p)
      BY <1>3
    <3> QED
      BY <1>1, <1>2, <3>1
  <2> QED
    BY <1>3, <2>1, <2>2, PrefixIs
<1>5. PICK b \in Seq(S) : b = Beyond(p, q)
  BY <1>4, BeyondIs
<1>6. Len(b) = Len(r) /\ \A i \in 1..Len(r) : b[i] = q[Len(p) + i]
  <2>1. Len(q) - Len(p) = Len(r)
    BY <1>1, <1>2, <1>3
  <2> QED
    BY <1>4, <1>5, <2>1, BeyondIs
<1>7. \A i \in 1..Len(r) : q[Len(p) + i] = r[i]
  BY <1>1, <1>2, <1>3
<1>8. b = r
  BY <1>6, <1>7, SeqEqual
<1> QED
  BY <1>1, <1>2, <1>4, <1>5, <1>8, Zenon

----------------------------------------------------------------------------
(* Reading and putting *)

\* Nothing is different from a path on.
SameUnder(d, e, p) ==
  \A q : IsPrefix(p, q) => (q \in DOMAIN d <=> q \in DOMAIN e) /\ (q \in DOMAIN d => d[q] = e[q])

\* Then nothing that is read there is.
LEMMA SameThere ==
  ASSUME NEW S, NEW p \in Seq(S), NEW d, DOMAIN d \subseteq Seq(S), NEW e, DOMAIN e \subseteq Seq(S), SameUnder(d, e, p)
  PROVE  /\ Sub(d, p) = Sub(e, p) /\ Keys(d, p) = Keys(e, p)
         /\ \A q : IsPrefix(p, q) => At(d, q) = At(e, q)
<1>1. Below(d, p) = Below(e, p)
  BY DEF Below, SameUnder
<1>2. \A r \in Below(d, p) : r \in Seq(S) /\ IsPrefix(p, r) /\ d[r] = e[r]
  BY DEF Below, SameUnder
<1>3. Sub(d, p) = Sub(e, p)
  <2>1. PICK D : D = {Beyond(p, r) : r \in Below(d, p)}
    OBVIOUS
  <2>2. \A q \in D : d[p \o q] = e[p \o q]
    <3> SUFFICES ASSUME NEW r \in Below(d, p) PROVE d[p \o Beyond(p, r)] = e[p \o Beyond(p, r)]
      BY <2>1
    <3>1. p \o Beyond(p, r) = r
      BY <1>2, BeyondIs
    <3> QED
      BY <1>2, <3>1
  <2>3. Sub(d, p) = [q \in D |-> d[p \o q]] /\ Sub(e, p) = [q \in D |-> e[p \o q]]
    BY <1>1, <2>1, Zenon DEF Sub
  <2> QED
    BY <2>2, <2>3
<1>4. Keys(d, p) = Keys(e, p)
  BY <1>1 DEF Keys
<1>5. \A q : IsPrefix(p, q) => At(d, q) = At(e, q)
  BY DEF SameUnder, At
<1> QED
  BY <1>3, <1>4, <1>5

\* Put changes what leads on from the path, and nothing else.
IsPut(e, d, p, sub) ==
  /\ \A q : ~IsPrefix(p, q) => (q \in DOMAIN e <=> q \in DOMAIN d) /\ (q \in DOMAIN d => e[q] = d[q])
  /\ \A r \in DOMAIN sub : p \o r \in DOMAIN e /\ e[p \o r] = sub[r]
  /\ \A q \in DOMAIN e : IsPrefix(p, q) => Beyond(p, q) \in DOMAIN sub /\ p \o Beyond(p, q) = q

\* It is that.
LEMMA PutIs ==
  ASSUME NEW S, NEW p \in Seq(S), NEW d, DOMAIN d \subseteq Seq(S), NEW sub, DOMAIN sub \subseteq Seq(S),
         NEW e, e = Put(d, p, sub)
  PROVE  DOMAIN e \subseteq Seq(S) /\ IsPut(e, d, p, sub)
<1>1. \A r \in DOMAIN sub : p \o r \in Seq(S) /\ IsPrefix(p, p \o r) /\ Beyond(p, p \o r) = r
  BY BehindIs
<1>2. PICK behind : behind = {p \o r : r \in DOMAIN sub}
  OBVIOUS
<1>3. PICK rest : rest = DOMAIN d \ Below(d, p)
  OBVIOUS
<1>5. e = [q \in rest \cup behind |-> IF IsPrefix(p, q) THEN sub[Beyond(p, q)] ELSE d[q]]
  BY <1>2, <1>3, Zenon DEF Put
<1>6. \A q : q \in rest <=> q \in DOMAIN d /\ ~IsPrefix(p, q)
  BY <1>3 DEF Below
<1>7. \A q : q \in behind <=> \E r \in DOMAIN sub : q = p \o r
  BY <1>2
<1>8. DOMAIN e = rest \cup behind
  BY <1>5
<1>9. \A q : ~IsPrefix(p, q) => (q \in DOMAIN e <=> q \in DOMAIN d) /\ (q \in DOMAIN d => e[q] = d[q])
  <2>1. \A q : q \in behind => IsPrefix(p, q)
    BY <1>1, <1>7
  <2>2. \A q \in rest : e[q] = d[q]
    BY <1>5, <1>6
  <2> QED
    BY <1>6, <1>8, <2>1, <2>2
<1>10. \A r \in DOMAIN sub : p \o r \in DOMAIN e /\ e[p \o r] = sub[r]
  <2> SUFFICES ASSUME NEW r \in DOMAIN sub PROVE p \o r \in DOMAIN e /\ e[p \o r] = sub[r]
    OBVIOUS
  <2>1. PICK q : q = p \o r
    OBVIOUS
  <2>2. q \in behind /\ IsPrefix(p, q) /\ Beyond(p, q) = r
    BY <1>1, <1>7, <2>1
  <2>3. q \in DOMAIN e /\ e[q] = sub[r]
    BY <1>5, <1>8, <2>2
  <2> QED
    BY <2>1, <2>3
<1>11. \A q \in DOMAIN e : IsPrefix(p, q) => Beyond(p, q) \in DOMAIN sub /\ p \o Beyond(p, q) = q
  <2> SUFFICES ASSUME NEW q \in DOMAIN e, IsPrefix(p, q) PROVE Beyond(p, q) \in DOMAIN sub /\ p \o Beyond(p, q) = q
    OBVIOUS
  <2>1. PICK r \in DOMAIN sub : q = p \o r
    BY <1>6, <1>7, <1>8
  <2>2. Beyond(p, q) = r
    BY <1>1, <2>1
  <2> QED
    BY <2>1, <2>2
<1>12. DOMAIN e \subseteq Seq(S)
  BY <1>1, <1>6, <1>7, <1>8, ZenonT(60)
<1> QED
  BY <1>9, <1>10, <1>11, <1>12 DEF IsPut

\* Two paths that part.
Apart(p, x) == \E i \in 1..Len(p) : i <= Len(x) /\ p[i] # x[i]

\* No path leads on from both.
LEMMA PathsPart ==
  ASSUME NEW S, NEW p \in Seq(S), NEW x \in Seq(S), NEW q \in Seq(S), Apart(p, x)
  PROVE  ~(IsPrefix(p, q) /\ IsPrefix(x, q))
<1>1. PICK i \in 1..Len(p) : i <= Len(x) /\ p[i] # x[i]
  BY DEF Apart
<1>2. i \in 1..Len(x)
  BY <1>1
<1>3. IsPrefix(p, q) => p[i] = q[i]
  BY PrefixIs
<1>4. IsPrefix(x, q) => x[i] = q[i]
  BY <1>2, PrefixIs
<1> QED
  BY <1>1, <1>3, <1>4

\* What is put elsewhere changes nothing here.
LEMMA PutElsewhere ==
  ASSUME NEW S, NEW p \in Seq(S), NEW x \in Seq(S), Apart(p, x),
         NEW d, DOMAIN d \subseteq Seq(S), NEW sub, DOMAIN sub \subseteq Seq(S)
  PROVE  SameUnder(Put(d, p, sub), d, x)
<1>1. PICK e : e = Put(d, p, sub)
  OBVIOUS
<1>2. DOMAIN e \subseteq Seq(S)
  BY <1>1, PutIs
<1>3. \A q : ~IsPrefix(p, q) => (q \in DOMAIN e <=> q \in DOMAIN d) /\ (q \in DOMAIN d => e[q] = d[q])
  BY <1>1, PutIs DEF IsPut
<1>4. \A q \in Seq(S) : IsPrefix(x, q) => ~IsPrefix(p, q)
  BY PathsPart
<1>5. SameUnder(e, d, x)
  BY <1>2, <1>3, <1>4 DEF SameUnder
<1> QED
  BY <1>1, <1>5, Zenon

\* The keys at a path are the next ones of what leads on.
LEMMA KeysAre ==
  ASSUME NEW S, NEW p \in Seq(S), NEW d, DOMAIN d \subseteq Seq(S)
  PROVE  \A k : k \in Keys(d, p) <=> \E q \in DOMAIN d : IsPrefix(p, q) /\ Len(q) > Len(p) /\ q[Len(p) + 1] = k
<1>1. ASSUME NEW q \in DOMAIN d, IsPrefix(p, q)
      PROVE  /\ Len(q) > Len(p) <=> q # p
             /\ Len(q) > Len(p) => Head(Beyond(p, q)) = q[Len(p) + 1]
  <2>1. q \in Seq(S)
    OBVIOUS
  <2>2. Len(p) \in Nat /\ Len(q) \in Nat /\ Len(p) <= Len(q) /\ \A i \in 1..Len(p) : p[i] = q[i]
    BY <1>1, <2>1, PrefixIs
  <2>3. Len(p) = Len(q) => p = q
    BY <2>1, <2>2, SeqEqual
  <2>4. Len(q) > Len(p) <=> q # p
    BY <2>2, <2>3
  <2>5. ASSUME Len(q) > Len(p) PROVE Head(Beyond(p, q)) = q[Len(p) + 1]
    <3>1. PICK b \in Seq(S) : b = Beyond(p, q) /\ Len(b) = Len(q) - Len(p) /\ \A i \in 1..(Len(q) - Len(p)) : b[i] = q[Len(p) + i]
      BY <1>1, <2>1, BeyondIs
    <3>2. b[1] = q[Len(p) + 1]
      BY <2>2, <2>5, <3>1
    <3>3. Head(b) = b[1]
      BY <2>2, <2>5, <3>1
    <3> QED
      BY <3>1, <3>2, <3>3
  <2> QED
    BY <2>4, <2>5
<1>2. \A k : k \in Keys(d, p) <=> \E q \in DOMAIN d : IsPrefix(p, q) /\ q # p /\ Head(Beyond(p, q)) = k
  BY DEF Keys, Below
<1> QED
  BY <1>1, <1>2

----------------------------------------------------------------------------
(* Filling in *)

\* What comes of one path of a document when it is filled.
Grown(doc, values, p) ==
  IF Known(doc, values, p) THEN {p \o q : q \in DOMAIN values[doc[p].key]} ELSE {p}

ValuesOK(S, values) == \A k \in DOMAIN values : DOMAIN values[k] \subseteq Seq(S)

\* What comes of a path leads on from it.
LEMMA GrownIs ==
  ASSUME NEW S, NEW doc, DOMAIN doc \subseteq Seq(S), NEW values, ValuesOK(S, values),
         NEW p \in DOMAIN doc, NEW r \in Grown(doc, values, p)
  PROVE  /\ r \in Seq(S) /\ IsPrefix(p, r)
         /\ Known(doc, values, p) => Beyond(p, r) \in DOMAIN values[doc[p].key] /\ p \o Beyond(p, r) = r
         /\ ~Known(doc, values, p) => r = p
<1>1. CASE Known(doc, values, p)
  <2>1. PICK q \in DOMAIN values[doc[p].key] : r = p \o q
    BY <1>1 DEF Grown
  <2>2. q \in Seq(S) /\ p \in Seq(S)
    BY <1>1 DEF Known, ValuesOK
  <2>3. r \in Seq(S) /\ IsPrefix(p, r) /\ Beyond(p, r) = q
    BY <2>1, <2>2, BehindIs
  <2> QED
    BY <1>1, <2>1, <2>3
<1>2. CASE ~Known(doc, values, p)
  <2>1. r = p
    BY <1>2 DEF Grown
  <2>2. p \in Seq(S)
    OBVIOUS
  <2>3. IsPrefix(p, p)
    BY <2>2, PrefixIs
  <2> QED
    BY <1>2, <2>1, <2>2, <2>3
<1> QED
  BY <1>1, <1>2

\* And from no other.
LEMMA OneRoot ==
  ASSUME NEW S, NEW doc, DOMAIN doc \subseteq Seq(S), IsTree(doc), NEW values, ValuesOK(S, values),
         NEW a \in DOMAIN doc, NEW b \in DOMAIN doc, Len(a) <= Len(b), NEW r \in Grown(doc, values, a), r \in Grown(doc, values, b)
  PROVE  a = b
<1>1. a \in Seq(S) /\ b \in Seq(S) /\ r \in Seq(S) /\ IsPrefix(a, r) /\ IsPrefix(b, r)
  BY GrownIs
<1>2. Len(a) \in Nat /\ Len(b) \in Nat /\ Len(r) \in Nat
  BY <1>1
<1>3. /\ Len(b) <= Len(r) /\ \A i \in 1..Len(a) : a[i] = r[i]
      /\ \A i \in 1..Len(b) : b[i] = r[i]
  BY <1>1, PrefixIs
<1>4. CASE Len(a) = Len(b)
  BY <1>1, <1>3, <1>4, SeqEqual
<1>5. CASE Len(a) < Len(b)
  <2>1. SubSeq(b, 1, Len(a)) = a
    <3>1. \A i \in 1..Len(a) : a[i] = b[i]
      BY <1>2, <1>3, <1>5
    <3>2. IsPrefix(a, b)
      BY <1>1, <1>2, <1>5, <3>1, PrefixIs
    <3> QED
      BY <1>1, <3>2, SubSeqFull DEF IsPrefix
  <2>2. doc[a] = Obj
    <3>1. Len(a) \in 0..(Len(b) - 1)
      BY <1>2, <1>5
    <3> QED
      BY <2>1, <3>1 DEF IsTree
  <2>3. ~Known(doc, values, a)
    BY <2>2 DEF Known, Obj
  <2>4. r = a
    BY <2>3, GrownIs
  <2> QED
    BY <1>2, <1>3, <1>5, <2>4
<1> QED
  BY <1>2, <1>4, <1>5

\* What filling a document makes of each of its paths.
LEMMA FilledIs ==
  ASSUME NEW S, NEW doc, DOMAIN doc \subseteq Seq(S), IsTree(doc), NEW values, ValuesOK(S, values),
         NEW e, e = ApplyPlaceholders(doc, values)
  PROVE  /\ DOMAIN e \subseteq Seq(S)
         /\ \A p \in DOMAIN doc : ~Known(doc, values, p) => p \in DOMAIN e /\ (doc[p].kind # "mixed" => e[p] = doc[p])
         /\ \A p \in DOMAIN doc : Known(doc, values, p) =>
              \A q \in DOMAIN values[doc[p].key] : p \o q \in DOMAIN e /\ e[p \o q] = values[doc[p].key][q]
         /\ \A r \in DOMAIN e : \E p \in DOMAIN doc : r \in Grown(doc, values, p)
<1> DEFINE Root(r) == CHOOSE p \in DOMAIN doc : r \in Grown(doc, values, p)
           Filled(ks) == IF ks \subseteq DOMAIN values THEN Str("filled") ELSE Mixed(ks \ DOMAIN values)
           Value(p, r) == IF Known(doc, values, p) THEN values[doc[p].key][Beyond(p, r)]
                          ELSE IF doc[p].kind = "mixed" THEN Filled(doc[p].keys) ELSE doc[p]
<1>1. PICK D : D = UNION {Grown(doc, values, p) : p \in DOMAIN doc}
  OBVIOUS
<1>2. e = [r \in D |-> Value(Root(r), r)]
  BY <1>1, Zenon DEF ApplyPlaceholders, Grown
<1>3. \A r : r \in D <=> \E p \in DOMAIN doc : r \in Grown(doc, values, p)
  BY <1>1
<1>4. ASSUME NEW p \in DOMAIN doc, NEW r \in Grown(doc, values, p) PROVE Root(r) = p
  <2>1. Root(r) \in DOMAIN doc /\ r \in Grown(doc, values, Root(r))
    OBVIOUS
  <2> HIDE DEF Root
  <2>2. PICK a \in DOMAIN doc : a = Root(r)
    BY <2>1
  <2>3. r \in Grown(doc, values, a)
    BY <2>1, <2>2
  <2>4. Len(a) <= Len(p) => a = p
    BY <2>3, OneRoot
  <2>5. Len(p) <= Len(a) => a = p
    BY <2>3, OneRoot
  <2>6. Len(a) \in Nat /\ Len(p) \in Nat
    OBVIOUS
  <2> QED
    BY <2>2, <2>4, <2>5, <2>6
<1> HIDE DEF Root
<1>5. ASSUME NEW p \in DOMAIN doc, NEW r \in Grown(doc, values, p) PROVE r \in DOMAIN e /\ e[r] = Value(p, r)
  <2>1. r \in D /\ Root(r) = p
    BY <1>3, <1>4
  <2> HIDE DEF Value
  <2> QED
    BY <1>2, <2>1
<1>6. DOMAIN e \subseteq Seq(S) /\ \A r \in DOMAIN e : \E p \in DOMAIN doc : r \in Grown(doc, values, p)
  <2>1. DOMAIN e = D
    BY <1>2
  <2>2. \A p \in DOMAIN doc : \A r \in Grown(doc, values, p) : r \in Seq(S)
    BY GrownIs
  <2> QED
    BY <1>3, <2>1, <2>2
<1>7. ASSUME NEW p \in DOMAIN doc, ~Known(doc, values, p) PROVE p \in DOMAIN e /\ (doc[p].kind # "mixed" => e[p] = doc[p])
  <2>1. p \in Grown(doc, values, p)
    BY <1>7 DEF Grown
  <2>2. p \in DOMAIN e /\ e[p] = Value(p, p)
    BY <1>5, <2>1
  <2> QED
    BY <1>7, <2>2
<1>8. ASSUME NEW p \in DOMAIN doc, Known(doc, values, p), NEW q \in DOMAIN values[doc[p].key]
      PROVE  p \o q \in DOMAIN e /\ e[p \o q] = values[doc[p].key][q]
  <2>1. PICK r : r = p \o q
    OBVIOUS
  <2>2. r \in Grown(doc, values, p)
    BY <1>8, <2>1 DEF Grown
  <2>3. r \in DOMAIN e /\ e[r] = Value(p, r)
    BY <1>5, <2>2
  <2>4. p \in Seq(S) /\ q \in Seq(S)
    BY <1>8 DEF Known, ValuesOK
  <2>5. Beyond(p, r) = q
    BY <2>1, <2>4, BehindIs
  <2> QED
    BY <1>8, <2>1, <2>3, <2>5
<1> QED
  BY <1>6, <1>7, <1>8

\* The keys of documents: strings, and the ones that the builder itself looks
\* for, of which no prover knows that they are strings.
Word == STRING \cup {"genesis", "alloc", "balance", "params", "engine", "ibft", "forks", "block", "consensus", "type"}

\* A configuration is a document.
LEMMA ConfigIs ==
  ASSUME NEW doc, IsConfig(doc)
  PROVE  DOMAIN doc \subseteq Seq(Word) /\ IsTree(doc) /\ <<>> \in DOMAIN doc /\ doc[<<>>] = Obj /\ <<"alloc">> \notin DOMAIN doc
<1>1. Seq(STRING) \subseteq Seq(Word)
  BY SeqMonotonic DEF Word
<1> QED
  BY <1>1 DEF IsConfig, IsTree

\* What the known keys stand for are documents.
DocsOK(values) == \A k \in DOMAIN values : DOMAIN values[k] \subseteq Seq(Word) /\ <<>> \in DOMAIN values[k]

\* One value is a document.
LEMMA JustIs ==
  ASSUME NEW x
  PROVE  DOMAIN Just(x) = {<<>>} /\ Just(x)[<<>>] = x /\ DOMAIN Just(x) \subseteq Seq(Word)
<1>1. <<>> \in Seq(Word)
  BY EmptySeq
<1> QED
  BY <1>1 DEF Just

\* A document is a function of its paths.
IsMap(v) == v = [q \in DOMAIN v |-> v[q]]

\* The addresses that are to be paid.
Hexes(cfg) == {cfg.entries[e].address.hex : e \in DOMAIN cfg.entries}

\* What is rendered of the allocations: one key for each address.
IsRendered(r, cfg) ==
  /\ DOMAIN r = {<<>>} \cup {<<a>> : a \in Hexes(cfg)} \cup {<<a, "balance">> : a \in Hexes(cfg)}
  /\ DOMAIN r \subseteq Seq(Word) /\ <<>> \in DOMAIN r /\ r[<<>>] = Obj /\ IsMap(r)
  /\ \A a \in Hexes(cfg) : \E e \in DOMAIN cfg.entries :
       cfg.entries[e].address.hex = a /\ r[<<a, "balance">>] = Str(cfg.entries[e].amount)

\* It is that.
LEMMA RenderedIs ==
  ASSUME NEW cfg, Hexes(cfg) \subseteq Word, NEW r, r = RenderAllocMap(cfg)
  PROVE  IsRendered(r, cfg)
<1>4. PICK H : H = Hexes(cfg)
  OBVIOUS
<1> DEFINE Who(a) == CHOOSE e \in DOMAIN cfg.entries : Normalized(cfg.entries[e].address, TRUE) = a
<1>1. \A e \in DOMAIN cfg.entries : Normalized(cfg.entries[e].address, TRUE) = cfg.entries[e].address.hex
  BY DEF Normalized
<1>2. H = {Normalized(cfg.entries[e].address, TRUE) : e \in DOMAIN cfg.entries}
  BY <1>1, <1>4 DEF Hexes
<1>3. \A a \in H : Who(a) \in DOMAIN cfg.entries /\ cfg.entries[Who(a)].address.hex = a
  BY <1>1, <1>4 DEF Hexes
<1> HIDE DEF Who
<1>6. PICK D : D = {<<>>} \cup {<<a>> : a \in H} \cup {<<a, "balance">> : a \in H}
  OBVIOUS
<1>7. r = [p \in D |-> IF Len(p) < 2 THEN Obj ELSE Str(cfg.entries[Who(p[1])].amount)]
  BY <1>2, <1>6, Zenon DEF RenderAllocMap, Who
<1>8. DOMAIN r = D
  BY <1>7
<1>9. D \subseteq Seq(Word)
  <2>1. PICK S : S = Word
    OBVIOUS
  <2>2. <<>> \in Seq(S)
    BY EmptySeq
  <2>8. "balance" \in Word
    BY DEF Word
  <2>3. PICK b \in S : b = "balance"
    BY <2>1, <2>8, Zenon
  <2>4. \A a \in S : <<a>> \in Seq(S)
    OBVIOUS
  <2>5. \A a \in S : <<a, b>> \in Seq(S)
    OBVIOUS
  <2>6. H \subseteq S
    BY <1>4, <2>1
  <2>7. D \subseteq Seq(S)
    BY <1>6, <2>2, <2>3, <2>4, <2>5, <2>6
  <2> QED
    BY <2>1, <2>7
<1>10. <<>> \in DOMAIN r /\ r[<<>>] = Obj
  BY <1>6, <1>7
<1>11. ASSUME NEW a \in H PROVE r[<<a, "balance">>] = Str(cfg.entries[Who(a)].amount)
  <2>1. PICK p : p = <<a, "balance">>
    OBVIOUS
  <2>2. p \in D /\ ~(Len(p) < 2) /\ p[1] = a
    BY <1>6, <2>1
  <2>3. r[p] = Str(cfg.entries[Who(p[1])].amount)
    BY <1>7, <2>2
  <2> QED
    BY <2>1, <2>2, <2>3
<1>12. \A a \in H : \E e \in DOMAIN cfg.entries :
         cfg.entries[e].address.hex = a /\ r[<<a, "balance">>] = Str(cfg.entries[e].amount)
  BY <1>3, <1>11
<1>13. IsMap(r)
  BY <1>7 DEF IsMap
<1> QED
  BY <1>4, <1>6, <1>8, <1>9, <1>10, <1>12, <1>13 DEF IsRendered

\* What the placeholders stand for.
LEMMA ValuesAre ==
  ASSUME NEW o, NEW input \in Inputs, NEW values, values = Placeholders(o, input)
  PROVE  /\ DocsOK(values)
         /\ "PREALLOCATIONS" \in DOMAIN values /\ values["PREALLOCATIONS"] = RenderAllocMap(input.alloc)
<1>0. PICK render : render = RenderAllocMap(input.alloc)
  OBVIOUS
<1>1. DOMAIN render \subseteq Seq(Word) /\ <<>> \in DOMAIN render
  <2>1. PICK cfg : cfg = input.alloc
    OBVIOUS
  <2>2. Hexes(cfg) \subseteq Word
    BY <2>1, InputsAssumption DEF Hexes, Word
  <2> QED
    BY <1>0, <2>1, <2>2, RenderedIs DEF IsRendered
<1>2. PICK base : base = [CHAIN_ID |-> Just(Num(ChainID(o))), BLOCK_GAS_LIMIT |-> Just(Str(ToHexQuantity(GasLimit(o)))),
                GENESIS_DIFFICULTY |-> Just(Str(ToHexQuantity(o["difficulty"]))), MIN_GAS_PRICE |-> Just(Str("price")),
               BASE_FEE_ENABLED |-> Just(Bool(o["base-fee-enabled"])),
               PREALLOCATIONS |-> render,
               POS_BLOCK_REWARD |-> Just(Str("0")), VALIDATOR_EXTRA_DATA |-> Just(Str("extra"))]
  OBVIOUS
<1>3. \A x : DOMAIN Just(x) \subseteq Seq(Word) /\ <<>> \in DOMAIN Just(x)
  BY JustIs
<1>4. DocsOK(base) /\ "PREALLOCATIONS" \in DOMAIN base /\ base["PREALLOCATIONS"] = render
  BY <1>1, <1>2, <1>3 DEF DocsOK
<1>9. PICK pos : pos = PosAddresses(o, input)
  OBVIOUS
<1>5. DOMAIN pos = {"STAKING_ADDRESS", "VALIDATOR_SET_ADDRESS"}
  <2>1. CASE o["pos-deployments"] \in DOMAIN input.deployments
    BY <1>9, <2>1, InputsAssumption DEF PosAddresses
  <2>2. CASE o["pos-deployments"] \notin DOMAIN input.deployments
    BY <1>9, <2>2 DEF PosAddresses, PosHoles
  <2> QED
    BY <2>1, <2>2
<1>6. values = IF o["consensus"] # "pos" THEN base
               ELSE [k \in DOMAIN base \cup DOMAIN pos |-> IF k \in DOMAIN pos THEN Just(pos[k]) ELSE base[k]]
  BY <1>0, <1>2, <1>9, Zenon DEF Placeholders
<1>7. CASE o["consensus"] # "pos"
  BY <1>0, <1>4, <1>6, <1>7
<1>8. CASE o["consensus"] = "pos"
  <2>1. values = [k \in DOMAIN base \cup DOMAIN pos |-> IF k \in DOMAIN pos THEN Just(pos[k]) ELSE base[k]]
    BY <1>6, <1>8
  <2>2. DocsOK(values)
    BY <1>3, <1>4, <2>1 DEF DocsOK
  <2>3. "PREALLOCATIONS" \in DOMAIN values /\ values["PREALLOCATIONS"] = render
    BY <1>4, <1>5, <2>1
  <2> QED
    BY <1>0, <2>2, <2>3
<1> QED
  BY <1>7, <1>8

----------------------------------------------------------------------------
(* Merging, the engine and the forks *)

\* The documents are alike wherever they do not lead to the parameters.
SameOutside(d, e) ==
  \A q : ~IsPrefix(<<"params">>, q) => (q \in DOMAIN d <=> q \in DOMAIN e) /\ (q \in DOMAIN d => d[q] = e[q])

\* No path leads through there.
NoneUnder(d, p) == \A q \in DOMAIN d : ~IsPrefix(p, q)

\* What the paths are.
LEMMA PathsAre ==
  /\ <<"params">> \in Seq(Word) /\ Len(<<"params">>) = 1 /\ <<"params">>[1] = "params"
  /\ <<"genesis">> \in Seq(Word) /\ Len(<<"genesis">>) = 1 /\ <<"genesis">>[1] = "genesis"
  /\ EnginePath \in Seq(Word) /\ Len(EnginePath) = 2 /\ EnginePath[1] = "params" /\ EnginePath[2] = "engine"
  /\ IbftPath \in Seq(Word) /\ Len(IbftPath) = 3 /\ IbftPath[1] = "params" /\ IbftPath[2] = "engine" /\ IbftPath[3] = "ibft"
<1>1. "params" \in Word /\ "engine" \in Word /\ "ibft" \in Word /\ "genesis" \in Word
  BY DEF Word
<1>2. PICK S : S = Word
  OBVIOUS
<1>3. PICK a \in S, b \in S, c \in S, d \in S : a = "params" /\ b = "engine" /\ c = "ibft" /\ d = "genesis"
  BY <1>1, <1>2, Zenon
<1>4. /\ <<a>> \in Seq(S) /\ <<d>> \in Seq(S) /\ <<a, b>> \in Seq(S) /\ <<a, b, c>> \in Seq(S)
  OBVIOUS
<1> QED
  BY <1>2, <1>3, <1>4 DEF EnginePath, IbftPath

\* Which of those a path can be that leads on to another.
LEMMA UpToIbft ==
  ASSUME NEW p \in Seq(Word), NEW q \in Seq(Word), IsPrefix(p, q), IsPrefix(IbftPath, q), ~IsPrefix(IbftPath, p)
  PROVE  p \in {<<>>, <<"params">>, EnginePath} /\ Len(q) > Len(p)
<1>1. Len(p) \in Nat /\ Len(q) \in Nat /\ Len(p) <= Len(q) /\ \A i \in 1..Len(p) : p[i] = q[i]
  BY PrefixIs
<1>2. 3 <= Len(q) /\ \A i \in 1..3 : IbftPath[i] = q[i]
  BY PathsAre, PrefixIs, SMTT(30)
<1>3. Len(p) < 3
  <2> SUFFICES ASSUME Len(p) >= 3 PROVE FALSE
    BY <1>1
  <2>1. \A i \in 1..3 : IbftPath[i] = p[i]
    BY <1>1, <1>2
  <2>2. Len(IbftPath) = 3 /\ IbftPath \in Seq(Word)
    BY PathsAre
  <2>3. IsPrefix(IbftPath, p)
    BY <1>1, <2>1, <2>2, PrefixIs
  <2> QED
    BY <2>3
<1>4. CASE Len(p) = 0
  BY <1>1, <1>2, <1>4
<1>5. CASE Len(p) = 1
  <2>1. p[1] = <<"params">>[1]
    BY <1>1, <1>2, <1>5, PathsAre
  <2>2. p = <<"params">>
    BY <1>5, <2>1, PathsAre, SeqEqual
  <2> QED
    BY <1>2, <1>5, <2>2
<1>6. CASE Len(p) = 2
  <2>1. p[1] = EnginePath[1] /\ p[2] = EnginePath[2]
    BY <1>1, <1>2, <1>6, PathsAre
  <2>2. PICK e \in Seq(Word) : e = EnginePath /\ Len(e) = 2
    BY PathsAre
  <2>3. \A i \in 1..Len(p) : p[i] = e[i]
    BY <1>6, <2>1, <2>2
  <2>4. p = e
    BY <1>6, <2>2, <2>3, SeqEqual
  <2> QED
    BY <1>2, <1>6, <2>2, <2>4
<1>7. Len(p) = 0 \/ Len(p) = 1 \/ Len(p) = 2
  <2>1. \A n \in Nat : n < 3 => n = 0 \/ n = 1 \/ n = 2
    OBVIOUS
  <2> QED
    BY <1>1, <1>3, <2>1
<1> QED
  BY <1>4, <1>5, <1>6, <1>7, Zenon

\* Merging makes up no path, and what the overlay says goes.
LEMMA MergeIs ==
  ASSUME NEW base, NEW overlay, NEW m, m = DeepMerge(base, overlay)
  PROVE  /\ DOMAIN m \subseteq DOMAIN base \cup DOMAIN overlay
         /\ \A p \in DOMAIN overlay : p \in DOMAIN m /\ m[p] = overlay[p]
         /\ \A p \in DOMAIN m \ DOMAIN overlay : m[p] = base[p]
         /\ \A p \in DOMAIN base \ DOMAIN overlay :
              (\A n \in 1..Len(p) : SubSeq(p, 1, n) \in DOMAIN overlay => overlay[SubSeq(p, 1, n)] = Obj) => p \in DOMAIN m
<1> DEFINE Survives(p) == \A n \in 1..Len(p) :
             SubSeq(p, 1, n) \in DOMAIN overlay => overlay[SubSeq(p, 1, n)] = Obj
<1>1. PICK kept : kept = {p \in DOMAIN base \ DOMAIN overlay : Survives(p)}
  OBVIOUS
<1>2. m = [p \in DOMAIN overlay \cup kept |-> IF p \in kept THEN base[p] ELSE overlay[p]]
  BY <1>1, ZenonT(60) DEF DeepMerge
<1>3. \A p : p \in kept <=> p \in DOMAIN base /\ p \notin DOMAIN overlay /\ Survives(p)
  BY <1>1
<1> HIDE DEF Survives
<1>4. DOMAIN m = DOMAIN overlay \cup kept
  BY <1>2
<1>5. /\ DOMAIN m \subseteq DOMAIN base \cup DOMAIN overlay
      /\ \A p \in DOMAIN overlay : p \in DOMAIN m /\ m[p] = overlay[p]
      /\ \A p \in DOMAIN m \ DOMAIN overlay : m[p] = base[p]
      /\ \A p \in DOMAIN base \ DOMAIN overlay : Survives(p) => p \in DOMAIN m
  BY <1>2, <1>3, <1>4
<1> QED
  BY <1>5 DEF Survives

\* An object is where one is made, or was before.
LEMMA MadeIs ==
  ASSUME NEW p \in Seq(Word), NEW d, DOMAIN d \subseteq Seq(Word), NEW e, e = PutIfNoObject(d, p)
  PROVE  /\ DOMAIN e \subseteq Seq(Word) /\ p \in DOMAIN e /\ e[p].kind = "object"
         /\ \A q : ~IsPrefix(p, q) => (q \in DOMAIN e <=> q \in DOMAIN d) /\ (q \in DOMAIN d => e[q] = d[q])
         /\ \A q \in DOMAIN e : q = p \/ q \in DOMAIN d
<1>1. CASE IsObject(d, p)
  <2>1. e = d
    BY <1>1 DEF PutIfNoObject
  <2>2. p \in DOMAIN d /\ d[p].kind = "object"
    BY <1>1 DEF IsObject, At, Absent
  <2> QED
    BY <2>1, <2>2
<1>2. CASE ~IsObject(d, p)
  <2>1. PICK sub : sub = Just(Obj) /\ DOMAIN sub = {<<>>} /\ sub[<<>>] = Obj /\ DOMAIN sub \subseteq Seq(Word)
    BY JustIs
  <2>2. e = Put(d, p, sub)
    BY <1>2, <2>1, Zenon DEF PutIfNoObject
  <2>3. p \o <<>> = p
    BY ConcatEmptySeq
  <2>8. /\ \A q : \A r \in DOMAIN sub : q = p \o r => q \in DOMAIN e /\ e[q] = sub[r]
        /\ \A q \in DOMAIN e : IsPrefix(p, q) => \E r \in DOMAIN sub : q = p \o r
    <3>1. IsPut(e, d, p, sub)
      BY <2>1, <2>2, PutIs
    <3>2. \A q : \A r \in DOMAIN sub : q = p \o r => q \in DOMAIN e /\ e[q] = sub[r]
      BY <3>1, Zenon DEF IsPut
    <3>3. \A q \in DOMAIN e : IsPrefix(p, q) => \E r \in DOMAIN sub : q = p \o r
      BY <3>1, Zenon DEF IsPut
    <3> QED
      BY <3>2, <3>3
  <2>4. /\ DOMAIN e \subseteq Seq(Word)
        /\ \A q : ~IsPrefix(p, q) => (q \in DOMAIN e <=> q \in DOMAIN d) /\ (q \in DOMAIN d => e[q] = d[q])
    BY <2>1, <2>2, PutIs, ZenonT(60) DEF IsPut
  <2>5. p \o <<>> \in DOMAIN e /\ e[p \o <<>>] = Obj
    <3>1. PICK none \in DOMAIN sub : none = <<>>
      BY <2>1
    <3>2. PICK q : q = p \o none
      OBVIOUS
    <3>3. q \in DOMAIN e /\ e[q] = sub[none]
      BY <2>8, <3>2
    <3> QED
      BY <2>1, <3>1, <3>2, <3>3, Zenon
  <2>6. p \in DOMAIN e /\ e[p].kind = "object"
    BY <2>3, <2>5 DEF Obj
  <2>7. ASSUME NEW q \in DOMAIN e PROVE q = p \/ q \in DOMAIN d
    <3>1. CASE IsPrefix(p, q)
      <4>1. PICK r \in DOMAIN sub : q = p \o r
        BY <2>8, <3>1
      <4>2. r = <<>>
        BY <2>1
      <4> QED
        BY <2>3, <4>1, <4>2, Zenon
    <3> QED
      BY <2>4, <3>1
  <2> QED
    BY <2>4, <2>6, <2>7
<1> QED
  BY <1>1, <1>2

\* The old keys are removed with all that is under them, and nothing else.
LEMMA RemoveIs ==
  ASSUME NEW d, DOMAIN d \subseteq Seq(Word), NEW e, e = RemoveForbiddenTopLevelKeys(d)
  PROVE  /\ DOMAIN e \subseteq DOMAIN d /\ \A q \in DOMAIN e : e[q] = d[q]
         /\ \A q \in DOMAIN d : q \in DOMAIN e <=> q = <<>> \/ q[1] \notin LegacyKeys
<1>1. PICK D : D = {q \in DOMAIN d : q = <<>> \/ Head(q) \notin LegacyKeys}
  OBVIOUS
<1>2. e = [p \in D |-> d[p]]
  BY <1>1, Zenon DEF RemoveForbiddenTopLevelKeys
<1>3. DOMAIN e = D /\ \A q \in D : e[q] = d[q]
  BY <1>2
<1>4. PICK S : S = Word
  OBVIOUS
<1>5. ASSUME NEW q \in DOMAIN d, q # <<>> PROVE Head(q) = q[1]
  <2>1. q \in Seq(S)
    BY <1>4
  <2> QED
    BY <1>5, <2>1
<1>6. \A q \in DOMAIN d : q \in DOMAIN e <=> q = <<>> \/ q[1] \notin LegacyKeys
  BY <1>1, <1>3, <1>5
<1> QED
  BY <1>1, <1>3, <1>6

\* What the engine of the overlay makes of a document.
LEMMA EngineIs ==
  ASSUME NEW d, DOMAIN d \subseteq Seq(Word), NEW overlay, DOMAIN overlay \subseteq Seq(Word),
         NEW e, e = EnsureParamsEngineIBFT(d, overlay)
  PROVE  /\ DOMAIN e \subseteq Seq(Word) /\ IsObject(e, <<"params">>) /\ SameOutside(e, d)
         /\ \A q \in DOMAIN e : q \in DOMAIN d \/ q \in DOMAIN overlay \/ q = <<"params">> \/ q = EnginePath
         /\ IsObject(overlay, EnginePath) /\ "ibft" \in Keys(overlay, EnginePath) => SameUnder(e, overlay, IbftPath)
<1>1. PICK par : par = <<"params">> /\ par \in Seq(Word) /\ Len(par) = 1 /\ par[1] = "params"
  BY PathsAre
<1>2. PICK eng : eng = EnginePath /\ eng \in Seq(Word) /\ Len(eng) = 2 /\ eng[1] = "params" /\ eng[2] = "engine"
  BY PathsAre
<1>3. PICK one : one = PutIfNoObject(d, par)
  OBVIOUS
<1>4. PICK two : two = PutIfNoObject(one, eng)
  OBVIOUS
<1>5. /\ DOMAIN one \subseteq Seq(Word) /\ par \in DOMAIN one /\ one[par].kind = "object"
      /\ \A q : ~IsPrefix(par, q) => (q \in DOMAIN one <=> q \in DOMAIN d) /\ (q \in DOMAIN d => one[q] = d[q])
      /\ \A q \in DOMAIN one : q = par \/ q \in DOMAIN d
  <2>1. par \in Seq(Word)
    BY <1>1
  <2> QED
    BY <1>3, <2>1, MadeIs
<1>6. /\ DOMAIN two \subseteq Seq(Word) /\ eng \in DOMAIN two /\ two[eng].kind = "object"
      /\ \A q : ~IsPrefix(eng, q) => (q \in DOMAIN two <=> q \in DOMAIN one) /\ (q \in DOMAIN one => two[q] = one[q])
      /\ \A q \in DOMAIN two : q = eng \/ q \in DOMAIN one
  BY <1>2, <1>4, <1>5, MadeIs
<1>7. \A q \in Seq(Word) : IsPrefix(eng, q) => IsPrefix(par, q)
  <2> SUFFICES ASSUME NEW q \in Seq(Word), IsPrefix(eng, q) PROVE IsPrefix(par, q)
    OBVIOUS
  <2>1. 2 <= Len(q) /\ \A i \in 1..2 : eng[i] = q[i]
    BY <1>2, PrefixIs
  <2>2. Len(par) <= Len(q) /\ \A i \in 1..Len(par) : par[i] = q[i]
    BY <1>1, <1>2, <2>1
  <2> QED
    BY <1>1, <2>2, PrefixIs
<1>8. par \in DOMAIN two /\ two[par].kind = "object"
  <2>1. ~IsPrefix(eng, par)
    BY <1>1, <1>2, PrefixIs
  <2> QED
    BY <1>5, <1>6, <2>1
<1>9. \A q \in Seq(Word) : ~IsPrefix(par, q) => (q \in DOMAIN two <=> q \in DOMAIN d) /\ (q \in DOMAIN d => two[q] = d[q])
  BY <1>5, <1>6, <1>7
<1> DEFINE mine(p) == Len(p) > 2 /\ IsPrefix(eng, p) /\ p[3] \in Keys(overlay, eng)
<1>10. e = IF ~IsObject(overlay, eng) THEN two
           ELSE [p \in {q \in DOMAIN two : ~mine(q)} \cup {q \in DOMAIN overlay : mine(q)} |->
                   IF mine(p) THEN overlay[p] ELSE two[p]]
  BY <1>1, <1>2, <1>3, <1>4, ZenonT(60) DEF EnsureParamsEngineIBFT, EnginePath
<1>11. ~mine(par)
  BY <1>1
<1>12. \A q \in Seq(Word) : mine(q) => IsPrefix(par, q)
  BY <1>7
<1>13. /\ DOMAIN e \subseteq DOMAIN two \cup DOMAIN overlay
       /\ \A q : ~mine(q) => (q \in DOMAIN e => q \in DOMAIN two) /\ (q \in DOMAIN two => q \in DOMAIN e /\ e[q] = two[q])
       /\ IsObject(overlay, eng) =>
            \A q : mine(q) => (q \in DOMAIN e <=> q \in DOMAIN overlay) /\ (q \in DOMAIN overlay => e[q] = overlay[q])
  <2> HIDE DEF mine
  <2>1. CASE ~IsObject(overlay, eng)
    BY <1>10, <2>1
  <2>2. CASE IsObject(overlay, eng)
    <3>1. PICK D : D = {q \in DOMAIN two : ~mine(q)} \cup {q \in DOMAIN overlay : mine(q)}
      OBVIOUS
    <3>2. e = [p \in D |-> IF mine(p) THEN overlay[p] ELSE two[p]]
      BY <1>10, <2>2, <3>1
    <3>3. DOMAIN e = D /\ \A q \in D : e[q] = IF mine(q) THEN overlay[q] ELSE two[q]
      BY <3>2
    <3> QED
      BY <3>1, <3>3
  <2> QED
    BY <2>1, <2>2
<1>14. DOMAIN e \subseteq Seq(Word)
  BY <1>6, <1>13
<1>15. IsObject(e, par)
  <2> HIDE DEF mine
  <2>1. par \in DOMAIN e /\ e[par] = two[par]
    BY <1>8, <1>11, <1>13
  <2> QED
    BY <1>8, <2>1 DEF IsObject, At
<1>16. SameOutside(e, d)
  <2> HIDE DEF mine
  <2>1. ASSUME NEW q, ~IsPrefix(par, q)
        PROVE  (q \in DOMAIN e <=> q \in DOMAIN d) /\ (q \in DOMAIN d => e[q] = d[q])
    <3>1. CASE q \notin Seq(Word)
      BY <1>14, <3>1
    <3>2. CASE q \in Seq(Word)
      <4>1. ~mine(q)
        BY <1>12, <2>1, <3>2
      <4>2. (q \in DOMAIN e => q \in DOMAIN two) /\ (q \in DOMAIN two => q \in DOMAIN e /\ e[q] = two[q])
        BY <1>13, <4>1
      <4> QED
        BY <1>9, <2>1, <3>2, <4>2
    <3> QED
      BY <3>1, <3>2
  <2> QED
    BY <1>1, <2>1 DEF SameOutside
<1>17. \A q \in DOMAIN e : q \in DOMAIN d \/ q \in DOMAIN overlay \/ q = par \/ q = eng
  <2> HIDE DEF mine
  <2> QED
    BY <1>5, <1>6, <1>13
<1>18. ASSUME IsObject(overlay, eng), "ibft" \in Keys(overlay, eng) PROVE SameUnder(e, overlay, IbftPath)
  <2>1. ASSUME NEW q, IsPrefix(IbftPath, q)
        PROVE  (q \in DOMAIN e <=> q \in DOMAIN overlay) /\ (q \in DOMAIN e => e[q] = overlay[q])
    <3>1. CASE q \notin Seq(Word)
      BY <1>14, <3>1
    <3>2. CASE q \in Seq(Word)
      <4>1. 3 <= Len(q) /\ \A i \in 1..3 : IbftPath[i] = q[i]
        BY <2>1, <3>2, PathsAre, PrefixIs
      <4>2. q[1] = "params" /\ q[2] = "engine" /\ q[3] = "ibft" /\ Len(q) \in Nat
        BY <3>2, <4>1, PathsAre
      <4>3. Len(eng) <= Len(q) /\ \A i \in 1..Len(eng) : eng[i] = q[i]
        <5>1. \A i \in 1..2 : i = 1 \/ i = 2
          OBVIOUS
        <5> QED
          BY <1>2, <4>1, <4>2, <5>1
      <4>4. IsPrefix(eng, q)
        BY <1>2, <3>2, <4>3, PrefixIs
      <4>5. mine(q)
        BY <1>18, <4>1, <4>2, <4>4
      <4> HIDE DEF mine
      <4> QED
        BY <1>13, <1>18, <4>5
    <3> QED
      BY <3>1, <3>2
  <2> QED
    BY <2>1 DEF SameUnder
<1> HIDE DEF mine
<1> QED
  BY <1>1, <1>2, <1>14, <1>15, <1>16, <1>17, <1>18

\* And the schedule of the forks.
LEMMA ForksIs ==
  ASSUME NEW d, DOMAIN d \subseteq Seq(Word), IsObject(d, <<"params">>), NEW env, NEW supported,
         NEW e, e = EnsureParamsForks(d, env, supported)
  PROVE  DOMAIN e \subseteq Seq(Word) /\ SameOutside(e, d) /\ SameUnder(e, d, IbftPath)
<1> DEFINE Kept == IF env # "devnet" THEN {} ELSE IF supported = {} THEN DesiredForks ELSE DesiredForks \cap supported
           Schedule(forks) == [p \in {<<>>} \cup {<<f>> : f \in forks} \cup {<<f, "block">> : f \in forks} |->
                                 IF Len(p) < 2 THEN Obj ELSE Num(0)]
<1>1. PICK at : at = <<"params", "forks">>
  OBVIOUS
<1>2. PutIfNoObject(d, <<"params">>) = d
  BY DEF PutIfNoObject
<1>3. PICK forks : forks = Kept
  OBVIOUS
<1>4. forks \subseteq STRING
  BY <1>3, ForkAssumption
<1> HIDE DEF Kept
<1>5. PICK schedule : schedule = Schedule(forks)
  OBVIOUS
<1>6. e = IF IsObject(d, at) THEN d ELSE Put(d, at, schedule)
  <2>1. e = IF IsObject(PutIfNoObject(d, <<"params">>), <<"params", "forks">>) THEN PutIfNoObject(d, <<"params">>)
            ELSE Put(PutIfNoObject(d, <<"params">>), <<"params", "forks">>, Schedule(Kept))
    BY ZenonT(60) DEF EnsureParamsForks, Kept
  <2> QED
    BY <1>1, <1>2, <1>3, <1>5, <2>1, Zenon
<1>7. DOMAIN schedule \subseteq Seq(Word)
  <2>1. DOMAIN schedule = {<<>>} \cup {<<f>> : f \in forks} \cup {<<f, "block">> : f \in forks}
    BY <1>5
  <2>6. PICK S : S = Word
    OBVIOUS
  <2>2. PICK b \in S : S = Word /\ b = "block"
    BY <2>6, Zenon DEF Word
  <2>3. forks \subseteq S
    BY <1>4, <2>2 DEF Word
  <2>4. <<>> \in Seq(S) /\ (\A f \in S : <<f>> \in Seq(S)) /\ (\A f \in S : <<f, b>> \in Seq(S))
    BY EmptySeq
  <2>5. DOMAIN schedule \subseteq Seq(S)
    BY <2>1, <2>2, <2>3, <2>4
  <2> QED
    BY <2>2, <2>5
<1>8. at \in Seq(Word) /\ Len(at) = 2 /\ at[1] = "params" /\ at[2] = "forks"
  <2>3. PICK S : S = Word
    OBVIOUS
  <2>1. PICK a \in S, b \in S : S = Word /\ a = "params" /\ b = "forks"
    BY <2>3, Zenon DEF Word
  <2>2. <<a, b>> \in Seq(S) /\ Len(<<a, b>>) = 2 /\ <<a, b>>[1] = a /\ <<a, b>>[2] = b
    OBVIOUS
  <2> QED
    BY <1>1, <2>1, <2>2
<1> HIDE DEF Schedule
<1>9. CASE IsObject(d, at)
  BY <1>6, <1>9 DEF SameOutside, SameUnder
<1>10. CASE ~IsObject(d, at)
  <2>1. e = Put(d, at, schedule)
    BY <1>6, <1>10
  <2>2. DOMAIN e \subseteq Seq(Word) /\ IsPut(e, d, at, schedule)
    BY <1>7, <1>8, <2>1, PutIs
  <2>3. Apart(at, IbftPath)
    <3>1. 2 \in 1..2 /\ 2 <= Len(IbftPath) /\ at[2] # IbftPath[2]
      BY <1>8, PathsAre
    <3> QED
      BY <1>8, <3>1 DEF Apart
  <2>4. SameUnder(e, d, IbftPath)
    BY <1>7, <1>8, <2>1, <2>3, PathsAre, PutElsewhere
  <2>5. \A q \in Seq(Word) : IsPrefix(at, q) => IsPrefix(<<"params">>, q)
    <3>1. PICK par : par = <<"params">> /\ par \in Seq(Word) /\ Len(par) = 1 /\ par[1] = "params"
      BY PathsAre
    <3> SUFFICES ASSUME NEW q \in Seq(Word), IsPrefix(at, q) PROVE IsPrefix(par, q)
      BY <3>1
    <3>2. 2 <= Len(q) /\ \A i \in 1..2 : at[i] = q[i]
      BY <1>8, PrefixIs, SMTT(30)
    <3>3. Len(par) <= Len(q) /\ \A i \in 1..Len(par) : par[i] = q[i]
      BY <1>8, <3>1, <3>2
    <3> QED
      BY <3>1, <3>3, PrefixIs
  <2>6. \A q : ~IsPrefix(at, q) => (q \in DOMAIN e <=> q \in DOMAIN d) /\ (q \in DOMAIN d => e[q] = d[q])
    BY <2>2, Zenon DEF IsPut
  <2>7. SameOutside(e, d)
    BY <2>2, <2>5, <2>6 DEF SameOutside
  <2> QED
    BY <2>2, <2>4, <2>7
<1> QED
  BY <1>9, <1>10

----------------------------------------------------------------------------
(* What a build makes *)

\* Of two paths that lead to one, one leads to the other.
LEMMA OneLeads ==
  ASSUME NEW S, NEW p \in Seq(S), NEW x \in Seq(S), NEW r \in Seq(S), IsPrefix(p, r), IsPrefix(x, r)
  PROVE  IsPrefix(p, x) \/ IsPrefix(x, p)
<1>1. /\ Len(p) \in Nat /\ Len(x) \in Nat /\ Len(r) \in Nat /\ Len(p) <= Len(r) /\ Len(x) <= Len(r)
      /\ (\A i \in 1..Len(p) : p[i] = r[i]) /\ (\A i \in 1..Len(x) : x[i] = r[i])
  BY PrefixIs
<1>2. CASE Len(p) <= Len(x)
  <2>1. \A i \in 1..Len(p) : p[i] = x[i]
    BY <1>1, <1>2
  <2> QED
    BY <1>2, <2>1, PrefixIs
<1>3. CASE Len(x) <= Len(p)
  <2>1. \A i \in 1..Len(x) : x[i] = p[i]
    BY <1>1, <1>3
  <2> QED
    BY <1>3, <2>1, PrefixIs
<1> QED
  BY <1>1, <1>2, <1>3

\* On the way to what is in a document there are objects.
LEMMA OnTheWay ==
  ASSUME NEW S, NEW doc, DOMAIN doc \subseteq Seq(S), IsTree(doc), NEW p \in DOMAIN doc, NEW x \in Seq(S), IsPrefix(x, p)
  PROVE  x \in DOMAIN doc /\ (x = p \/ doc[x] = Obj)
<1>1. p \in Seq(S)
  OBVIOUS
<1>2. Len(x) \in Nat /\ Len(p) \in Nat /\ Len(x) <= Len(p) /\ \A i \in 1..Len(x) : x[i] = p[i]
  BY <1>1, PrefixIs
<1>3. CASE Len(x) = Len(p)
  BY <1>1, <1>2, <1>3, SeqEqual
<1>4. CASE Len(x) < Len(p)
  <2>1. SubSeq(p, 1, Len(x)) = x
    BY SubSeqFull DEF IsPrefix
  <2>2. Len(x) \in 0..(Len(p) - 1)
    BY <1>2, <1>4
  <2> QED
    BY <2>1, <2>2 DEF IsTree
<1> QED
  BY <1>2, <1>3, <1>4

\* Where there is nothing, and nothing to be filled in on the way, filling
\* puts nothing.
LEMMA NoneFilled ==
  ASSUME NEW S, NEW doc, DOMAIN doc \subseteq Seq(S), IsTree(doc), NEW values, ValuesOK(S, values),
         NEW e, e = ApplyPlaceholders(doc, values),
         NEW x \in Seq(S), x \notin DOMAIN doc, \A p \in DOMAIN doc : IsPrefix(p, x) => ~Known(doc, values, p)
  PROVE  NoneUnder(e, x)
<1> SUFFICES ASSUME NEW r \in DOMAIN e, IsPrefix(x, r) PROVE FALSE
  BY DEF NoneUnder
<1>1. PICK p \in DOMAIN doc : r \in Grown(doc, values, p)
  BY FilledIs
<1>2. r \in Seq(S) /\ IsPrefix(p, r) /\ p \in Seq(S) /\ (~Known(doc, values, p) => r = p)
  BY <1>1, GrownIs
<1>3. ~IsPrefix(x, p)
  BY OnTheWay
<1>4. IsPrefix(p, x)
  BY <1>2, <1>3, OneLeads
<1>5. r = p
  BY <1>2, <1>4
<1> QED
  BY <1>3, <1>5

\* A placeholder becomes what it stands for, and nothing more.
LEMMA HoleFilled ==
  ASSUME NEW S, NEW doc, DOMAIN doc \subseteq Seq(S), IsTree(doc), NEW values, ValuesOK(S, values),
         NEW e, e = ApplyPlaceholders(doc, values),
         NEW h \in DOMAIN doc, Known(doc, values, h), NEW v, v = values[doc[h].key]
  PROVE  /\ \A q \in DOMAIN v : h \o q \in DOMAIN e /\ e[h \o q] = v[q]
         /\ \A r \in DOMAIN e : IsPrefix(h, r) => Beyond(h, r) \in DOMAIN v /\ h \o Beyond(h, r) = r
<1>1. \A q \in DOMAIN v : h \o q \in DOMAIN e /\ e[h \o q] = v[q]
  BY FilledIs
<1>2. ASSUME NEW r \in DOMAIN e, IsPrefix(h, r) PROVE Beyond(h, r) \in DOMAIN v /\ h \o Beyond(h, r) = r
  <2>1. PICK p \in DOMAIN doc : r \in Grown(doc, values, p)
    BY FilledIs
  <2>2. r \in Seq(S) /\ IsPrefix(p, r) /\ p \in Seq(S) /\ (~Known(doc, values, p) => r = p) /\ h \in Seq(S)
    BY <2>1, GrownIs
  <2>3. \A q \in DOMAIN doc : Known(doc, values, q) => doc[q] # Obj
    BY DEF Known, Obj
  <2>4. p = h
    <3>1. CASE IsPrefix(h, p)
      BY <2>2, <2>3, <3>1, OnTheWay
    <3>2. CASE IsPrefix(p, h)
      <4>1. p = h \/ doc[p] = Obj
        BY <2>2, <3>2, OnTheWay
      <4>2. doc[p] = Obj => r = p
        BY <2>2, <2>3
      <4>3. doc[p] = Obj => IsPrefix(h, p)
        BY <1>2, <4>2
      <4> QED
        BY <3>1, <4>1, <4>3
    <3> QED
      BY <1>2, <2>2, <3>1, <3>2, OneLeads
  <2> QED
    BY <2>1, <2>4, GrownIs
<1> QED
  BY <1>1, <1>2

\* Where there are none on either side, there is no difference.
LEMMA NoneSame ==
  ASSUME NEW d, NEW e, NEW p, NoneUnder(d, p), NoneUnder(e, p)
  PROVE  SameUnder(d, e, p)
BY DEF NoneUnder, SameUnder

\* Sameness goes on.
LEMMA SameOn ==
  ASSUME NEW d, NEW e, NEW f, NEW p, SameUnder(d, e, p), SameUnder(e, f, p)
  PROVE  SameUnder(d, f, p)
BY DEF SameUnder

\* What is filled in is a document that has no allocations at the top, and an
\* engine where the configuration has one.
LEMMA ConfigFilled ==
  ASSUME NEW doc, IsConfig(doc), NEW values, DocsOK(values), NEW e, e = ApplyPlaceholders(doc, values)
  PROVE  /\ DOMAIN e \subseteq Seq(Word) /\ NoneUnder(e, <<"alloc">>) /\ ValuesOK(Word, values)
         /\ <<"genesis">> \notin DOMAIN doc => NoneUnder(e, <<"genesis">>)
         /\ NoEngine(doc) => NoneUnder(e, IbftPath)
         /\ IbftPath \in DOMAIN doc => IsObject(e, EnginePath) /\ "ibft" \in Keys(e, EnginePath)
<1>1. DOMAIN doc \subseteq Seq(Word) /\ IsTree(doc) /\ <<>> \in DOMAIN doc /\ doc[<<>>] = Obj /\ <<"alloc">> \notin DOMAIN doc
  BY ConfigIs
<1>2. ValuesOK(Word, values)
  BY DEF DocsOK, ValuesOK
<1>3. DOMAIN e \subseteq Seq(Word)
  BY <1>1, <1>2, FilledIs
<1>4. \A q \in DOMAIN doc : doc[q] = Obj => ~Known(doc, values, q)
  BY DEF Known, Obj
<1>5. ASSUME NEW x \in Seq(Word), Len(x) = 1, x \notin DOMAIN doc PROVE NoneUnder(e, x)
  <2>1. ASSUME NEW p \in DOMAIN doc, IsPrefix(p, x) PROVE ~Known(doc, values, p)
    <3>1. p \in Seq(Word) /\ Len(p) \in Nat /\ Len(p) <= 1 /\ \A i \in 1..Len(p) : p[i] = x[i]
      BY <1>1, <1>5, <2>1, PrefixIs
    <3>2. CASE Len(p) = 1
      BY <1>5, <3>1, <3>2, SeqEqual
    <3>3. CASE Len(p) = 0
      <4>1. p = <<>>
        BY <3>1, <3>3, EmptySeq
      <4> QED
        BY <1>1, <1>4, <4>1
    <3>4. Len(p) = 0 \/ Len(p) = 1
      <4>1. \A n \in Nat : n <= 1 => n = 0 \/ n = 1
        OBVIOUS
      <4> QED
        BY <3>1, <4>1
    <3> QED
      BY <3>2, <3>3, <3>4
  <2> QED
    BY <1>1, <1>2, <1>5, <2>1, NoneFilled
<1>6. NoneUnder(e, <<"alloc">>)
  <2>2. PICK S : S = Word
    OBVIOUS
  <2>1. PICK a \in S : a = "alloc"
    BY <2>2, Zenon DEF Word
  <2>3. <<a>> \in Seq(S) /\ Len(<<a>>) = 1
    OBVIOUS
  <2>4. NoneUnder(e, <<a>>)
    BY <1>1, <1>5, <2>1, <2>2, <2>3, Zenon
  <2> QED
    BY <2>1, <2>4
<1>7. <<"genesis">> \notin DOMAIN doc => NoneUnder(e, <<"genesis">>)
  BY <1>5, PathsAre
<1>8. ASSUME NoEngine(doc) PROVE NoneUnder(e, IbftPath)
  <2>1. IbftPath \in Seq(Word) /\ IbftPath \notin DOMAIN doc
    BY <1>8, PathsAre DEF NoEngine
  <2>2. ASSUME NEW p \in DOMAIN doc, IsPrefix(p, IbftPath) PROVE ~Known(doc, values, p)
    <3>1. IsPrefix(IbftPath, IbftPath)
      BY <2>1, PrefixIs
    <3>2. ~IsPrefix(IbftPath, p)
      BY <1>1, <2>1, OnTheWay
    <3>3. p \in {<<>>, <<"params">>, EnginePath}
      BY <1>1, <2>1, <2>2, <3>1, <3>2, UpToIbft
    <3>4. At(doc, p) = doc[p]
      BY DEF At
    <3>5. p = <<>> \/ At(doc, p) \in {Obj, Absent}
      BY <1>8, <3>3 DEF NoEngine
    <3>6. doc[p] \in {Obj, Absent}
      BY <1>1, <3>4, <3>5
    <3> QED
      BY <3>6 DEF Known, Obj, Absent
  <2> QED
    BY <1>1, <1>2, <2>1, <2>2, NoneFilled
<1>9. ASSUME IbftPath \in DOMAIN doc PROVE IsObject(e, EnginePath) /\ "ibft" \in Keys(e, EnginePath)
  <2>1. PICK ibft \in Seq(Word) : ibft = IbftPath /\ Len(ibft) = 3 /\ ibft[1] = "params" /\ ibft[2] = "engine" /\ ibft[3] = "ibft"
    BY PathsAre
  <2>2. PICK eng \in Seq(Word) : eng = EnginePath /\ Len(eng) = 2 /\ eng[1] = "params" /\ eng[2] = "engine"
    BY PathsAre
  <2>3. IsPrefix(eng, ibft)
    <3>1. \A i \in 1..2 : i = 1 \/ i = 2
      OBVIOUS
    <3> QED
      BY <2>1, <2>2, <3>1, PrefixIs
  <2>4. eng \in DOMAIN doc /\ doc[eng] = Obj
    <3>1. ibft \in DOMAIN doc /\ ibft # eng
      BY <1>9, <2>1, <2>2
    <3> QED
      BY <1>1, <2>3, <3>1, OnTheWay
  <2>5. eng \in DOMAIN e /\ e[eng] = Obj
    <3>1. ~Known(doc, values, eng) /\ doc[eng].kind # "mixed"
      BY <1>4, <2>4 DEF Obj
    <3> QED
      BY <1>1, <1>2, <2>4, <3>1, FilledIs
  <2>6. ibft \in DOMAIN e
    <3>1. CASE ~Known(doc, values, ibft)
      BY <1>1, <1>2, <1>9, <2>1, <3>1, FilledIs
    <3>2. CASE Known(doc, values, ibft)
      <4>1. PICK none \in DOMAIN values[doc[ibft].key] : none = <<>>
        BY <3>2 DEF Known, DocsOK
      <4>2. ibft \o none \in DOMAIN e
        BY <1>1, <1>2, <1>9, <2>1, <3>2, FilledIs
      <4>3. ibft \o <<>> = ibft
        BY ConcatEmptySeq
      <4> QED
        BY <4>1, <4>2, <4>3, Zenon
    <3> QED
      BY <3>1, <3>2
  <2>7. "ibft" \in Keys(e, eng)
    <3>1. Len(ibft) > Len(eng) /\ ibft[Len(eng) + 1] = "ibft"
      BY <2>1, <2>2
    <3> QED
      BY <1>3, <2>3, <2>6, <3>1, KeysAre
  <2>8. IsObject(e, eng)
    BY <2>5 DEF IsObject, At, Obj
  <2> QED
    BY <2>2, <2>7, <2>8
<1> QED
  BY <1>2, <1>3, <1>6, <1>7, <1>8, <1>9

\* What does not lead to the parameters is then the same.
LEMMA SameElsewhere ==
  ASSUME NEW d, DOMAIN d \subseteq Seq(Word), NEW e, DOMAIN e \subseteq Seq(Word), SameOutside(e, d),
         NEW x \in Seq(Word), Len(x) >= 1, x[1] # "params"
  PROVE  SameUnder(e, d, x)
<1>1. PICK par \in Seq(Word) : par = <<"params">> /\ Len(par) = 1 /\ par[1] = "params"
  BY PathsAre
<1>2. Apart(par, x)
  <2>1. 1 \in 1..1 /\ Len(x) \in Nat
    OBVIOUS
  <2> QED
    BY <1>1, <2>1 DEF Apart
<1>3. \A q \in Seq(Word) : IsPrefix(x, q) => ~IsPrefix(par, q)
  BY <1>2, PathsPart
<1>4. \A q : ~IsPrefix(par, q) => (q \in DOMAIN e <=> q \in DOMAIN d) /\ (q \in DOMAIN d => e[q] = d[q])
  BY <1>1, Zenon DEF SameOutside
<1> QED
  BY <1>3, <1>4 DEF SameUnder

\* A path leads to itself.
LEMMA LeadsToItself ==
  ASSUME NEW S, NEW p \in Seq(S)
  PROVE  IsPrefix(p, p)
BY PrefixIs

\* What a path of one key leads to.
LEMMA OneKeyLeads ==
  ASSUME NEW S, NEW x \in Seq(S), Len(x) = 1, NEW q \in Seq(S)
  PROVE  IsPrefix(x, q) <=> Len(q) >= 1 /\ q[1] = x[1]
<1>1. ASSUME IsPrefix(x, q) PROVE Len(q) >= 1 /\ q[1] = x[1]
  <2>1. Len(x) <= Len(q) /\ \A i \in 1..Len(x) : x[i] = q[i]
    BY <1>1, PrefixIs
  <2> QED
    BY <2>1
<1>2. ASSUME Len(q) >= 1, q[1] = x[1] PROVE IsPrefix(x, q)
  <2>1. Len(x) <= Len(q) /\ \A i \in 1..Len(x) : x[i] = q[i]
    BY <1>2
  <2> QED
    BY <2>1, PrefixIs
<1> QED
  BY <1>1, <1>2

\* Nothing leads to what is shorter.
LEMMA TooLong ==
  ASSUME NEW S, NEW x \in Seq(S), NEW q \in Seq(S), Len(x) > Len(q)
  PROVE  ~IsPrefix(x, q)
BY PrefixIs

\* The genesis of a template, unless an overlay has one, is the genesis of
\* what they are merged to.
LEMMA MergedGenesis ==
  ASSUME NEW base, DOMAIN base \subseteq Seq(Word), NEW overlay, DOMAIN overlay \subseteq Seq(Word),
         NoneUnder(overlay, <<"genesis">>), NEW m, m = DeepMerge(base, overlay)
  PROVE  SameUnder(m, base, <<"genesis">>)
<1>1. PICK x \in Seq(Word) : x = <<"genesis">> /\ Len(x) = 1 /\ x[1] = "genesis"
  BY PathsAre
<1>2. /\ DOMAIN m \subseteq DOMAIN base \cup DOMAIN overlay
      /\ \A p \in DOMAIN m \ DOMAIN overlay : m[p] = base[p]
      /\ \A p \in DOMAIN base \ DOMAIN overlay :
           (\A n \in 1..Len(p) : SubSeq(p, 1, n) \in DOMAIN overlay => overlay[SubSeq(p, 1, n)] = Obj) => p \in DOMAIN m
  BY MergeIs
<1>3. \A q \in DOMAIN overlay : ~IsPrefix(x, q)
  BY <1>1 DEF NoneUnder
<1>4. ASSUME NEW q \in DOMAIN base, IsPrefix(x, q) PROVE q \in DOMAIN m
  <2>3. q \in Seq(Word) /\ x \in Seq(Word) /\ Len(x) = 1 /\ x[1] = "genesis"
    BY <1>1
  <2>1. q \in Seq(Word) /\ Len(q) \in Nat /\ 1 <= Len(q) /\ q[1] = "genesis"
    BY <1>4, <2>3, OneKeyLeads
  <2>2. ASSUME NEW n \in 1..Len(q) PROVE SubSeq(q, 1, n) \notin DOMAIN overlay
    <3>3. SubSeq(q, 1, n) \in Seq(Word) /\ Len(SubSeq(q, 1, n)) = n /\ SubSeq(q, 1, n)[1] = q[1]
      <4>1. n \in 0..Len(q) /\ n >= 1
        BY <2>1
      <4>2. 1 \in 1..n
        BY <2>1
      <4> QED
        BY <2>1, <4>1, <4>2
    <3>1. PICK s \in Seq(Word) : s = SubSeq(q, 1, n) /\ Len(s) = n /\ s[1] = q[1]
      BY <3>3
    <3>2. IsPrefix(x, s)
      <4>1. Len(s) >= 1 /\ s[1] = x[1]
        BY <2>1, <2>3, <3>1
      <4> QED
        BY <2>3, <4>1, OneKeyLeads
    <3> QED
      BY <1>3, <3>1, <3>2
  <2> QED
    BY <1>2, <1>3, <1>4, <2>2
<1>5. \A q : IsPrefix(x, q) => (q \in DOMAIN m <=> q \in DOMAIN base) /\ (q \in DOMAIN m => m[q] = base[q])
  BY <1>2, <1>3, <1>4
<1> QED
  BY <1>1, <1>5 DEF SameUnder

\* Neither makes up what nobody has.
LEMMA MergedNone ==
  ASSUME NEW base, NEW overlay, NEW x, NoneUnder(base, x), NoneUnder(overlay, x), NEW m, m = DeepMerge(base, overlay)
  PROVE  NoneUnder(m, x)
<1>1. DOMAIN m \subseteq DOMAIN base \cup DOMAIN overlay
  BY MergeIs
<1> QED
  BY <1>1 DEF NoneUnder

\* What Combined makes: no allocations at the top, none of the old keys, the
\* engine of the overlay and the genesis of the template.
LEMMA CombinedIs ==
  ASSUME NEW input \in Inputs, NEW o, o["consensus"] \in {"poa", "pos"}, NEW c, c = Combined(o, input)
  PROVE  /\ DOMAIN c \subseteq Seq(Word) /\ <<"alloc">> \notin DOMAIN c
         /\ \A q \in DOMAIN c : q # <<>> => q[1] \notin LegacyKeys
         /\ LET values == Placeholders(o, input)
                overlay == ApplyPlaceholders(input.overlays[o["consensus"]], values)
                base == ApplyPlaceholders(input.template, values)
            IN /\ DOMAIN overlay \subseteq Seq(Word) /\ SameUnder(c, overlay, IbftPath)
               /\ DOMAIN base \subseteq Seq(Word) /\ SameUnder(c, base, <<"genesis">>)
<1>1. PICK values : values = Placeholders(o, input)
  OBVIOUS
<1>2. PICK own : own = input.overlays[o["consensus"]]
  OBVIOUS
<1>3. PICK template : template = input.template
  OBVIOUS
<1>4. PICK overlay : overlay = ApplyPlaceholders(own, values)
  OBVIOUS
<1>5. PICK base : base = ApplyPlaceholders(template, values)
  OBVIOUS
<1>6. PICK m : m = DeepMerge(base, overlay)
  OBVIOUS
<1>7. PICK r : r = RemoveForbiddenTopLevelKeys(m)
  OBVIOUS
<1>8. PICK e : e = EnsureParamsEngineIBFT(r, overlay)
  OBVIOUS
<1>9. c = EnsureParamsForks(e, o["env"], DetectSupportedForks(input.host))
  BY <1>1, <1>2, <1>3, <1>4, <1>5, <1>6, <1>7, <1>8, ZenonT(60) DEF Combined
<1>10. /\ IsConfig(own) /\ <<"genesis">> \notin DOMAIN own
       /\ IbftPath \in DOMAIN own \/ (NoEngine(own) /\ NoEngine(template))
       /\ IsConfig(template)
  BY <1>2, <1>3, InputsAssumption
<1>11. DocsOK(values)
  BY <1>1, ValuesAre
<1>12. /\ DOMAIN overlay \subseteq Seq(Word) /\ NoneUnder(overlay, <<"alloc">>) /\ NoneUnder(overlay, <<"genesis">>)
       /\ NoEngine(own) => NoneUnder(overlay, IbftPath)
       /\ IbftPath \in DOMAIN own => IsObject(overlay, EnginePath) /\ "ibft" \in Keys(overlay, EnginePath)
  BY <1>4, <1>10, <1>11, ConfigFilled
<1>13. DOMAIN base \subseteq Seq(Word) /\ NoneUnder(base, <<"alloc">>) /\ (NoEngine(template) => NoneUnder(base, IbftPath))
  BY <1>5, <1>10, <1>11, ConfigFilled
<1>14. DOMAIN m \subseteq Seq(Word) /\ NoneUnder(m, <<"alloc">>) /\ SameUnder(m, base, <<"genesis">>)
  <2>1. DOMAIN m \subseteq DOMAIN base \cup DOMAIN overlay
    BY <1>6, MergeIs
  <2>2. DOMAIN m \subseteq Seq(Word)
    BY <1>12, <1>13, <2>1
  <2>3. NoneUnder(m, <<"alloc">>)
    BY <1>6, <1>12, <1>13, MergedNone
  <2>4. SameUnder(m, base, <<"genesis">>)
    BY <1>6, <1>12, <1>13, MergedGenesis
  <2> QED
    BY <2>2, <2>3, <2>4
<1>15. /\ DOMAIN r \subseteq DOMAIN m /\ \A q \in DOMAIN r : r[q] = m[q]
       /\ \A q \in DOMAIN m : q \in DOMAIN r <=> q = <<>> \/ q[1] \notin LegacyKeys
  BY <1>7, <1>14, RemoveIs
<1>16. DOMAIN r \subseteq Seq(Word) /\ NoneUnder(r, <<"alloc">>)
  BY <1>14, <1>15 DEF NoneUnder
<1>17. SameUnder(r, m, <<"genesis">>)
  <2>1. PICK x \in Seq(Word) : x = <<"genesis">> /\ Len(x) = 1 /\ x[1] = "genesis"
    BY PathsAre
  <2>2. ASSUME NEW q \in DOMAIN m, IsPrefix(x, q) PROVE q \in DOMAIN r
    <3>3. q \in Seq(Word) /\ x \in Seq(Word) /\ Len(x) = 1 /\ x[1] = "genesis"
      BY <1>14, <2>1
    <3>1. q \in Seq(Word) /\ q[1] = "genesis"
      BY <2>2, <3>3, OneKeyLeads
    <3>2. q[1] \notin LegacyKeys
      BY <3>1 DEF LegacyKeys
    <3> QED
      BY <1>15, <3>2
  <2>3. \A q : IsPrefix(x, q) => (q \in DOMAIN r <=> q \in DOMAIN m) /\ (q \in DOMAIN r => r[q] = m[q])
    BY <1>15, <2>2
  <2> QED
    BY <2>1, <2>3 DEF SameUnder
<1>18. /\ DOMAIN e \subseteq Seq(Word) /\ IsObject(e, <<"params">>) /\ SameOutside(e, r)
       /\ \A q \in DOMAIN e : q \in DOMAIN r \/ q \in DOMAIN overlay \/ q = <<"params">> \/ q = EnginePath
       /\ IsObject(overlay, EnginePath) /\ "ibft" \in Keys(overlay, EnginePath) => SameUnder(e, overlay, IbftPath)
  BY <1>8, <1>12, <1>16, EngineIs
<1>19. DOMAIN c \subseteq Seq(Word) /\ SameOutside(c, e) /\ SameUnder(c, e, IbftPath)
  BY <1>9, <1>18, ForksIs
<1>20. SameOutside(c, r)
  BY <1>18, <1>19 DEF SameOutside
<1>21. SameUnder(c, base, <<"genesis">>)
  <2>1. PICK x \in Seq(Word) : x = <<"genesis">> /\ Len(x) = 1 /\ x[1] = "genesis"
    BY PathsAre
  <2>2. Len(x) >= 1 /\ x[1] # "params"
    BY <2>1
  <2>3. SameUnder(c, r, x)
    BY <1>16, <1>19, <1>20, <2>2, SameElsewhere
  <2>4. SameUnder(c, r, <<"genesis">>)
    BY <2>1, <2>3, Zenon
  <2> QED
    BY <1>14, <1>17, <2>4, SameOn
<1>22. SameUnder(c, overlay, IbftPath)
  <2>1. CASE IbftPath \in DOMAIN own
    BY <1>12, <1>18, <1>19, <2>1, SameOn
  <2>2. CASE NoEngine(own) /\ NoEngine(template)
    <3>1. NoneUnder(m, IbftPath) /\ NoneUnder(overlay, IbftPath)
      BY <1>6, <1>12, <1>13, <2>2, MergedNone
    <3>2. NoneUnder(r, IbftPath)
      BY <1>15, <3>1 DEF NoneUnder
    <3>3. ~IsPrefix(IbftPath, <<"params">>) /\ ~IsPrefix(IbftPath, EnginePath)
      <4>1. PICK par \in Seq(Word) : par = <<"params">> /\ Len(par) = 1
        BY PathsAre
      <4>2. PICK eng \in Seq(Word) : eng = EnginePath /\ Len(eng) = 2
        BY PathsAre
      <4>3. PICK ibft \in Seq(Word) : ibft = IbftPath /\ Len(ibft) = 3
        BY PathsAre
      <4>5. Len(ibft) > Len(par) /\ Len(ibft) > Len(eng)
        BY <4>1, <4>2, <4>3
      <4>6. ~IsPrefix(ibft, par)
        BY <4>5, TooLong
      <4>4. ~IsPrefix(ibft, eng)
        BY <4>5, TooLong
      <4> QED
        BY <4>1, <4>2, <4>3, <4>4, <4>6
    <3>4. NoneUnder(e, IbftPath)
      BY <1>18, <3>1, <3>2, <3>3 DEF NoneUnder
    <3> QED
      BY <1>19, <3>1, <3>4, NoneSame, SameOn
  <2> QED
    BY <1>10, <2>1, <2>2
<1>23. <<"alloc">> \notin DOMAIN c
  <2>1. PICK S : S = Word
    OBVIOUS
  <2>2. PICK a \in S, b \in S : a = "alloc" /\ b = "params"
    BY <2>1, Zenon DEF Word
  <2>3. PICK x \in Seq(S) : x = <<"alloc">> /\ Len(x) = 1 /\ x[1] = "alloc"
    <3>1. <<a>> \in Seq(S) /\ Len(<<a>>) = 1 /\ <<a>>[1] = a
      OBVIOUS
    <3> QED
      BY <2>2, <3>1
  <2>4. x \in Seq(Word)
    BY <2>1
  <2>5. SameUnder(c, r, x)
    <3>1. "alloc" # "params"
      OBVIOUS
    <3>2. Len(x) >= 1 /\ x[1] # "params"
      BY <2>3, <3>1
    <3> QED
      BY <1>16, <1>19, <1>20, <2>4, <3>2, SameElsewhere
  <2>6. IsPrefix(x, x)
    BY LeadsToItself
  <2>7. x \notin DOMAIN r
    BY <1>16, <2>3, <2>6 DEF NoneUnder
  <2>8. x \notin DOMAIN c
    BY <2>5, <2>6, <2>7 DEF SameUnder
  <2> QED
    BY <2>3, <2>8
<1>24. ASSUME NEW q \in DOMAIN c, q # <<>> PROVE q[1] \notin LegacyKeys
  <2>1. PICK par \in Seq(Word) : par = <<"params">> /\ Len(par) = 1 /\ par[1] = "params"
    BY PathsAre
  <2>2. CASE IsPrefix(par, q)
    <3>2. q \in Seq(Word) /\ Len(par) = 1 /\ par[1] = "params"
      BY <1>19, <2>1
    <3>1. q[1] = "params"
      BY <2>2, <3>2, OneKeyLeads
    <3> QED
      BY <3>1 DEF LegacyKeys
  <2>3. CASE ~IsPrefix(par, q)
    <3>1. q \in DOMAIN r
      BY <1>20, <2>1, <2>3 DEF SameOutside
    <3> QED
      BY <1>15, <1>24, <3>1
  <2> QED
    BY <2>2, <2>3
<1>25. /\ DOMAIN overlay \subseteq Seq(Word) /\ SameUnder(c, overlay, IbftPath)
       /\ DOMAIN base \subseteq Seq(Word) /\ SameUnder(c, base, <<"genesis">>)
  BY <1>12, <1>13, <1>21, <1>22
<1>26. /\ overlay = ApplyPlaceholders(input.overlays[o["consensus"]], Placeholders(o, input))
       /\ base = ApplyPlaceholders(input.template, Placeholders(o, input))
  BY <1>1, <1>2, <1>3, <1>4, <1>5, Zenon
<1> QED
  BY <1>19, <1>23, <1>24, <1>25, <1>26

----------------------------------------------------------------------------
(* Runs of the genesis builder, and the files they leave *)

\* What a run writes, in its order.
WritesOf(run) ==
  IF "metadata" \in DOMAIN run
  THEN <<[path |-> <<"build", "chain-metadata.json">>, doc |-> Just(Str(run.metadata))]>>
  ELSE Outputs(run.options, Combined(run.options, run.input))

\* A run that got to writing: somebody's build that went through, or the
\* metadata of a token.
Built(run) ==
  /\ "metadata" \notin DOMAIN run /\ run.ask \in Asks /\ run.input \in Inputs
  /\ run.options = Options(CommandLine(run.ask)) /\ run.total = TotalPremine(run.input.alloc)
  /\ BuildOk(run.options, run.input, Combined(run.options, run.input))

\* A sequence of something.
IsSeq(w) == \E S : w \in Seq(S)

RunsOK == \A i \in 1..Len(log) : Built(log[i]) \/ "metadata" \in DOMAIN log[i]

\* Each file is what a run wrote there, or torn.
FilesOK ==
  \A p \in DOMAIN files :
    /\ files[p].by \in 1..Len(log)
    /\ \/ files[p].doc = Torn
       \/ \E k \in DOMAIN WritesOf(log[files[p].by]) :
            WritesOf(log[files[p].by])[k].path = p /\ WritesOf(log[files[p].by])[k].doc = files[p].doc

\* The run that is writing has written what goes first, and has the rest
\* before it.
TodoOK ==
  Writing => LET w == WritesOf(log[Len(log)]) IN
    /\ Len(log) >= 1
    /\ \E n \in 0..(Len(w) - 1) :
         /\ \E open \in BOOLEAN : build = [todo |-> SubSeq(w, n + 1, Len(w)), open |-> open]
         /\ \A m \in 1..n : w[m].path \in DOMAIN files /\ files[w[m].path].by = Len(log)

\* A chain configuration was written after its genesis.
GenesisFirst ==
  \A p \in DOMAIN files : p \in ChainFiles /\ files[p].doc # Torn =>
    LET g == log[files[p].by].options["out-genesis"] IN g \in DOMAIN files /\ files[g].by >= files[p].by

GenesisInvariant == IsSeq(log) /\ RunsOK /\ FilesOK /\ TodoOK /\ GenesisFirst

\* The outputs of a build, one by one.
AreOutputs(w, o, c) ==
  /\ w[1].path = o["out-genesis"] /\ w[1].doc = Sub(c, <<"genesis">>)
  /\ w[2].path = o["out-combined"] /\ w[2].doc = c
  /\ w[3].path = o["out-chain"] /\ w[3].doc = ChainDoc(c, o["out-genesis"])
  /\ w[4].path = o["metadata-out"]
  /\ Len(w) = 5 => w[5].path = <<o["out-chain"][1], "pos-addresses.json">>

\* They are.
LEMMA OutputsAre ==
  ASSUME NEW o, NEW c, NEW w, w = Outputs(o, c)
  PROVE  IsSeq(w) /\ Len(w) \in 4..5 /\ AreOutputs(w, o, c)
<1>1. PICK a : a = [path |-> o["out-genesis"], doc |-> Sub(c, <<"genesis">>)]
  OBVIOUS
<1>2. PICK b : b = [path |-> o["out-combined"], doc |-> c]
  OBVIOUS
<1>3. PICK d : d = [path |-> o["out-chain"], doc |-> ChainDoc(c, o["out-genesis"])]
  OBVIOUS
<1>4. PICK e : e = [path |-> o["metadata-out"], doc |-> Just(Str("token"))]
  OBVIOUS
<1>5. PICK f : f = [path |-> <<o["out-chain"][1], "pos-addresses.json">>, doc |-> Just(Str("addresses"))]
  OBVIOUS
<1>6. w = <<a, b, d, e>> \o (IF o["consensus"] = "pos" THEN <<f>> ELSE <<>>)
  BY <1>1, <1>2, <1>3, <1>4, <1>5, Zenon DEF Outputs
<1>7. PICK S : S = {a, b, d, e, f}
  OBVIOUS
<1>8. /\ <<a, b, d, e>> \in Seq(S) /\ Len(<<a, b, d, e>>) = 4
      /\ <<a, b, d, e>>[1] = a /\ <<a, b, d, e>>[2] = b /\ <<a, b, d, e>>[3] = d /\ <<a, b, d, e>>[4] = e
      /\ <<f>> \in Seq(S) /\ Len(<<f>>) = 1 /\ <<f>>[1] = f
  BY <1>7
<1>9. PICK four \in Seq(S) : four = <<a, b, d, e>> /\ Len(four) = 4 /\ four[1] = a /\ four[2] = b /\ four[3] = d /\ four[4] = e
  BY <1>8
<1>10. PICK five \in Seq(S) : five = <<f>> /\ Len(five) = 1 /\ five[1] = f
  BY <1>8
<1>11. w = IF o["consensus"] = "pos" THEN four \o five ELSE four
  <2>1. four \o <<>> = four
    BY ConcatEmptySeq
  <2>2. CASE o["consensus"] = "pos"
    BY <1>6, <1>9, <1>10, <2>2, Zenon
  <2>3. CASE o["consensus"] # "pos"
    BY <1>6, <1>9, <2>1, <2>3, Zenon
  <2> QED
    BY <2>2, <2>3
<1>12. /\ w \in Seq(S) /\ (Len(w) = 4 \/ (Len(w) = 5 /\ w[5] = f))
       /\ w[1] = a /\ w[2] = b /\ w[3] = d /\ w[4] = e
  <2>1. CASE o["consensus"] = "pos"
    <3>1. w = four \o five
      BY <1>11, <2>1
    <3>2. Len(four) = 4 /\ four[1] = a /\ four[2] = b /\ four[3] = d /\ four[4] = e /\ Len(five) = 1 /\ five[1] = f
      BY <1>9, <1>10
    <3>6. /\ Len(w) = Len(four) + Len(five)
          /\ \A i \in 1..(Len(four) + Len(five)) : w[i] = IF i <= Len(four) THEN four[i] ELSE five[i - Len(four)]
      BY <3>1, ConcatProperties, ZenonT(60)
    <3>7. Len(w) = 5 /\ \A i \in 1..5 : w[i] = IF i <= 4 THEN four[i] ELSE five[i - 4]
      <4>1. Len(four) = 4 /\ Len(five) = 1
        BY <3>2
      <4> QED
        BY <3>6, <4>1
    <3>8. 5 \in 1..5 /\ ~(5 <= 4) /\ 5 - 4 = 1 /\ \A i \in 1..4 : i \in 1..5 /\ i <= 4
      OBVIOUS
    <3>3. Len(w) = 5 /\ (\A i \in 1..4 : w[i] = four[i]) /\ w[5] = five[1]
      <4>1. w[5] = five[5 - 4]
        BY <3>7, <3>8
      <4> QED
        BY <3>7, <3>8, <4>1
    <3>4. w[1] = four[1] /\ w[2] = four[2] /\ w[3] = four[3] /\ w[4] = four[4]
      BY <3>3
    <3>5. w \in Seq(S)
      BY <3>1
    <3> QED
      BY <3>2, <3>3, <3>4, <3>5
  <2>2. CASE o["consensus"] # "pos"
    <3>1. w = four
      BY <1>11, <2>2
    <3>2. Len(four) = 4 /\ four[1] = a /\ four[2] = b /\ four[3] = d /\ four[4] = e
      BY <1>9
    <3> QED
      BY <3>1, <3>2
  <2> QED
    BY <2>1, <2>2
<1>13. IsSeq(w)
  BY <1>12 DEF IsSeq
<1>14. Len(w) \in 4..5 /\ (Len(w) = 5 => w[5] = f)
  BY <1>12
<1>15. a.path = o["out-genesis"] /\ a.doc = Sub(c, <<"genesis">>)
  BY <1>1
<1>16. b.path = o["out-combined"] /\ b.doc = c
  BY <1>2
<1>17. d.path = o["out-chain"] /\ d.doc = ChainDoc(c, o["out-genesis"])
  BY <1>3
<1>18. e.path = o["metadata-out"]
  BY <1>4
<1>19. f.path = <<o["out-chain"][1], "pos-addresses.json">>
  BY <1>5
<1> QED
  BY <1>12, <1>13, <1>14, <1>15, <1>16, <1>17, <1>18, <1>19, Zenon DEF AreOutputs

\* Whatever a run is, it has something to write.
LEMMA WritesAre ==
  ASSUME NEW run, NEW w, w = WritesOf(run)
  PROVE  IsSeq(w) /\ Len(w) \in Nat /\ Len(w) >= 1 /\ DOMAIN w = 1..Len(w)
<1>1. CASE "metadata" \in DOMAIN run
  <2>1. PICK a : a = [path |-> <<"build", "chain-metadata.json">>, doc |-> Just(Str(run.metadata))]
    OBVIOUS
  <2>2. w = <<a>>
    BY <1>1, <2>1, Zenon DEF WritesOf
  <2>3. <<a>> \in Seq({a}) /\ Len(<<a>>) = 1
    OBVIOUS
  <2>4. IsSeq(w)
    BY <2>2, <2>3 DEF IsSeq
  <2> QED
    BY <2>2, <2>4
<1>2. CASE "metadata" \notin DOMAIN run
  <2>1. w = Outputs(run.options, Combined(run.options, run.input))
    BY <1>2, Zenon DEF WritesOf
  <2>2. IsSeq(w) /\ Len(w) \in 4..5
    BY <2>1, OutputsAre
  <2>3. PICK S : w \in Seq(S)
    BY <2>2 DEF IsSeq
  <2> QED
    BY <2>2, <2>3
<1> QED
  BY <1>1, <1>2

\* Which of its outputs a build writes to a file, by what the file is named
\* for.
LEMMA EntryIs ==
  ASSUME NEW run, Built(run), NEW c, c = Combined(run.options, run.input), NEW w, w = WritesOf(run), NEW k \in 1..Len(w)
  PROVE  /\ w[k].path \in EthFiles => w[k].doc = Sub(c, <<"genesis">>)
         /\ w[k].path \in CombinedFiles => w[k].doc = c
         /\ w[k].path \in ChainFiles => k = 3 /\ w[k].doc = ChainDoc(c, run.options["out-genesis"])
         /\ w[1].path = run.options["out-genesis"] /\ run.options["out-genesis"] \in EthFiles
<1>1. PICK o : o = run.options
  OBVIOUS
<1>2. w = Outputs(o, c)
  BY <1>1, Zenon DEF WritesOf, Built
<1>3. /\ o["out-genesis"] \in EthFiles /\ o["out-chain"] \in ChainFiles /\ o["out-combined"] \in CombinedFiles
      /\ o["metadata-out"] \in OtherFiles
  <2>1. run.ask \in Asks /\ o = Options(CommandLine(run.ask))
    BY <1>1 DEF Built
  <2>2. \A flag : o[flag] \in Named(flag)
    BY <2>1 DEF Named
  <2> QED
    BY <2>2 DEF EthFiles, ChainFiles, CombinedFiles, OtherFiles
<1>4. <<o["out-chain"][1], "pos-addresses.json">> \in OtherFiles
  BY <1>3 DEF OtherFiles
<1>13. Len(w) \in 4..5
  BY <1>2, OutputsAre
<1>5. /\ w[1].path = o["out-genesis"] /\ w[1].doc = Sub(c, <<"genesis">>)
      /\ w[2].path = o["out-combined"] /\ w[2].doc = c
      /\ w[3].path = o["out-chain"] /\ w[3].doc = ChainDoc(c, o["out-genesis"])
      /\ w[4].path = o["metadata-out"]
      /\ Len(w) = 5 => w[5].path = <<o["out-chain"][1], "pos-addresses.json">>
  <2>1. AreOutputs(w, o, c)
    BY <1>2, OutputsAre
  <2> QED
    BY <2>1, Zenon DEF AreOutputs
<1>6. k = 1 \/ k = 2 \/ k = 3 \/ k = 4 \/ (k = 5 /\ Len(w) = 5)
  <2>1. \A n \in 4..5 : \A j \in 1..n : j = 1 \/ j = 2 \/ j = 3 \/ j = 4 \/ (j = 5 /\ n = 5)
    OBVIOUS
  <2> QED
    BY <1>13, <2>1, Zenon
<1>7. /\ \A p : p \in EthFiles => p \notin ChainFiles /\ p \notin CombinedFiles /\ p \notin OtherFiles
      /\ \A p : p \in ChainFiles => p \notin CombinedFiles /\ p \notin OtherFiles
      /\ \A p : p \in CombinedFiles => p \notin OtherFiles
  BY NamesAssumption
<1>8. CASE k = 1
  BY <1>1, <1>3, <1>5, <1>7, <1>8
<1>9. CASE k = 2
  BY <1>1, <1>3, <1>5, <1>7, <1>9
<1>10. CASE k = 3
  BY <1>1, <1>3, <1>5, <1>7, <1>10
<1>11. CASE k = 4
  BY <1>1, <1>3, <1>5, <1>7, <1>11
<1>12. CASE k = 5 /\ Len(w) = 5
  <2>1. w[k].path \in OtherFiles
    BY <1>4, <1>5, <1>12
  <2> QED
    BY <1>1, <1>3, <1>5, <1>7, <2>1
<1> QED
  BY <1>6, <1>8, <1>9, <1>10, <1>11, <1>12

\* The metadata of a token go to none of them.
LEMMA MetadataElsewhere ==
  ASSUME NEW run, "metadata" \in DOMAIN run, NEW w, w = WritesOf(run), NEW k \in 1..Len(w)
  PROVE  w[k].path \notin EthFiles \cup ChainFiles \cup CombinedFiles
<1>1. PICK a : a = [path |-> <<"build", "chain-metadata.json">>, doc |-> Just(Str(run.metadata))]
  OBVIOUS
<1>2. w = <<a>>
  BY <1>1, Zenon DEF WritesOf
<1>3. w[k] = a
  BY <1>2
<1>4. a.path = <<"build", "chain-metadata.json">>
  BY <1>1
<1>5. a.path \in OtherFiles
  BY <1>4 DEF OtherFiles
<1> QED
  BY <1>3, <1>5, NamesAssumption

\* What is left to write, its first and the rest of it.
LEMMA LeftIs ==
  ASSUME NEW w, IsSeq(w), NEW n \in 0..(Len(w) - 1), NEW t, t = SubSeq(w, n + 1, Len(w))
  PROVE  /\ Len(t) = Len(w) - n /\ Head(t) = w[n + 1]
         /\ Tail(t) = SubSeq(w, (n + 1) + 1, Len(w))
<1>1. PICK S : w \in Seq(S)
  BY DEF IsSeq
<1>2. Len(w) \in Nat /\ n \in Nat /\ n + 1 \in 1..Len(w)
  BY <1>1
<1>3. t \in Seq(S) /\ Len(t) = Len(w) - n /\ \A i \in 1..(Len(w) - n) : t[i] = w[n + i]
  BY <1>1, <1>2
<1>4. Head(t) = w[n + 1]
  BY <1>2, <1>3
<1>5. Tail(t) \in Seq(S) /\ Len(Tail(t)) = Len(w) - n - 1 /\ \A i \in 1..(Len(w) - n - 1) : Tail(t)[i] = w[n + 1 + i]
  <2>4. t \in Seq(S) /\ Len(t) = Len(w) - n
    BY <1>3
  <2>5. Len(t) >= 1
    BY <1>2, <2>4
  <2>1. Len(t) >= 1 /\ t # <<>>
    BY <2>5
  <2>2. Tail(t) \in Seq(S) /\ Len(Tail(t)) = Len(t) - 1 /\ \A i \in 1..(Len(t) - 1) : Tail(t)[i] = t[i + 1]
    BY <1>3, <2>1
  <2>3. \A i \in 1..(Len(w) - n - 1) : i + 1 \in 1..(Len(w) - n) /\ n + (i + 1) = n + 1 + i
    BY <1>2
  <2> QED
    BY <1>3, <2>2, <2>3
<1>6. PICK u \in Seq(S) : u = Tail(t) /\ Len(u) = Len(w) - n - 1 /\ \A i \in 1..(Len(w) - n - 1) : u[i] = w[n + 1 + i]
  BY <1>5
<1>7. /\ SubSeq(w, (n + 1) + 1, Len(w)) \in Seq(S) /\ Len(SubSeq(w, (n + 1) + 1, Len(w))) = Len(w) - n - 1
      /\ \A i \in 1..(Len(w) - n - 1) : SubSeq(w, (n + 1) + 1, Len(w))[i] = w[n + 1 + i]
  <2>1. CASE n + 1 < Len(w)
    BY <1>1, <1>2, <2>1
  <2>2. CASE n + 1 = Len(w)
    BY <1>1, <1>2, <2>2
  <2> QED
    BY <1>2, <2>1, <2>2
<1>8. PICK v \in Seq(S) : /\ v = SubSeq(w, (n + 1) + 1, Len(w)) /\ Len(v) = Len(w) - n - 1
                          /\ \A i \in 1..(Len(w) - n - 1) : v[i] = w[n + 1 + i]
  BY <1>7
<1>9. u = v
  BY <1>6, <1>8, SeqEqual
<1> QED
  BY <1>3, <1>4, <1>6, <1>8, <1>9

\* Nothing was written before the first.
LEMMA AllLeft ==
  ASSUME NEW w, IsSeq(w)
  PROVE  SubSeq(w, 0 + 1, Len(w)) = w
<1>1. PICK S : w \in Seq(S)
  BY DEF IsSeq
<1>2. SubSeq(w, 1, Len(w)) = w
  BY <1>1, SubSeqFull
<1>3. 0 + 1 = 1
  OBVIOUS
<1> QED
  BY <1>2, <1>3

\* A run that begins to write changes nothing of the others.
LEMMA RunBegins ==
  ASSUME GenesisInvariant, UNCHANGED files, NEW run, Built(run) \/ "metadata" \in DOMAIN run,
         log' = Append(log, run), build' = [todo |-> WritesOf(run), open |-> FALSE]
  PROVE  GenesisInvariant'
<1>1. PICK T : log \in Seq(T)
  BY DEF GenesisInvariant, IsSeq
<1>2. PICK S : S = T \cup {run}
  OBVIOUS
<1>3. /\ log' \in Seq(S) /\ Len(log) \in Nat /\ Len(log') = Len(log) + 1 /\ log'[Len(log')] = run
      /\ \A i \in 1..Len(log) : i \in 1..Len(log') /\ log'[i] = log[i]
  <2>1. T \subseteq S /\ run \in S
    BY <1>2
  <2>2. log \in Seq(S)
    BY <1>1, <2>1, SeqMonotonic
  <2> QED
    BY <2>1, <2>2
<1>4. IsSeq(log)'
  BY <1>3 DEF IsSeq
<1>5. RunsOK'
  <2>1. \A i \in 1..Len(log') : i \in 1..Len(log) \/ i = Len(log')
    BY <1>3
  <2>2. ASSUME NEW i \in 1..Len(log') PROVE Built(log'[i]) \/ "metadata" \in DOMAIN log'[i]
    <3>1. CASE i \in 1..Len(log)
      <4>1. Built(log[i]) \/ "metadata" \in DOMAIN log[i]
        BY <3>1 DEF GenesisInvariant, RunsOK
      <4> QED
        BY <1>3, <3>1, <4>1
    <3>2. CASE i = Len(log')
      BY <1>3, <3>2
    <3> QED
      BY <2>1, <3>1, <3>2
  <2>3. RunsOK' <=> \A i \in 1..Len(log') : Built(log'[i]) \/ "metadata" \in DOMAIN log'[i]
    BY DEF RunsOK, Built
  <2> QED
    BY <2>2, <2>3
<1>6. FilesOK'
  <2>1. ASSUME NEW p \in DOMAIN files
        PROVE  /\ files[p].by \in 1..Len(log')
               /\ \/ files[p].doc = Torn
                  \/ \E k \in DOMAIN WritesOf(log'[files[p].by]) :
                       WritesOf(log'[files[p].by])[k].path = p /\ WritesOf(log'[files[p].by])[k].doc = files[p].doc
    <3>1. /\ files[p].by \in 1..Len(log)
          /\ \/ files[p].doc = Torn
             \/ \E k \in DOMAIN WritesOf(log[files[p].by]) :
                  WritesOf(log[files[p].by])[k].path = p /\ WritesOf(log[files[p].by])[k].doc = files[p].doc
      BY DEF GenesisInvariant, FilesOK
    <3>2. files[p].by \in 1..Len(log') /\ log'[files[p].by] = log[files[p].by]
      BY <1>3, <3>1
    <3> QED
      BY <3>1, <3>2
  <2> QED
    BY <2>1 DEF FilesOK
<1>7. TodoOK'
  <2>1. PICK w : w = WritesOf(run)
    OBVIOUS
  <2>2. IsSeq(w) /\ Len(w) \in Nat /\ Len(w) >= 1
    BY <2>1, WritesAre
  <2>3. build' = [todo |-> SubSeq(w, 0 + 1, Len(w)), open |-> FALSE]
    BY <2>1, <2>2, AllLeft
  <2>4. 0 \in 0..(Len(w) - 1) /\ FALSE \in BOOLEAN /\ 1..0 = {}
    BY <2>2
  <2>5. \E n \in 0..(Len(w) - 1) :
          /\ \E open \in BOOLEAN : build' = [todo |-> SubSeq(w, n + 1, Len(w)), open |-> open]
          /\ \A m \in 1..n : w[m].path \in DOMAIN files /\ files[w[m].path].by = Len(log')
    BY <2>3, <2>4
  <2>6. w = WritesOf(log'[Len(log')]) /\ Len(log') >= 1
    BY <1>3, <2>1
  <2> QED
    BY <2>5, <2>6 DEF TodoOK
<1>8. GenesisFirst'
  <2>1. ASSUME NEW p \in DOMAIN files, p \in ChainFiles, files[p].doc # Torn
        PROVE  LET g == log'[files[p].by].options["out-genesis"] IN g \in DOMAIN files /\ files[g].by >= files[p].by
    <3>1. files[p].by \in 1..Len(log)
      BY DEF GenesisInvariant, FilesOK
    <3>2. log'[files[p].by] = log[files[p].by]
      BY <1>3, <3>1
    <3> QED
      BY <2>1, <3>2 DEF GenesisInvariant, GenesisFirst
  <2> QED
    BY <2>1 DEF GenesisFirst
<1> QED
  BY <1>4, <1>5, <1>6, <1>7, <1>8 DEF GenesisInvariant

\* What a write leaves.
LEMMA FilePut ==
  ASSUME NEW path, NEW doc, PutFile(path, doc)
  PROVE  /\ DOMAIN files' = DOMAIN files \cup {path}
         /\ files'[path].by = Len(log) /\ files'[path].doc = doc
         /\ \A p \in DOMAIN files : p # path => files'[p] = files[p]
<1>1. PICK rec : rec = [by |-> Len(log), doc |-> doc]
  OBVIOUS
<1>2. files' = [p \in DOMAIN files \cup {path} |-> IF p = path THEN rec ELSE files[p]]
  BY <1>1, Zenon DEF PutFile
<1>3. rec.by = Len(log) /\ rec.doc = doc
  BY <1>1
<1>4. DOMAIN files' = DOMAIN files \cup {path} /\ files'[path] = rec /\ \A p \in DOMAIN files : p # path => files'[p] = files[p]
  BY <1>2
<1> QED
  BY <1>3, <1>4

\* What the run that is writing has left, in the words of its outputs.
LEMMA WritingIs ==
  ASSUME GenesisInvariant, Writing, NEW w, w = WritesOf(log[Len(log)])
  PROVE  /\ Len(log) \in Nat /\ Len(log) >= 1 /\ IsSeq(w) /\ Len(w) \in Nat /\ Len(w) >= 1 /\ DOMAIN w = 1..Len(w)
         /\ \E n \in 0..(Len(w) - 1) :
              /\ \E open \in BOOLEAN : build = [todo |-> SubSeq(w, n + 1, Len(w)), open |-> open]
              /\ \A m \in 1..n : w[m].path \in DOMAIN files /\ files[w[m].path].by = Len(log)
<1>2. PICK S : log \in Seq(S)
  BY DEF GenesisInvariant, IsSeq
<1>3. Len(log) \in Nat
  BY <1>2
<1>4. IsSeq(w) /\ Len(w) \in Nat /\ Len(w) >= 1 /\ DOMAIN w = 1..Len(w)
  BY WritesAre
<1>5. /\ Len(log) >= 1
      /\ \E n \in 0..(Len(w) - 1) :
           /\ \E open \in BOOLEAN : build = [todo |-> SubSeq(w, n + 1, Len(w)), open |-> open]
           /\ \A m \in 1..n : w[m].path \in DOMAIN files /\ files[w[m].path].by = Len(log)
  BY DEF GenesisInvariant, TodoOK
<1> QED
  BY <1>3, <1>4, <1>5

\* A write that leaves what it should leaves the files in order.
LEMMA WriteKeepsFiles ==
  ASSUME GenesisInvariant, Writing, UNCHANGED log, NEW w, w = WritesOf(log[Len(log)]), NEW k \in 1..Len(w),
         NEW doc, doc = Torn \/ doc = w[k].doc, PutFile(w[k].path, doc),
         w[k].path \in ChainFiles /\ doc # Torn =>
           /\ log[Len(log)].options["out-genesis"] \in DOMAIN files
           /\ files[log[Len(log)].options["out-genesis"]].by = Len(log)
  PROVE  (RunsOK /\ FilesOK /\ GenesisFirst)' /\ IsSeq(log)'
<1>1. PICK path : path = w[k].path
  OBVIOUS
<1>2. /\ DOMAIN files' = DOMAIN files \cup {path}
      /\ files'[path].by = Len(log) /\ files'[path].doc = doc
      /\ \A p \in DOMAIN files : p # path => files'[p] = files[p]
  BY <1>1, FilePut
<1>3. Len(log) \in Nat /\ Len(log) >= 1 /\ DOMAIN w = 1..Len(w)
  BY WritingIs
<1>4. \A p \in DOMAIN files : files[p].by \in 1..Len(log)
  BY DEF GenesisInvariant, FilesOK
<1>5. RunsOK' /\ IsSeq(log)'
  BY DEF GenesisInvariant, RunsOK, IsSeq
<1>6. FilesOK'
  <2>1. ASSUME NEW p \in DOMAIN files'
        PROVE  /\ files'[p].by \in 1..Len(log)
               /\ \/ files'[p].doc = Torn
                  \/ \E j \in DOMAIN WritesOf(log[files'[p].by]) :
                       WritesOf(log[files'[p].by])[j].path = p /\ WritesOf(log[files'[p].by])[j].doc = files'[p].doc
    <3>1. CASE p = path
      <4>1. files'[p].by = Len(log) /\ files'[p].doc = doc
        BY <1>2, <3>1
      <4>2. Len(log) \in 1..Len(log)
        BY <1>3
      <4>3. doc = Torn \/ (k \in DOMAIN w /\ w[k].path = p /\ w[k].doc = doc)
        BY <1>1, <1>3, <3>1
      <4> QED
        BY <4>1, <4>2, <4>3
    <3>2. CASE p # path
      <4>1. p \in DOMAIN files /\ files'[p] = files[p]
        BY <1>2, <2>1, <3>2
      <4> QED
        BY <4>1 DEF GenesisInvariant, FilesOK
    <3> QED
      BY <3>1, <3>2
  <2>2. log' = log
    OBVIOUS
  <2> QED
    BY <2>1, <2>2 DEF FilesOK
<1>7. GenesisFirst'
  <2>1. ASSUME NEW p \in DOMAIN files', p \in ChainFiles, files'[p].doc # Torn,
               NEW g, g = log[files'[p].by].options["out-genesis"]
        PROVE  g \in DOMAIN files' /\ files'[g].by >= files'[p].by
    <3>1. CASE p = path
      <4>1. files'[p].by = Len(log) /\ doc # Torn
        BY <1>2, <2>1, <3>1
      <4>2. g \in DOMAIN files /\ files[g].by = Len(log)
        BY <1>1, <2>1, <3>1, <4>1
      <4>3. files'[g].by = Len(log)
        BY <1>2, <4>2
      <4> QED
        BY <1>2, <1>3, <4>1, <4>2, <4>3
    <3>2. CASE p # path
      <4>1. p \in DOMAIN files /\ files'[p] = files[p]
        BY <1>2, <2>1, <3>2
      <4>2. g \in DOMAIN files /\ files[g].by >= files[p].by
        BY <2>1, <4>1 DEF GenesisInvariant, GenesisFirst
      <4>3. files'[g].by = files[g].by \/ files'[g].by = Len(log)
        BY <1>2, <4>2
      <4>4. files[p].by <= Len(log)
        BY <1>3, <1>4, <4>1
      <4>5. files'[g].by >= files[p].by
        BY <1>3, <4>2, <4>3, <4>4
      <4> QED
        BY <1>2, <4>1, <4>2, <4>5
    <3> QED
      BY <3>1, <3>2
  <2>2. log' = log
    OBVIOUS
  <2> QED
    BY <2>1, <2>2 DEF GenesisFirst
<1> QED
  BY <1>5, <1>6, <1>7

\* A file is emptied.
LEMMA TruncateKeeps ==
  ASSUME GenesisInvariant, Truncate
  PROVE  GenesisInvariant'
<1>1. PICK w : w = WritesOf(log[Len(log)])
  OBVIOUS
<1>2. Writing /\ PutFile(Head(build.todo).path, Torn) /\ build' = [build EXCEPT !.open = TRUE] /\ log' = log
  BY DEF Truncate
<1>3. /\ Len(log) \in Nat /\ Len(log) >= 1 /\ IsSeq(w) /\ Len(w) \in Nat /\ Len(w) >= 1
      /\ \E n \in 0..(Len(w) - 1) :
           /\ \E open \in BOOLEAN : build = [todo |-> SubSeq(w, n + 1, Len(w)), open |-> open]
           /\ \A m \in 1..n : w[m].path \in DOMAIN files /\ files[w[m].path].by = Len(log)
  BY <1>1, <1>2, WritingIs
<1>4. PICK n \in 0..(Len(w) - 1) :
        /\ \E open \in BOOLEAN : build = [todo |-> SubSeq(w, n + 1, Len(w)), open |-> open]
        /\ \A m \in 1..n : w[m].path \in DOMAIN files /\ files[w[m].path].by = Len(log)
  BY <1>3
<1>5. PICK t : t = SubSeq(w, n + 1, Len(w))
  OBVIOUS
<1>6. PICK open \in BOOLEAN : build = [todo |-> t, open |-> open]
  BY <1>4, <1>5
<1>7. build.todo = t /\ build' = [todo |-> t, open |-> TRUE]
  BY <1>2, <1>6
<1>8. Head(t) = w[n + 1] /\ n + 1 \in 1..Len(w)
  BY <1>3, <1>5, LeftIs
<1>9. PutFile(w[n + 1].path, Torn)
  BY <1>2, <1>7, <1>8
<1>10. (RunsOK /\ FilesOK /\ GenesisFirst)' /\ IsSeq(log)'
  BY <1>1, <1>2, <1>8, <1>9, WriteKeepsFiles
<1>11. TodoOK'
  <2>1. \A m \in 1..n : w[m].path \in DOMAIN files' /\ files'[w[m].path].by = Len(log)
    BY <1>4, <1>9, FilePut
  <2>2. TRUE \in BOOLEAN /\ build' = [todo |-> SubSeq(w, n + 1, Len(w)), open |-> TRUE]
    BY <1>5, <1>7
  <2>3. log' = log
    BY <1>2
  <2> QED
    BY <1>1, <1>3, <2>1, <2>2, <2>3 DEF TodoOK
<1> QED
  BY <1>10, <1>11 DEF GenesisInvariant

\* A file is written.
LEMMA WriteOutKeeps ==
  ASSUME GenesisInvariant, WriteOut
  PROVE  GenesisInvariant'
<1>1. PICK w : w = WritesOf(log[Len(log)])
  OBVIOUS
<1>2. /\ Writing /\ PutFile(Head(build.todo).path, Head(build.todo).doc) /\ log' = log
      /\ build' = IF Len(build.todo) = 1 THEN NoBuild ELSE [todo |-> Tail(build.todo), open |-> FALSE]
  BY DEF WriteOut
<1>3. /\ Len(log) \in Nat /\ Len(log) >= 1 /\ IsSeq(w) /\ Len(w) \in Nat /\ Len(w) >= 1
      /\ \E n \in 0..(Len(w) - 1) :
           /\ \E open \in BOOLEAN : build = [todo |-> SubSeq(w, n + 1, Len(w)), open |-> open]
           /\ \A m \in 1..n : w[m].path \in DOMAIN files /\ files[w[m].path].by = Len(log)
  BY <1>1, <1>2, WritingIs
<1>4. PICK n \in 0..(Len(w) - 1) :
        /\ \E open \in BOOLEAN : build = [todo |-> SubSeq(w, n + 1, Len(w)), open |-> open]
        /\ \A m \in 1..n : w[m].path \in DOMAIN files /\ files[w[m].path].by = Len(log)
  BY <1>3
<1>5. PICK t : t = SubSeq(w, n + 1, Len(w))
  OBVIOUS
<1>6. PICK open \in BOOLEAN : build = [todo |-> t, open |-> open]
  BY <1>4, <1>5
<1>7. build.todo = t
  BY <1>6
<1>8. /\ Len(t) = Len(w) - n /\ Head(t) = w[n + 1] /\ Tail(t) = SubSeq(w, (n + 1) + 1, Len(w))
      /\ n \in Nat /\ n + 1 \in 1..Len(w)
  BY <1>3, <1>5, LeftIs
<1>9. PutFile(w[n + 1].path, w[n + 1].doc)
  BY <1>2, <1>7, <1>8
<1>10. (RunsOK /\ FilesOK /\ GenesisFirst)' /\ IsSeq(log)'
  <2>1. PICK run : run = log[Len(log)]
    OBVIOUS
  <2>2. Built(run) \/ "metadata" \in DOMAIN run
    <3>1. Len(log) \in 1..Len(log)
      BY <1>3
    <3> QED
      BY <2>1, <3>1 DEF GenesisInvariant, RunsOK
  <2>3. ASSUME w[n + 1].path \in ChainFiles
        PROVE  run.options["out-genesis"] \in DOMAIN files /\ files[run.options["out-genesis"]].by = Len(log)
    <3>1. "metadata" \notin DOMAIN run
      BY <1>1, <1>8, <2>1, <2>3, MetadataElsewhere
    <3>2. n + 1 = 3 /\ w[1].path = run.options["out-genesis"]
      BY <1>1, <1>8, <2>1, <2>2, <2>3, <3>1, EntryIs
    <3>3. 1 \in 1..n
      BY <1>8, <3>2
    <3> QED
      BY <1>4, <3>2, <3>3
  <2> QED
    BY <1>1, <1>2, <1>8, <1>9, <2>1, <2>3, WriteKeepsFiles
<1>11. TodoOK'
  <2>1. log' = log
    BY <1>2
  <2>2. CASE Len(t) = 1
    <3>1. ~Writing'
      BY <1>2, <1>7, <2>2 DEF Writing
    <3> QED
      BY <3>1 DEF TodoOK
  <2>3. CASE Len(t) # 1
    <3>1. n + 1 \in 0..(Len(w) - 1)
      <4>1. Len(w) - n # 1 /\ n \in Nat /\ Len(w) \in Nat /\ n + 1 <= Len(w)
        BY <1>3, <1>8, <2>3
      <4>2. \A a \in Nat, b \in Nat : b - a # 1 /\ a + 1 <= b => a + 1 \in 0..(b - 1)
        OBVIOUS
      <4> QED
        BY <4>1, <4>2
    <3>2. FALSE \in BOOLEAN /\ build' = [todo |-> SubSeq(w, (n + 1) + 1, Len(w)), open |-> FALSE]
      BY <1>2, <1>7, <1>8, <2>3
    <3>3. ASSUME NEW m \in 1..(n + 1) PROVE w[m].path \in DOMAIN files' /\ files'[w[m].path].by = Len(log)
      <4>1. m \in 1..n \/ m = n + 1
        BY <1>8
      <4>2. DOMAIN files' = DOMAIN files \cup {w[n + 1].path} /\ files'[w[n + 1].path].by = Len(log)
        BY <1>9, FilePut
      <4>3. \A p \in DOMAIN files : p # w[n + 1].path => files'[p] = files[p]
        BY <1>9, FilePut
      <4>4. CASE m \in 1..n
        BY <1>4, <4>2, <4>3, <4>4
      <4>5. CASE m = n + 1
        BY <4>2, <4>5
      <4> QED
        BY <4>1, <4>4, <4>5
    <3>4. \E j \in 0..(Len(w) - 1) :
            /\ \E opened \in BOOLEAN : build' = [todo |-> SubSeq(w, j + 1, Len(w)), open |-> opened]
            /\ \A m \in 1..j : w[m].path \in DOMAIN files' /\ files'[w[m].path].by = Len(log)
      BY <3>1, <3>2, <3>3
    <3> QED
      BY <1>1, <1>3, <2>1, <3>4 DEF TodoOK
  <2> QED
    BY <2>2, <2>3
<1> QED
  BY <1>10, <1>11 DEF GenesisInvariant

\* Whatever is built, cut off or left out: every file is an output of a build
\* that went through, at its place among the outputs, and a chain
\* configuration comes after its genesis (build.go:277-305).
THEOREM GenesisInvariantHolds == Spec => []GenesisInvariant
<1>1. Init => GenesisInvariant
  <2> SUFFICES ASSUME Init PROVE GenesisInvariant
    OBVIOUS
  <2>1. files = <<>> /\ build = NoBuild /\ log = <<>>
    BY DEF Init
  <2>2. IsSeq(log) /\ Len(log) = 0 /\ DOMAIN files = {}
    BY <2>1, EmptySeq DEF IsSeq
  <2>3. 1..0 = {}
    OBVIOUS
  <2>4. ~Writing
    BY <2>1 DEF Writing
  <2> QED
    BY <2>2, <2>3, <2>4 DEF GenesisInvariant, RunsOK, FilesOK, TodoOK, GenesisFirst
<1>2. GenesisInvariant /\ [Next]_vars => GenesisInvariant'
  <2> SUFFICES ASSUME GenesisInvariant, [Next]_vars PROVE GenesisInvariant'
    OBVIOUS
  <2>1. ASSUME NEW ask \in Asks, NEW input \in Inputs, Build(ask, input) PROVE GenesisInvariant'
    <3>1. PICK o : o = Options(CommandLine(ask))
      OBVIOUS
    <3>2. PICK run : run = [ask |-> ask, input |-> input, options |-> o, total |-> TotalPremine(input.alloc)]
      OBVIOUS
    <3>3. /\ BuildOk(o, input, Combined(o, input)) /\ UNCHANGED files /\ log' = Append(log, run)
          /\ build' = [todo |-> Outputs(o, Combined(o, input)), open |-> FALSE]
      <4>1. BuildOk(o, input, Combined(o, input)) /\ build' = [todo |-> Outputs(o, Combined(o, input)), open |-> FALSE]
        BY <2>1, <3>1 DEF Build
      <4>4. log' = Append(log, [ask |-> ask, input |-> input, options |-> o, total |-> TotalPremine(input.alloc)])
        BY <2>1, <3>1 DEF Build
      <4>2. UNCHANGED files
        BY <2>1 DEF Build
      <4>3. log' = Append(log, run)
        BY <3>2, <4>4, Zenon
      <4> QED
        BY <4>1, <4>2, <4>3
    <3>5. /\ "metadata" \notin DOMAIN run /\ run.ask = ask /\ run.input = input /\ run.options = o
          /\ run.total = TotalPremine(input.alloc)
      BY <3>2
    <3>6. Built(run)
      BY <3>1, <3>3, <3>5, Zenon DEF Built
    <3>7. build' = [todo |-> WritesOf(run), open |-> FALSE]
      BY <3>3, <3>5, Zenon DEF WritesOf
    <3> QED
      BY <3>3, <3>6, <3>7, RunBegins
  <2>2. ASSUME NEW token \in {"token", "another token"}, ChainMetadata(token, <<"build", "chain-metadata.json">>)
        PROVE  GenesisInvariant'
    <3>1. PICK run : run = [metadata |-> token]
      OBVIOUS
    <3>2. /\ UNCHANGED files /\ log' = Append(log, run)
          /\ build' = [todo |-> <<[path |-> <<"build", "chain-metadata.json">>, doc |-> Just(Str(token))]>>, open |-> FALSE]
      <4>1. log' = Append(log, [metadata |-> token])
        BY <2>2 DEF ChainMetadata
      <4>2. log' = Append(log, run)
        BY <3>1, <4>1, Zenon
      <4>3. /\ UNCHANGED files
            /\ build' = [todo |-> <<[path |-> <<"build", "chain-metadata.json">>, doc |-> Just(Str(token))]>>, open |-> FALSE]
        BY <2>2 DEF ChainMetadata
      <4> QED
        BY <4>2, <4>3
    <3>4. "metadata" \in DOMAIN run /\ run.metadata = token
      BY <3>1
    <3>5. build' = [todo |-> WritesOf(run), open |-> FALSE]
      BY <3>2, <3>4, Zenon DEF WritesOf
    <3> QED
      BY <3>2, <3>4, <3>5, RunBegins
  <2>3. ASSUME Abort PROVE GenesisInvariant'
    <3>1. ~Writing' /\ UNCHANGED <<files, log>>
      BY <2>3 DEF Abort, Writing
    <3> QED
      BY <3>1, SMTT(30) DEF GenesisInvariant, RunsOK, FilesOK, TodoOK, GenesisFirst, IsSeq
  <2>4. ASSUME UNCHANGED vars PROVE GenesisInvariant'
    BY <2>4, SMTT(30) DEF vars, GenesisInvariant, RunsOK, FilesOK, TodoOK, GenesisFirst, Writing, IsSeq
  <2> QED
    BY <2>1, <2>2, <2>3, <2>4, TruncateKeeps, WriteOutKeeps DEF Next
<1> QED
  BY <1>1, <1>2, PTL DEF Spec

----------------------------------------------------------------------------
(* Chain configurations *)

\* What a chain configuration is: the document with the path of the genesis
\* in its place.
LEMMA ChainDocIs ==
  ASSUME NEW c, DOMAIN c \subseteq Seq(Word), NEW path, NEW e, e = ChainDoc(c, path)
  PROVE  /\ DOMAIN e \subseteq Seq(Word)
         /\ <<"genesis">> \in DOMAIN e /\ e[<<"genesis">>] = Str(path)
         /\ \A q : ~IsPrefix(<<"genesis">>, q) => (q \in DOMAIN e <=> q \in DOMAIN c) /\ (q \in DOMAIN c => e[q] = c[q])
<1>1. PICK sub : sub = Just(Str(path)) /\ DOMAIN sub = {<<>>} /\ sub[<<>>] = Str(path) /\ DOMAIN sub \subseteq Seq(Word)
  BY JustIs
<1>2. PICK g \in Seq(Word) : g = <<"genesis">>
  BY PathsAre
<1>3. e = Put(c, g, sub)
  BY <1>1, <1>2, Zenon DEF ChainDoc
<1>4. DOMAIN e \subseteq Seq(Word) /\ IsPut(e, c, g, sub)
  <2>1. DOMAIN sub \subseteq Seq(Word)
    BY <1>1
  <2> QED
    BY <1>3, <2>1, PutIs
<1>5. g \o <<>> \in DOMAIN e /\ e[g \o <<>>] = Str(path)
  <2>1. PICK none \in DOMAIN sub : none = <<>>
    BY <1>1
  <2>2. g \o none \in DOMAIN e /\ e[g \o none] = sub[none]
    BY <1>4, Zenon DEF IsPut
  <2> QED
    BY <1>1, <2>1, <2>2, Zenon
<1>6. g \o <<>> = g
  BY ConcatEmptySeq
<1>7. \A q : ~IsPrefix(g, q) => (q \in DOMAIN e <=> q \in DOMAIN c) /\ (q \in DOMAIN c => e[q] = c[q])
  BY <1>4, Zenon DEF IsPut
<1>8. g \in DOMAIN e /\ e[g] = Str(path)
  BY <1>5, <1>6, Zenon
<1>9. <<"genesis">> \in DOMAIN e /\ e[<<"genesis">>] = Str(path)
  BY <1>2, <1>8, Zenon
<1>10. \A q : ~IsPrefix(<<"genesis">>, q) => (q \in DOMAIN e <=> q \in DOMAIN c) /\ (q \in DOMAIN c => e[q] = c[q])
  BY <1>2, <1>7, Zenon
<1> QED
  BY <1>4, <1>9, <1>10, Zenon

\* Whatever leads on from another key is as it was.
LEMMA ChainDocElsewhere ==
  ASSUME NEW c, DOMAIN c \subseteq Seq(Word), NEW path, NEW e, e = ChainDoc(c, path),
         NEW x \in Seq(Word), Len(x) >= 1, x[1] # "genesis"
  PROVE  SameUnder(e, c, x)
<1>1. PICK g \in Seq(Word) : g = <<"genesis">> /\ Len(g) = 1 /\ g[1] = "genesis"
  BY PathsAre
<1>2. DOMAIN e \subseteq Seq(Word)
  BY ChainDocIs
<1>3. \A q : ~IsPrefix(g, q) => (q \in DOMAIN e <=> q \in DOMAIN c) /\ (q \in DOMAIN c => e[q] = c[q])
  <2>1. \A q : ~IsPrefix(<<"genesis">>, q) => (q \in DOMAIN e <=> q \in DOMAIN c) /\ (q \in DOMAIN c => e[q] = c[q])
    BY ChainDocIs
  <2> QED
    BY <1>1, <2>1, Zenon
<1>4. Apart(g, x)
  <2>1. 1 \in 1..1 /\ Len(g) = 1 /\ g[1] # x[1]
    BY <1>1
  <2> QED
    BY <2>1 DEF Apart
<1>5. \A q \in Seq(Word) : IsPrefix(x, q) => ~IsPrefix(g, q)
  BY <1>4, PathsPart
<1> QED
  BY <1>2, <1>3, <1>5 DEF SameUnder

\* What a complete file holds, by what it is named for.
LEMMA FileIs ==
  ASSUME GenesisInvariant, NEW p \in EthFiles \cup ChainFiles \cup CombinedFiles, Complete(p),
         NEW run, run = Origin(p), NEW c, c = Combined(run.options, run.input)
  PROVE  /\ Built(run)
         /\ p \in EthFiles => Doc(p) = Sub(c, <<"genesis">>)
         /\ p \in CombinedFiles => Doc(p) = c
         /\ p \in ChainFiles => Doc(p) = ChainDoc(c, run.options["out-genesis"])
         /\ run.options["out-genesis"] \in EthFiles
<1>1. PICK w : w = WritesOf(run)
  OBVIOUS
<1>2. p \in DOMAIN files /\ files[p].doc # Torn
  BY DEF Complete
<1>3. files[p].by \in 1..Len(log) /\ \E k \in DOMAIN w : w[k].path = p /\ w[k].doc = files[p].doc
  BY <1>1, <1>2 DEF GenesisInvariant, FilesOK, Origin
<1>4. DOMAIN w = 1..Len(w)
  BY <1>1, WritesAre
<1>5. PICK k \in 1..Len(w) : w[k].path = p /\ w[k].doc = Doc(p)
  BY <1>3, <1>4 DEF Doc
<1>6. Built(run) \/ "metadata" \in DOMAIN run
  BY <1>3 DEF GenesisInvariant, RunsOK, Origin
<1>7. Built(run)
  BY <1>1, <1>5, <1>6, MetadataElsewhere
<1> QED
  BY <1>1, <1>5, <1>7, EntryIs

\* A build that went through: its document, and its mode.
LEMMA BuiltIs ==
  ASSUME NEW run, Built(run), NEW c, c = Combined(run.options, run.input)
  PROVE  /\ run.input \in Inputs /\ run.options["consensus"] \in {"poa", "pos"}
         /\ DOMAIN c \subseteq Seq(Word) /\ <<"alloc">> \notin DOMAIN c
         /\ \A q \in DOMAIN c : q # <<>> => q[1] \notin LegacyKeys
<1>1. PICK o : o = run.options
  OBVIOUS
<1>2. run.input \in Inputs
  BY DEF Built
<1>3. o["consensus"] \in {"poa", "pos"}
  BY <1>1 DEF Built, BuildOk, UsageOk
<1>4. /\ DOMAIN c \subseteq Seq(Word) /\ <<"alloc">> \notin DOMAIN c
      /\ \A q \in DOMAIN c : q # <<>> => q[1] \notin LegacyKeys
  BY <1>1, <1>2, <1>3, CombinedIs
<1> QED
  BY <1>1, <1>2, <1>3, <1>4

\* A chain configuration on disk never names a genesis that is not there or
\* is older than itself, wherever runs are killed (build.go:277-305).
THEOREM ChainHasItsGenesis == Spec => []ChainNamesItsGenesis
<1>1. GenesisInvariant => ChainNamesItsGenesis
  <2> SUFFICES ASSUME GenesisInvariant, NEW p \in ChainFiles, Complete(p), NEW g, g = Doc(p)[<<"genesis">>].value
               PROVE  g \in DOMAIN files /\ files[g].by >= files[p].by
    BY DEF ChainNamesItsGenesis
  <2>1. PICK run : run = Origin(p)
    OBVIOUS
  <2>2. PICK c : c = Combined(run.options, run.input)
    OBVIOUS
  <2>3. Built(run) /\ Doc(p) = ChainDoc(c, run.options["out-genesis"])
    BY <2>1, <2>2, FileIs
  <2>4. DOMAIN c \subseteq Seq(Word)
    BY <2>2, <2>3, BuiltIs
  <2>5. Doc(p)[<<"genesis">>] = Str(run.options["out-genesis"])
    BY <2>3, <2>4, ChainDocIs
  <2>6. g = run.options["out-genesis"]
    BY <2>5 DEF Str
  <2>7. p \in DOMAIN files /\ files[p].doc # Torn
    BY DEF Complete
  <2> QED
    BY <2>1, <2>6, <2>7 DEF GenesisInvariant, GenesisFirst, Origin
<1> QED
  BY <1>1, GenesisInvariantHolds, PTL

\* params.engine.ibft of every chain on disk is that of the overlay of the mode
\* that was asked for, with its placeholders filled in, and nothing that a
\* template adds there (build.go:183-204).
THEOREM EngineIsAsked == Spec => []EngineIsTheOverlays
<1>1. GenesisInvariant => EngineIsTheOverlays
  <2> SUFFICES ASSUME GenesisInvariant, NEW p \in ChainFiles \cup CombinedFiles, Complete(p),
                      NEW o, o = Origin(p).options, NEW input, input = Origin(p).input,
                      NEW overlay, overlay = ApplyPlaceholders(input.overlays[o["consensus"]], Placeholders(o, input))
               PROVE  Sub(Doc(p), IbftPath) = Sub(overlay, IbftPath)
    BY DEF EngineIsTheOverlays
  <2>1. PICK run : run = Origin(p)
    OBVIOUS
  <2>2. PICK c : c = Combined(o, input)
    OBVIOUS
  <2>3. Built(run) /\ (p \in CombinedFiles => Doc(p) = c) /\ (p \in ChainFiles => Doc(p) = ChainDoc(c, o["out-genesis"]))
    BY <2>1, <2>2, FileIs
  <2>4. input \in Inputs /\ o["consensus"] \in {"poa", "pos"} /\ DOMAIN c \subseteq Seq(Word)
    BY <2>1, <2>2, <2>3, BuiltIs
  <2>5. DOMAIN overlay \subseteq Seq(Word) /\ SameUnder(c, overlay, IbftPath)
    BY <2>2, <2>4, CombinedIs
  <2>6. Sub(c, IbftPath) = Sub(overlay, IbftPath)
    BY <2>4, <2>5, PathsAre, SameThere
  <2>7. CASE p \in CombinedFiles
    BY <2>3, <2>6, <2>7
  <2>8. CASE p \in ChainFiles
    <3>1. PICK e : e = ChainDoc(c, o["out-genesis"])
      OBVIOUS
    <3>2. DOMAIN e \subseteq Seq(Word)
      BY <2>4, <3>1, ChainDocIs
    <3>3. PICK x \in Seq(Word) : x = IbftPath /\ Len(x) = 3 /\ x[1] = "params"
      BY PathsAre
    <3>4. Len(x) >= 1 /\ x[1] # "genesis"
      BY <3>3
    <3>5. SameUnder(e, c, x)
      BY <2>4, <3>1, <3>4, ChainDocElsewhere
    <3>6. Sub(e, x) = Sub(c, x)
      BY <2>4, <3>2, <3>5, SameThere
    <3> QED
      BY <2>3, <2>6, <2>8, <3>1, <3>3, <3>6
  <2> QED
    BY <2>7, <2>8
<1> QED
  BY <1>1, GenesisInvariantHolds, PTL

----------------------------------------------------------------------------
(* What passes *)

\* A path that is written out leads on from its first key.
LEMMA FirstLeads ==
  ASSUME NEW a, NEW b, NEW f, NEW g
  PROVE  /\ IsPrefix(<<a>>, <<a, b>>) /\ IsPrefix(<<a>>, <<a, b>> \o <<f, g>>) /\ IsPrefix(<<a>>, <<a, b, f>> \o <<g>>)
         /\ IsPrefix(<<a>>, <<a, b, f>>)
<1>1. PICK S : S = {a, b, f, g}
  OBVIOUS
<1>2. ASSUME NEW q \in Seq(S), Len(q) >= 1, q[1] = a PROVE IsPrefix(<<a>>, q)
  <2>4. a \in S
    BY <1>1
  <2>5. <<a>> \in Seq(S) /\ Len(<<a>>) = 1 /\ <<a>>[1] = a
    BY <2>4
  <2>1. PICK x \in Seq(S) : x = <<a>> /\ Len(x) = 1 /\ x[1] = a
    BY <2>5
  <2>2. Len(x) = 1 /\ Len(q) >= 1 /\ q[1] = x[1]
    BY <1>2, <2>1
  <2>3. IsPrefix(x, q)
    BY <2>2, OneKeyLeads
  <2> QED
    BY <2>1, <2>3
<1>3. <<a, b>> \in Seq(S) /\ Len(<<a, b>>) >= 1 /\ <<a, b>>[1] = a
  BY <1>1
<1>4. <<a, b, f>> \in Seq(S) /\ Len(<<a, b, f>>) >= 1 /\ <<a, b, f>>[1] = a
  BY <1>1
<1>5. <<a, b>> \o <<f, g>> \in Seq(S) /\ Len(<<a, b>> \o <<f, g>>) >= 1 /\ (<<a, b>> \o <<f, g>>)[1] = a
  BY <1>1
<1>6. <<a, b, f>> \o <<g>> \in Seq(S) /\ Len(<<a, b, f>> \o <<g>>) >= 1 /\ (<<a, b, f>> \o <<g>>)[1] = a
  BY <1>1
<1> QED
  BY <1>2, <1>3, <1>4, <1>5, <1>6

\* Nothing but the genesis is different.
SameButGenesis(e, c) ==
  \A q : ~IsPrefix(<<"genesis">>, q) => (q \in DOMAIN e <=> q \in DOMAIN c) /\ (q \in DOMAIN c => e[q] = c[q])

\* Then the other keys are as they were.
LEMMA SameButGenesisIs ==
  ASSUME NEW c, DOMAIN c \subseteq Seq(Word), NEW e, DOMAIN e \subseteq Seq(Word), SameButGenesis(e, c),
         NEW x \in Seq(Word), Len(x) >= 1, x[1] # "genesis"
  PROVE  SameUnder(e, c, x)
<1>1. PICK g \in Seq(Word) : g = <<"genesis">> /\ Len(g) = 1 /\ g[1] = "genesis"
  BY PathsAre
<1>2. \A q : ~IsPrefix(g, q) => (q \in DOMAIN e <=> q \in DOMAIN c) /\ (q \in DOMAIN c => e[q] = c[q])
  BY <1>1, Zenon DEF SameButGenesis
<1>3. Apart(g, x)
  <2>1. 1 \in 1..1 /\ Len(g) = 1 /\ g[1] # x[1]
    BY <1>1
  <2> QED
    BY <2>1 DEF Apart
<1>4. \A q \in Seq(Word) : IsPrefix(x, q) => ~IsPrefix(g, q)
  BY <1>3, PathsPart
<1> QED
  BY <1>2, <1>4 DEF SameUnder

\* Where a document has none of the old keys, none is found.
LEMMA NoOldKeys ==
  ASSUME NEW c, DOMAIN c \subseteq Seq(Word), \A q \in DOMAIN c : q # <<>> => q[1] \notin LegacyKeys,
         NEW e, DOMAIN e \subseteq Seq(Word), SameButGenesis(e, c)
  PROVE  /\ \A q \in DOMAIN e : q # <<>> => q[1] \notin LegacyKeys
         /\ Keys(e, <<>>) \cap LegacyKeys = {}
         /\ At(e, <<"consensus", "type">>) = Absent
<1>1. PICK g \in Seq(Word) : g = <<"genesis">> /\ Len(g) = 1 /\ g[1] = "genesis"
  BY PathsAre
<1>2. \A q : ~IsPrefix(g, q) => (q \in DOMAIN e <=> q \in DOMAIN c) /\ (q \in DOMAIN c => e[q] = c[q])
  BY <1>1, Zenon DEF SameButGenesis
<1>3. ASSUME NEW q \in DOMAIN e, q # <<>> PROVE q[1] \notin LegacyKeys
  <2>1. CASE IsPrefix(g, q)
    <3>1. q \in Seq(Word) /\ Len(g) = 1 /\ g[1] = "genesis"
      BY <1>1
    <3>2. q[1] = "genesis"
      BY <2>1, <3>1, OneKeyLeads
    <3> QED
      BY <3>2 DEF LegacyKeys
  <2>2. CASE ~IsPrefix(g, q)
    BY <1>2, <1>3, <2>2
  <2> QED
    BY <2>1, <2>2
<1>4. Keys(e, <<>>) \cap LegacyKeys = {}
  <2> SUFFICES ASSUME NEW k \in Keys(e, <<>>) PROVE k \notin LegacyKeys
    OBVIOUS
  <2>1. PICK none \in Seq(Word) : none = <<>> /\ Len(none) = 0
    BY EmptySeq
  <2>5. k \in Keys(e, none)
    BY <2>1
  <2>2. PICK q \in DOMAIN e : IsPrefix(none, q) /\ Len(q) > Len(none) /\ q[Len(none) + 1] = k
    BY <2>5, KeysAre
  <2>3. Len(q) > 0 /\ q[1] = k
    <3>1. Len(none) = 0 /\ Len(none) + 1 = 1
      BY <2>1
    <3> QED
      BY <2>2, <3>1
  <2>4. q # <<>>
    BY <2>3, EmptySeq
  <2> QED
    BY <1>3, <2>3, <2>4
<1>5. At(e, <<"consensus", "type">>) = Absent
  <2>1. PICK q : q = <<"consensus", "type">>
    OBVIOUS
  <2>2. q # <<>> /\ q[1] \in LegacyKeys
    BY <2>1 DEF LegacyKeys
  <2>3. q \notin DOMAIN e
    BY <1>3, <2>2
  <2> QED
    BY <2>1, <2>3 DEF At
<1> QED
  BY <1>3, <1>4, <1>5

\* Apart from its genesis a chain configuration that a build made passes, with
\* whatever options.
LEMMA ConfigPasses ==
  ASSUME NEW run, Built(run), NEW c, c = Combined(run.options, run.input),
         NEW e, DOMAIN e \subseteq Seq(Word), SameButGenesis(e, c), NEW o, NEW fs, ValidateGenesisField(e, fs)
  PROVE  ValidateChainConfig(e, o, fs) /\ <<"alloc">> \notin DOMAIN e
<1>1. /\ DOMAIN c \subseteq Seq(Word) /\ <<"alloc">> \notin DOMAIN c
      /\ \A q \in DOMAIN c : q # <<>> => q[1] \notin LegacyKeys
  BY BuiltIs
<1>2. PICK d : d = ChainDoc(c, PlaceholderPath)
  OBVIOUS
<1>3. DOMAIN d \subseteq Seq(Word) /\ SameButGenesis(d, c)
  BY <1>1, <1>2, ChainDocIs DEF SameButGenesis
<1>4. /\ IsObject(d, <<"params">>)
      /\ \E id \in {"chainID", "chainId"} : At(d, <<"params", id>>).kind = "number"
      /\ ValidateForks(d) /\ ValidateEngine(d, run.options)
  BY <1>2 DEF Built, BuildOk, ValidateChainConfig
<1>5. \A q : IsPrefix(<<"params">>, q) => At(e, q) = At(d, q)
  <2>1. PICK x \in Seq(Word) : x = <<"params">> /\ Len(x) = 1 /\ x[1] = "params"
    BY PathsAre
  <2>2. Len(x) >= 1 /\ x[1] # "genesis"
    BY <2>1
  <2>3. SameUnder(e, c, x) /\ SameUnder(d, c, x)
    BY <1>1, <1>3, <2>2, SameButGenesisIs
  <2>4. \A q : IsPrefix(x, q) => At(e, q) = At(c, q)
    BY <1>1, <2>3 DEF SameUnder, At
  <2>5. \A q : IsPrefix(x, q) => At(d, q) = At(c, q)
    BY <1>1, <2>3 DEF SameUnder, At
  <2>6. \A q : IsPrefix(x, q) => At(e, q) = At(d, q)
    BY <2>4, <2>5
  <2> QED
    BY <2>1, <2>6, Zenon
<1>6. IsObject(e, <<"params">>)
  <2>1. IsPrefix(<<"params">>, <<"params">>)
    BY PathsAre, LeadsToItself
  <2> QED
    BY <1>4, <1>5, <2>1 DEF IsObject
<1>7. \E id \in {"chainID", "chainId"} : At(e, <<"params", id>>).kind = "number"
  <2>1. \A id : At(e, <<"params", id>>) = At(d, <<"params", id>>)
    BY <1>5, FirstLeads
  <2> QED
    BY <1>4, <2>1
<1>8. ValidateForks(e)
  <2>1. PICK forks : forks = <<"params", "forks">>
    OBVIOUS
  <2>2. At(e, forks) = At(d, forks) /\ \A f : At(e, forks \o <<f, "block">>) = At(d, forks \o <<f, "block">>)
    BY <1>5, <2>1, FirstLeads
  <2>3. Keys(e, forks) = Keys(d, forks)
    <3>1. forks \in Seq(Word) /\ Len(forks) >= 1 /\ forks[1] # "genesis"
      <4>1. PICK S : S = Word
        OBVIOUS
      <4>2. PICK a \in S, b \in S : a = "params" /\ b = "forks"
        BY <4>1, Zenon DEF Word
      <4>3. <<a, b>> \in Seq(S) /\ Len(<<a, b>>) = 2 /\ <<a, b>>[1] = a
        OBVIOUS
      <4>4. forks \in Seq(S) /\ Len(forks) = 2 /\ forks[1] = "params"
        BY <2>1, <4>2, <4>3
      <4> QED
        BY <4>1, <4>4
    <3>2. PICK x \in Seq(Word) : x = forks /\ Len(x) >= 1 /\ x[1] # "genesis"
      BY <3>1
    <3>3. SameUnder(e, c, x) /\ SameUnder(d, c, x)
      BY <1>1, <1>3, <3>2, SameButGenesisIs
    <3>4. Keys(e, x) = Keys(c, x)
      BY <1>1, <3>3, SameThere
    <3>5. Keys(d, x) = Keys(c, x)
      BY <1>1, <1>3, <3>3, SameThere
    <3> QED
      BY <3>2, <3>4, <3>5
  <2>4. IsObject(d, forks) /\ \A f \in Keys(d, forks) : At(d, forks \o <<f, "block">>).kind = "number"
    BY <1>4, <2>1 DEF ValidateForks
  <2>5. IsObject(e, forks) /\ \A f \in Keys(e, forks) : At(e, forks \o <<f, "block">>).kind = "number"
    BY <2>2, <2>3, <2>4 DEF IsObject
  <2> QED
    BY <2>1, <2>5 DEF ValidateForks
<1>9. ValidateEngine(e, o)
  <2>1. At(d, <<"consensus", "type">>) = Absent
    BY <1>1, <1>3, NoOldKeys
  <2>2. Absent # Str("ibft")
    BY DEF Absent, Str
  <2>3. PICK ibft : ibft = <<"params", "engine", "ibft">>
    OBVIOUS
  <2>4. /\ IsObject(d, <<"params", "engine">>) /\ IsObject(d, ibft)
        /\ At(d, ibft \o <<"type">>) \in {Str("PoA"), Str("PoS")}
    BY <1>4, <2>1, <2>2, <2>3, Zenon DEF ValidateEngine
  <2>5. /\ At(e, <<"params", "engine">>) = At(d, <<"params", "engine">>)
        /\ At(e, ibft) = At(d, ibft) /\ At(e, ibft \o <<"type">>) = At(d, ibft \o <<"type">>)
    BY <1>5, <2>3, FirstLeads
  <2>6. /\ IsObject(e, <<"params", "engine">>) /\ IsObject(e, ibft)
        /\ At(e, ibft \o <<"type">>) \in {Str("PoA"), Str("PoS")}
    BY <2>4, <2>5, Zenon DEF IsObject
  <2> QED
    BY <2>3, <2>6, Zenon DEF ValidateEngine
<1>10. Keys(e, <<>>) \cap LegacyKeys = {}
  BY <1>1, NoOldKeys
<1>11. <<"alloc">> \notin DOMAIN e
  <2>1. PICK S : S = Word
    OBVIOUS
  <2>2. PICK a \in S : a = "alloc"
    BY <2>1, Zenon DEF Word
  <2>3. <<a>> \in Seq(S) /\ Len(<<a>>) = 1 /\ <<a>>[1] = a
    OBVIOUS
  <2>4. PICK x \in Seq(Word) : x = <<"alloc">> /\ Len(x) = 1 /\ x[1] = "alloc"
    BY <2>1, <2>2, <2>3
  <2>5. Len(x) >= 1 /\ x[1] # "genesis"
    BY <2>4
  <2>6. SameUnder(e, c, x)
    BY <1>1, <2>5, SameButGenesisIs
  <2>7. IsPrefix(x, x)
    BY LeadsToItself
  <2>8. x \notin DOMAIN c
    BY <1>1, <2>4
  <2>9. x \notin DOMAIN e
    BY <2>6, <2>7, <2>8 DEF SameUnder
  <2> QED
    BY <2>4, <2>9
<1> QED
  BY <1>6, <1>7, <1>8, <1>9, <1>10, <1>11 DEF ValidateChainConfig

\* How `genesis validate` is called without further options.
Strict == [flag \in {"strict", "accept-legacy-consensus"} |-> IF flag = "strict" THEN TRUE ELSE FALSE]
Line(conf, genesis) == [ValidateLine EXCEPT !.chain = conf, !.genesis = genesis]

\* What it then says.
LEMMA ValidateSays ==
  ASSUME NEW conf, NEW genesis, NEW named, named = {conf, genesis} \ {NoPath}, named # {}, NEW fs
  PROVE  GenesisValidate(Line(conf, genesis), fs) =
           IF \A p \in named : p \in DOMAIN fs /\ Validate(fs[p], Strict, fs) THEN 0 ELSE 1
<1>1. PICK line : line = Line(conf, genesis)
  OBVIOUS
<1>2. line.chain = conf /\ line.genesis = genesis /\ line.strict = TRUE /\ line.legacy = FALSE
  BY <1>1 DEF Line, ValidateLine
<1>3. named # {NoPath}
  OBVIOUS
<1>4. GenesisValidate(line, fs) = IF \A p \in named : p \in DOMAIN fs /\ Validate(fs[p], Strict, fs) THEN 0 ELSE 1
  BY <1>2, <1>3 DEF GenesisValidate, Strict
<1> QED
  BY <1>1, <1>4, Zenon

\* Files that pass.
LEMMA AllPass ==
  ASSUME NEW conf, NEW genesis, conf # NoPath, NEW fs,
         \A p \in {conf, genesis} \ {NoPath} : p \in DOMAIN fs /\ Validate(fs[p], Strict, fs)
  PROVE  GenesisValidate(Line(conf, genesis), fs) = 0
<1>0. conf \in {conf, genesis} \ {NoPath}
  OBVIOUS
<1>1. PICK named : named = {conf, genesis} \ {NoPath} /\ named # {}
  BY <1>0
<1>2. GenesisValidate(Line(conf, genesis), fs) =
        IF \A p \in named : p \in DOMAIN fs /\ Validate(fs[p], Strict, fs) THEN 0 ELSE 1
  BY <1>1, ValidateSays
<1> QED
  BY <1>1, <1>2

\* One that does not is enough.
LEMMA OneFails ==
  ASSUME NEW conf, NEW genesis, NEW p \in {conf, genesis}, p # NoPath, NEW fs, ~Validate(fs[p], Strict, fs)
  PROVE  GenesisValidate(Line(conf, genesis), fs) = 1
<1>1. PICK named : named = {conf, genesis} \ {NoPath} /\ named # {}
  OBVIOUS
<1>2. GenesisValidate(Line(conf, genesis), fs) =
        IF \A q \in named : q \in DOMAIN fs /\ Validate(fs[q], Strict, fs) THEN 0 ELSE 1
  BY <1>1, ValidateSays
<1>3. p \in named
  BY <1>1
<1> QED
  BY <1>2, <1>3

\* What it says of one that is torn, and what `genesis print` does.
LEMMA TornFails ==
  ASSUME NEW p, p # NoPath, NEW fs, p \in DOMAIN fs, fs[p] = Torn
  PROVE  /\ \A o : ~Validate(fs[p], o, fs)
         /\ GenesisValidate([ValidateLine EXCEPT !.file = p], fs) = 1
         /\ GenesisPrint(p, FALSE, fs).exit = 1
<1>1. \A o : ~Validate(fs[p], o, fs)
  BY DEF Validate
<1>2. GenesisValidate([ValidateLine EXCEPT !.file = p], fs) = 1
  <2>1. PICK line : line = [ValidateLine EXCEPT !.file = p]
    OBVIOUS
  <2>2. line.chain = NoPath /\ line.genesis = NoPath /\ line.file = p
    BY <2>1 DEF ValidateLine
  <2>3. {line.chain, line.genesis} \ {NoPath} = {} /\ {p} # {NoPath}
    BY <2>2
  <2>4. GenesisValidate(line, fs) = 1
    BY <1>1, <2>2, <2>3 DEF GenesisValidate
  <2> QED
    BY <2>1, <2>4, Zenon
<1>3. GenesisPrint(p, FALSE, fs).exit = 1
  <2>1. GenesisPrint(p, FALSE, fs) = Answer(1, Nothing)
    BY DEF GenesisPrint
  <2>2. Answer(1, Nothing).exit = 1
    BY DEF Answer
  <2> QED
    BY <2>1, <2>2, Zenon
<1> QED
  BY <1>1, <1>2, <1>3

\* The genesis of a build passes.
LEMMA GenesisPasses ==
  ASSUME NEW run, Built(run), NEW c, c = Combined(run.options, run.input), NEW g, g = Sub(c, <<"genesis">>)
  PROVE  /\ IsObject(c, <<"genesis">>) /\ ValidateEthereumGenesis(g)
         /\ g # Torn => \A fs : Validate(g, Strict, fs)
<1>1. IsObject(c, <<"genesis">>) /\ ValidateEthereumGenesis(g)
  BY DEF Built, BuildOk
<1>2. <<"alloc">> \in DOMAIN g
  <2>1. IsObject(g, <<"alloc">>)
    BY <1>1 DEF ValidateEthereumGenesis
  <2> QED
    BY <2>1 DEF IsObject, At, Absent
<1> QED
  BY <1>1, <1>2 DEF Validate

\* Whatever a build wrote, also with its validation relaxed, the strict
\* `genesis validate` accepts; what is torn it refuses, and so does
\* `genesis print` (validate.go:30, build.go:137, qikchain/main.go:344-453).
THEOREM OutputsPass == Spec => []OutputsValidate
<1> DEFINE Contents == [p \in DOMAIN files |-> Doc(p)]
           Status(conf, genesis) == GenesisValidate(Line(conf, genesis), Contents)
<1>1. ASSUME GenesisInvariant PROVE OutputsValidate
  <2>2. PICK fs : fs = Contents
    OBVIOUS
  <2>3. DOMAIN fs = DOMAIN files /\ \A p \in DOMAIN files : fs[p] = Doc(p)
    BY <2>2
  <2>4. NoPath \notin EthFiles /\ NoPath \notin ChainFiles /\ NoPath \notin CombinedFiles
    BY NamesAssumption
  <2>5. ASSUME NEW p \in CombinedFiles, Complete(p) PROVE Status(p, NoPath) = 0
    <3>1. PICK run : run = Origin(p)
      OBVIOUS
    <3>2. PICK c : c = Combined(run.options, run.input)
      OBVIOUS
    <3>3. Built(run) /\ Doc(p) = c
      BY <1>1, <2>5, <3>1, <3>2, FileIs
    <3>4. p \in DOMAIN fs /\ fs[p] = c /\ c # Torn
      BY <2>3, <2>5, <3>3 DEF Complete, Doc
    <3>5. DOMAIN c \subseteq Seq(Word)
      BY <3>2, <3>3, BuiltIs
    <3>6. SameButGenesis(c, c)
      BY DEF SameButGenesis
    <3>7. ValidateGenesisField(c, fs)
      <4>1. IsObject(c, <<"genesis">>) /\ ValidateEthereumGenesis(Sub(c, <<"genesis">>))
        BY <3>2, <3>3, GenesisPasses
      <4> QED
        BY <4>1 DEF ValidateGenesisField, IsObject
    <3>8. ValidateChainConfig(c, Strict, fs) /\ <<"alloc">> \notin DOMAIN c
      BY <3>2, <3>3, <3>5, <3>6, <3>7, ConfigPasses
    <3>9. Validate(fs[p], Strict, fs)
      BY <3>4, <3>8 DEF Validate
    <3>10. \A q \in {p, NoPath} \ {NoPath} : q \in DOMAIN fs /\ Validate(fs[q], Strict, fs)
      BY <3>4, <3>9
    <3> QED
      BY <2>2, <2>4, <3>10, AllPass
  <2>6. ASSUME NEW p \in ChainFiles, Complete(p), NEW g, g = Doc(p)[<<"genesis">>].value, Complete(g)
        PROVE  Status(p, NoPath) = 0 /\ Status(p, g) = 0
    <3>1. PICK run : run = Origin(p)
      OBVIOUS
    <3>2. PICK c : c = Combined(run.options, run.input)
      OBVIOUS
    <3>3. PICK e : e = ChainDoc(c, run.options["out-genesis"])
      OBVIOUS
    <3>4. Built(run) /\ Doc(p) = e /\ run.options["out-genesis"] \in EthFiles
      BY <1>1, <2>6, <3>1, <3>2, <3>3, FileIs
    <3>5. DOMAIN c \subseteq Seq(Word)
      BY <3>2, <3>4, BuiltIs
    <3>6. /\ DOMAIN e \subseteq Seq(Word) /\ SameButGenesis(e, c)
          /\ <<"genesis">> \in DOMAIN e /\ e[<<"genesis">>] = Str(run.options["out-genesis"])
      BY <3>3, <3>5, ChainDocIs DEF SameButGenesis
    <3>7. e[<<"genesis">>] = Str(g) /\ g \in EthFiles
      BY <2>6, <3>4, <3>6 DEF Str
    <3>8. p \in DOMAIN fs /\ fs[p] = e /\ e # Torn
      BY <2>3, <2>6, <3>4 DEF Complete, Doc
    <3>9. PICK other : other = Origin(g)
      OBVIOUS
    <3>10. PICK c2 : c2 = Combined(other.options, other.input)
      OBVIOUS
    <3>11. Built(other) /\ Doc(g) = Sub(c2, <<"genesis">>)
      BY <1>1, <2>6, <3>7, <3>9, <3>10, FileIs
    <3>12. g \in DOMAIN fs /\ fs[g] = Doc(g) /\ Doc(g) # Torn
      BY <2>3, <2>6 DEF Complete, Doc
    <3>13. ValidateEthereumGenesis(fs[g]) /\ Validate(fs[g], Strict, fs)
      BY <3>10, <3>11, <3>12, GenesisPasses
    <3>14. ValidateGenesisField(e, fs)
      <4>1. At(e, <<"genesis">>) = Str(g)
        BY <3>6, <3>7 DEF At
      <4>2. At(e, <<"genesis">>).kind = "string" /\ At(e, <<"genesis">>).value = g
        BY <4>1 DEF Str
      <4> QED
        BY <3>13, <4>2 DEF ValidateGenesisField
    <3>15. ValidateChainConfig(e, Strict, fs) /\ <<"alloc">> \notin DOMAIN e
      BY <3>2, <3>4, <3>6, <3>14, ConfigPasses
    <3>16. Validate(fs[p], Strict, fs)
      BY <3>8, <3>15 DEF Validate
    <3>17. \A q \in {p, NoPath} \ {NoPath} : q \in DOMAIN fs /\ Validate(fs[q], Strict, fs)
      BY <3>8, <3>16
    <3>18. \A q \in {p, g} \ {NoPath} : q \in DOMAIN fs /\ Validate(fs[q], Strict, fs)
      BY <3>8, <3>12, <3>13, <3>16
    <3>19. Status(p, NoPath) = 0
      BY <2>2, <2>4, <3>17, AllPass
    <3>20. Status(p, g) = 0
      BY <2>2, <2>4, <3>18, AllPass
    <3> QED
      BY <3>19, <3>20
  <2>7. ASSUME NEW p \in DOMAIN files \ {NoPath}, ~Complete(p)
        PROVE  /\ Status(p, NoPath) = 1 /\ \A q \in EthFiles : Status(q, p) = 1
               /\ GenesisValidate([ValidateLine EXCEPT !.file = p], Contents) = 1
               /\ GenesisPrint(p, FALSE, Contents).exit = 1
    <3>1. p \in DOMAIN fs /\ fs[p] = Torn /\ p # NoPath
      BY <2>3, <2>7 DEF Complete, Doc
    <3>2. ~Validate(fs[p], Strict, fs) /\ GenesisValidate([ValidateLine EXCEPT !.file = p], fs) = 1 /\ GenesisPrint(p, FALSE, fs).exit = 1
      BY <3>1, TornFails
    <3>4. \A q : Status(q, p) = 1
      BY <2>2, <3>1, <3>2, OneFails
    <3>5. Status(p, NoPath) = 1
      BY <2>2, <3>1, <3>2, OneFails
    <3> QED
      BY <2>2, <3>2, <3>4, <3>5
  <2> QED
    BY <2>5, <2>6, <2>7 DEF OutputsValidate, Line
<1> QED
  BY <1>1, GenesisInvariantHolds, PTL

----------------------------------------------------------------------------
(* The premine *)

\* A document is found in another, behind a path, and nothing else is there.
IsAt(d, p, v) ==
  /\ \A q \in DOMAIN v : p \o q \in DOMAIN d /\ d[p \o q] = v[q]
  /\ \A r \in DOMAIN d : IsPrefix(p, r) => Beyond(p, r) \in DOMAIN v /\ p \o Beyond(p, r) = r

\* Then it is what is read there.
LEMMA SubIsAt ==
  ASSUME NEW S, NEW p \in Seq(S), NEW d, NEW v, DOMAIN v \subseteq Seq(S), IsMap(v), IsAt(d, p, v)
  PROVE  Sub(d, p) = v
<1>1. PICK D : D = {Beyond(p, r) : r \in Below(d, p)}
  OBVIOUS
<1>2. D = DOMAIN v
  <2>1. ASSUME NEW q \in D PROVE q \in DOMAIN v
    <3>1. PICK r \in Below(d, p) : q = Beyond(p, r)
      BY <1>1
    <3>2. r \in DOMAIN d /\ IsPrefix(p, r)
      BY <3>1 DEF Below
    <3> QED
      BY <3>1, <3>2, Zenon DEF IsAt
  <2>2. ASSUME NEW q \in DOMAIN v PROVE q \in D
    <3>1. PICK r : r = p \o q
      OBVIOUS
    <3>2. q \in Seq(S)
      OBVIOUS
    <3>3. IsPrefix(p, r) /\ Beyond(p, r) = q
      BY <3>1, <3>2, BehindIs
    <3>4. r \in DOMAIN d
      BY <3>1, Zenon DEF IsAt
    <3>5. r \in Below(d, p)
      BY <3>3, <3>4 DEF Below
    <3> QED
      BY <1>1, <3>3, <3>5
  <2> QED
    BY <2>1, <2>2
<1>3. Sub(d, p) = [q \in D |-> d[p \o q]]
  BY <1>1, Zenon DEF Sub
<1>4. \A q \in D : d[p \o q] = v[q]
  BY <1>2, Zenon DEF IsAt
<1>5. Sub(d, p) = [q \in D |-> v[q]]
  BY <1>3, <1>4
<1> QED
  BY <1>2, <1>5, Zenon DEF IsMap

\* What is read behind a path, and where it was.
LEMMA SubIs ==
  ASSUME NEW S, NEW p \in Seq(S), NEW d, DOMAIN d \subseteq Seq(S), NEW e, e = Sub(d, p)
  PROVE  DOMAIN e \subseteq Seq(S) /\ IsAt(d, p, e)
<1>1. PICK D : D = {Beyond(p, r) : r \in Below(d, p)}
  OBVIOUS
<1>2. e = [q \in D |-> d[p \o q]]
  BY <1>1, Zenon DEF Sub
<1>3. DOMAIN e = D /\ \A q \in D : e[q] = d[p \o q]
  BY <1>2
<1>4. ASSUME NEW r \in DOMAIN d, IsPrefix(p, r)
      PROVE  Beyond(p, r) \in D /\ Beyond(p, r) \in Seq(S) /\ p \o Beyond(p, r) = r
  <2>1. r \in Below(d, p) /\ r \in Seq(S)
    BY <1>4 DEF Below
  <2>2. Beyond(p, r) \in D
    BY <1>1, <2>1
  <2> QED
    BY <1>4, <2>1, <2>2, BeyondIs
<1>5. ASSUME NEW q \in D PROVE q \in Seq(S) /\ p \o q \in DOMAIN d
  <2>1. PICK r \in DOMAIN d : IsPrefix(p, r) /\ q = Beyond(p, r)
    BY <1>1 DEF Below
  <2>2. q \in Seq(S) /\ p \o q = r
    BY <1>4, <2>1
  <2> QED
    BY <2>2
<1> QED
  BY <1>3, <1>4, <1>5 DEF IsAt

\* What is behind a path and another one is behind the other one, in what is
\* read behind the first.
LEMMA FurtherOn ==
  ASSUME NEW S, NEW p \in Seq(S), NEW h \in Seq(S), NEW d, DOMAIN d \subseteq Seq(S),
         NEW v, DOMAIN v \subseteq Seq(S), NEW ph, ph = p \o h, IsAt(d, ph, v), NEW e, e = Sub(d, p)
  PROVE  IsAt(e, h, v)
<1>1. DOMAIN e \subseteq Seq(S) /\ IsAt(d, p, e)
  BY SubIs
<1>2. ph \in Seq(S)
  BY ConcatProperties
<1>3. ASSUME NEW q \in Seq(S) PROVE ph \o q = p \o (h \o q) /\ h \o q \in Seq(S) /\ p \o (h \o q) \in Seq(S)
  BY ConcatAssociative, ConcatProperties
<1>4. ASSUME NEW q \in DOMAIN v PROVE h \o q \in DOMAIN e /\ e[h \o q] = v[q]
  <2>1. q \in Seq(S)
    OBVIOUS
  <2>2. PICK t \in Seq(S) : t = h \o q
    BY <1>3, <2>1
  <2>3. PICK r : r = p \o t
    OBVIOUS
  <2>4. r = ph \o q
    BY <1>3, <2>1, <2>2, <2>3, Zenon
  <2>5. r \in DOMAIN d /\ d[r] = v[q]
    BY <2>4, Zenon DEF IsAt
  <2>6. IsPrefix(p, r) /\ Beyond(p, r) = t
    BY <2>2, <2>3, BehindIs, ZenonT(60)
  <2>7. t \in DOMAIN e
    BY <1>1, <2>5, <2>6, Zenon DEF IsAt
  <2>8. e[t] = d[r]
    BY <1>1, <2>3, <2>7, Zenon DEF IsAt
  <2> QED
    BY <2>2, <2>5, <2>7, <2>8, Zenon
<1>5. ASSUME NEW t \in DOMAIN e, IsPrefix(h, t) PROVE Beyond(h, t) \in DOMAIN v /\ h \o Beyond(h, t) = t
  <2>1. t \in Seq(S)
    BY <1>1
  <2>2. PICK b \in Seq(S) : b = Beyond(h, t) /\ h \o b = t
    BY <1>5, <2>1, BeyondIs
  <2>3. PICK r : r = p \o t
    OBVIOUS
  <2>4. r \in DOMAIN d
    BY <1>1, <2>3, Zenon DEF IsAt
  <2>5. p \o (h \o b) = p \o t
    BY <2>2, Zenon
  <2>6. r = ph \o b
    BY <1>3, <2>2, <2>3, <2>5, Zenon
  <2>7. IsPrefix(ph, r) /\ Beyond(ph, r) = b
    BY <1>2, <2>2, <2>6, BehindIs
  <2>8. b \in DOMAIN v
    BY <2>4, <2>7, Zenon DEF IsAt
  <2> QED
    BY <2>2, <2>8
<1> QED
  BY <1>4, <1>5 DEF IsAt

\* What leads to a path leads on to where it leads.
LEMMA LeadsOn ==
  ASSUME NEW S, NEW x \in Seq(S), NEW h \in Seq(S), NEW s \in Seq(S), IsPrefix(x, h), IsPrefix(h, s)
  PROVE  IsPrefix(x, s)
<1>1. /\ Len(x) \in Nat /\ Len(h) \in Nat /\ Len(s) \in Nat /\ Len(x) <= Len(h) /\ Len(h) <= Len(s)
      /\ (\A i \in 1..Len(x) : x[i] = h[i]) /\ (\A i \in 1..Len(h) : h[i] = s[i])
  BY PrefixIs
<1>2. \A i \in 1..Len(x) : x[i] = s[i]
  BY <1>1
<1> QED
  BY <1>1, <1>2, PrefixIs

\* Two keys make a path of two.
LEMMA JoinIs ==
  ASSUME NEW a, NEW b
  PROVE  <<a, b>> = <<a>> \o <<b>>
<1>1. PICK S : S = {a, b}
  OBVIOUS
<1>2. PICK s \in Seq(S), t \in Seq(S), u \in Seq(S) :
        /\ s = <<a>> /\ t = <<b>> /\ u = <<a, b>> /\ Len(s) = 1 /\ Len(t) = 1 /\ Len(u) = 2
        /\ s[1] = a /\ t[1] = b /\ u[1] = a /\ u[2] = b
  <2>1. <<a>> \in Seq(S) /\ <<b>> \in Seq(S) /\ <<a, b>> \in Seq(S)
    BY <1>1
  <2> QED
    BY <2>1
<1>3. PICK w \in Seq(S) : w = s \o t /\ Len(w) = 2 /\ w[1] = a /\ w[2] = b
  <2>1. /\ s \o t \in Seq(S) /\ Len(s \o t) = Len(s) + Len(t)
        /\ \A i \in 1..(Len(s) + Len(t)) : (s \o t)[i] = IF i <= Len(s) THEN s[i] ELSE t[i - Len(s)]
    BY ConcatProperties
  <2>2. Len(s \o t) = 2 /\ (s \o t)[1] = a /\ (s \o t)[2] = b
    BY <1>2, <2>1
  <2> QED
    BY <2>1, <2>2
<1>4. \A i \in 1..2 : u[i] = w[i]
  <2>1. \A i \in 1..2 : i = 1 \/ i = 2
    OBVIOUS
  <2> QED
    BY <1>2, <1>3, <2>1
<1>5. u = w
  BY <1>2, <1>3, <1>4, SeqEqual
<1> QED
  BY <1>2, <1>3, <1>5, Zenon

\* The allocations of a genesis are what was rendered of the configured ones.
LEMMA AllocIs ==
  ASSUME NEW run, Built(run), NEW c, c = Combined(run.options, run.input), NEW g, g = Sub(c, <<"genesis">>),
         NEW r, r = RenderAllocMap(run.input.alloc)
  PROVE  /\ DOMAIN g \subseteq Seq(Word) /\ <<"alloc">> \in Seq(Word) /\ Len(<<"alloc">>) = 1
         /\ IsAt(g, <<"alloc">>, r) /\ Sub(g, <<"alloc">>) = r
<1>1. PICK o : o = run.options
  OBVIOUS
<1>2. PICK input \in Inputs : input = run.input
  BY BuiltIs
<1>3. o["consensus"] \in {"poa", "pos"} /\ DOMAIN c \subseteq Seq(Word)
  BY <1>1, BuiltIs
<1>4. PICK values : values = Placeholders(o, input)
  OBVIOUS
<1>5. PICK template : template = input.template
  OBVIOUS
<1>6. PICK base : base = ApplyPlaceholders(template, values)
  OBVIOUS
<1>7. c = Combined(o, input)
  BY <1>1, <1>2
<1>8. DOMAIN base \subseteq Seq(Word) /\ SameUnder(c, base, <<"genesis">>)
  BY <1>3, <1>4, <1>5, <1>6, <1>7, CombinedIs
<1>9. DocsOK(values) /\ "PREALLOCATIONS" \in DOMAIN values /\ values["PREALLOCATIONS"] = r
  BY <1>2, <1>4, ValuesAre
<1>10. ValuesOK(Word, values) /\ DOMAIN r \subseteq Seq(Word)
  BY <1>9 DEF DocsOK, ValuesOK
<1>11. DOMAIN template \subseteq Seq(Word) /\ IsTree(template)
  <2>1. IsConfig(template)
    BY <1>5, InputsAssumption
  <2> QED
    BY <2>1, ConfigIs
<1>12. PICK x \in Seq(Word), y \in Seq(Word), h \in Seq(Word) :
         /\ x = <<"genesis">> /\ y = <<"alloc">> /\ h = <<"genesis", "alloc">> /\ h = x \o y
         /\ Len(x) = 1 /\ Len(y) = 1 /\ IsPrefix(x, h)
  <2>1. PICK S : S = Word
    OBVIOUS
  <2>2. PICK a \in S, b \in S : a = "genesis" /\ b = "alloc"
    BY <2>1, Zenon DEF Word
  <2>3. /\ <<a>> \in Seq(S) /\ <<b>> \in Seq(S) /\ <<a, b>> \in Seq(S)
        /\ Len(<<a>>) = 1 /\ Len(<<b>>) = 1
    OBVIOUS
  <2>5. <<a, b>> = <<a>> \o <<b>>
    BY JoinIs
  <2>4. IsPrefix(<<a>>, <<a, b>>)
    BY FirstLeads
  <2> QED
    BY <2>1, <2>2, <2>3, <2>4, <2>5, Zenon
<1>13. h \in DOMAIN template /\ template[h] = Hole("PREALLOCATIONS")
  <2>1. At(template, h) = Hole("PREALLOCATIONS")
    BY <1>5, <1>12, InputsAssumption
  <2> QED
    BY <2>1 DEF At, Absent, Hole
<1>14. Known(template, values, h) /\ values[template[h].key] = r
  <2>1. template[h].kind = "hole" /\ template[h].key = "PREALLOCATIONS"
    BY <1>13 DEF Hole
  <2> QED
    BY <1>9, <2>1, Zenon DEF Known
<1>15. IsAt(base, h, r)
  <2>1. /\ \A q \in DOMAIN r : h \o q \in DOMAIN base /\ base[h \o q] = r[q]
        /\ \A s \in DOMAIN base : IsPrefix(h, s) => Beyond(h, s) \in DOMAIN r /\ h \o Beyond(h, s) = s
    BY <1>6, <1>10, <1>11, <1>13, <1>14, HoleFilled
  <2> QED
    BY <2>1, Zenon DEF IsAt
<1>16. SameUnder(c, base, x)
  BY <1>8, <1>12, Zenon
<1>17. IsAt(c, h, r)
  <2>1. ASSUME NEW s \in Seq(Word), IsPrefix(h, s) PROVE IsPrefix(x, s)
    BY <1>12, <2>1, LeadsOn
  <2>2. ASSUME NEW q \in DOMAIN r PROVE h \o q \in DOMAIN c /\ c[h \o q] = r[q]
    <3>1. PICK s : s = h \o q
      OBVIOUS
    <3>2. s \in DOMAIN base /\ base[s] = r[q]
      BY <1>15, <3>1, Zenon DEF IsAt
    <3>3. IsPrefix(h, s) /\ s \in Seq(Word)
      BY <1>10, <1>12, <3>1, BehindIs
    <3>4. s \in DOMAIN c /\ c[s] = base[s]
      BY <1>16, <2>1, <3>2, <3>3 DEF SameUnder
    <3> QED
      BY <3>1, <3>2, <3>4, Zenon
  <2>3. ASSUME NEW s \in DOMAIN c, IsPrefix(h, s) PROVE Beyond(h, s) \in DOMAIN r /\ h \o Beyond(h, s) = s
    <3>1. s \in DOMAIN base
      BY <1>3, <1>16, <2>1, <2>3 DEF SameUnder
    <3> QED
      BY <1>15, <2>3, <3>1, Zenon DEF IsAt
  <2> QED
    BY <2>2, <2>3 DEF IsAt
<1>18. PICK e : e = Sub(c, x)
  OBVIOUS
<1>19. IsAt(e, y, r)
  BY <1>3, <1>10, <1>12, <1>17, <1>18, FurtherOn
<1>20. IsMap(r)
  <2>1. PICK cfg : cfg = input.alloc
    OBVIOUS
  <2>2. Hexes(cfg) \subseteq Word /\ r = RenderAllocMap(cfg)
    BY <1>2, <2>1, InputsAssumption DEF Hexes, Word
  <2> QED
    BY <2>2, RenderedIs DEF IsRendered
<1>21. Sub(e, y) = r
  BY <1>10, <1>12, <1>19, <1>20, SubIsAt
<1>22. DOMAIN e \subseteq Seq(Word)
  BY <1>3, <1>12, <1>18, SubIs
<1>23. e = g
  BY <1>12, <1>18, Zenon
<1> QED
  BY <1>12, <1>19, <1>21, <1>22, <1>23, Zenon

\* What is said of the allocations that were verified.
LEMMA VerifiedAre ==
  ASSUME NEW cfg, Verify(cfg, FALSE)
  PROVE  \A e, f \in DOMAIN cfg.entries : cfg.entries[e].address.hex = cfg.entries[f].address.hex => e = f
<1>1. \A e \in DOMAIN cfg.entries : Normalized(cfg.entries[e].address, FALSE) # NoAddress
  BY DEF Verify
<1>2. \A e \in DOMAIN cfg.entries : Normalized(cfg.entries[e].address, FALSE) = cfg.entries[e].address.hex
  BY <1>1 DEF Normalized
<1>3. \A e, f \in DOMAIN cfg.entries :
        Normalized(cfg.entries[e].address, FALSE) = Normalized(cfg.entries[f].address, FALSE) => e = f
  BY DEF Verify
<1> QED
  BY <1>2, <1>3

\* One key and two make a path of three.
LEMMA ThreeKeys ==
  ASSUME NEW a, NEW b, NEW c
  PROVE  <<a>> \o <<b, c>> = <<a, b, c>>
<1>1. PICK S : S = {a, b, c}
  OBVIOUS
<1>2. PICK s \in Seq(S), t \in Seq(S), u \in Seq(S) :
        /\ s = <<a>> /\ t = <<b, c>> /\ u = <<a, b, c>> /\ Len(s) = 1 /\ Len(t) = 2 /\ Len(u) = 3
        /\ s[1] = a /\ t[1] = b /\ t[2] = c /\ u[1] = a /\ u[2] = b /\ u[3] = c
  <2>1. <<a>> \in Seq(S) /\ <<b, c>> \in Seq(S) /\ <<a, b, c>> \in Seq(S)
    BY <1>1
  <2> QED
    BY <2>1
<1>3. PICK w \in Seq(S) : w = s \o t /\ Len(w) = 3 /\ w[1] = a /\ w[2] = b /\ w[3] = c
  <2>1. /\ s \o t \in Seq(S) /\ Len(s \o t) = Len(s) + Len(t)
        /\ \A i \in 1..(Len(s) + Len(t)) : (s \o t)[i] = IF i <= Len(s) THEN s[i] ELSE t[i - Len(s)]
    BY ConcatProperties
  <2>2. Len(s \o t) = 3 /\ (s \o t)[1] = a /\ (s \o t)[2] = b /\ (s \o t)[3] = c
    BY <1>2, <2>1
  <2> QED
    BY <2>1, <2>2
<1>4. \A i \in 1..3 : u[i] = w[i]
  <2>1. \A i \in 1..3 : i = 1 \/ i = 2 \/ i = 3
    OBVIOUS
  <2> QED
    BY <1>2, <1>3, <2>1
<1>5. u = w
  BY <1>2, <1>3, <1>4, SeqEqual
<1> QED
  BY <1>2, <1>3, <1>5, Zenon

\* Whom a genesis pays.
LEMMA AccountsAre ==
  ASSUME NEW cfg, Hexes(cfg) \subseteq Word, NEW H, H = Hexes(cfg),
         NEW r, r = RenderAllocMap(cfg),
         NEW g, DOMAIN g \subseteq Seq(Word), NEW y \in Seq(Word), Len(y) = 1, IsAt(g, y, r)
  PROVE  Keys(g, y) = H
<1>2. /\ DOMAIN r = {<<>>} \cup {<<a>> : a \in H} \cup {<<a, "balance">> : a \in H}
      /\ DOMAIN r \subseteq Seq(Word)
      /\ \A a \in H : \E e \in DOMAIN cfg.entries :
           cfg.entries[e].address.hex = a /\ r[<<a, "balance">>] = Str(cfg.entries[e].amount)
  <2>1. IsRendered(r, cfg)
    BY RenderedIs
  <2> QED
    BY <2>1, Zenon DEF IsRendered
<1>3. ASSUME NEW k \in Keys(g, y) PROVE k \in H
  <2>1. PICK q \in DOMAIN g : IsPrefix(y, q) /\ Len(q) > 1 /\ q[2] = k
    <3>1. PICK q \in DOMAIN g : IsPrefix(y, q) /\ Len(q) > Len(y) /\ q[Len(y) + 1] = k
      BY <1>3, KeysAre
    <3>2. Len(y) + 1 = 2
      OBVIOUS
    <3> QED
      BY <3>1, <3>2
  <2>2. PICK t \in DOMAIN r : t = Beyond(y, q)
    BY <2>1, Zenon DEF IsAt
  <2>3. q \in Seq(Word) /\ Len(q) \in Nat
    OBVIOUS
  <2>4. Len(t) = Len(q) - Len(y) /\ \A i \in 1..(Len(q) - Len(y)) : t[i] = q[Len(y) + i]
    BY <2>1, <2>2, <2>3, BeyondIs
  <2>5. Len(t) >= 1 /\ t[1] = k
    BY <2>1, <2>3, <2>4
  <2>6. t # <<>>
    BY <2>5
  <2>7. PICK a \in H : t = <<a>> \/ t = <<a, "balance">>
    BY <1>2, <2>6
  <2>8. t[1] = a
    BY <2>7
  <2> QED
    BY <2>5, <2>8
<1>4. ASSUME NEW a \in H PROVE a \in Keys(g, y)
  <2>1. PICK t \in DOMAIN r : t = <<a>>
    BY <1>2
  <2>2. t \in Seq(Word) /\ Len(t) = 1 /\ t[1] = a
    <3>1. t \in Seq(Word)
      BY <1>2
    <3> QED
      BY <2>1, <3>1
  <2>3. PICK q : q = y \o t
    OBVIOUS
  <2>4. q \in DOMAIN g
    BY <2>3, Zenon DEF IsAt
  <2>5. IsPrefix(y, q)
    BY <2>2, <2>3, BehindIs
  <2>6. Len(q) = 2 /\ q[2] = a
    <3>1. /\ Len(q) = Len(y) + Len(t)
          /\ \A i \in 1..(Len(y) + Len(t)) : q[i] = IF i <= Len(y) THEN y[i] ELSE t[i - Len(y)]
      BY <2>2, <2>3, ConcatProperties
    <3> QED
      BY <2>2, <3>1
  <2>7. Len(q) > Len(y) /\ q[Len(y) + 1] = a
    BY <2>6
  <2> QED
    BY <2>4, <2>5, <2>7, KeysAre
<1> QED
  BY <1>3, <1>4

\* And what.
LEMMA PaidAre ==
  ASSUME NEW cfg, Hexes(cfg) \subseteq Word, NEW r, r = RenderAllocMap(cfg),
         NEW g, IsAt(g, <<"alloc">>, r), Verify(cfg, FALSE), NEW e \in DOMAIN cfg.entries
  PROVE  g[<<"alloc", cfg.entries[e].address.hex, "balance">>] = Str(cfg.entries[e].amount)
<1>1. PICK H : H = Hexes(cfg)
  OBVIOUS
<1>2. /\ DOMAIN r = {<<>>} \cup {<<a>> : a \in H} \cup {<<a, "balance">> : a \in H}
      /\ \A a \in H : \E f \in DOMAIN cfg.entries :
           cfg.entries[f].address.hex = a /\ r[<<a, "balance">>] = Str(cfg.entries[f].amount)
  <2>1. IsRendered(r, cfg)
    BY RenderedIs
  <2> QED
    BY <1>1, <2>1, Zenon DEF IsRendered
<1>3. PICK a \in H : a = cfg.entries[e].address.hex
  BY <1>1 DEF Hexes
<1>4. PICK f \in DOMAIN cfg.entries : cfg.entries[f].address.hex = a /\ r[<<a, "balance">>] = Str(cfg.entries[f].amount)
  BY <1>2
<1>5. f = e
  BY <1>3, <1>4, VerifiedAre
<1>6. PICK t \in DOMAIN r : t = <<a, "balance">>
  BY <1>2
<1>7. g[<<"alloc">> \o t] = r[t]
  BY <1>6, Zenon DEF IsAt
<1>8. <<"alloc">> \o t = <<"alloc", a, "balance">>
  BY <1>6, ThreeKeys, Zenon
<1>9. g[<<"alloc", a, "balance">>] = Str(cfg.entries[f].amount)
  BY <1>4, <1>6, <1>7, <1>8, Zenon
<1> QED
  BY <1>3, <1>5, <1>9, Zenon

\* What a genesis pays to an account.
PaidTo(g, a) == g[<<"alloc", a, "balance">>]

\* A genesis pays everybody, once, what is asked for in a file that is right.
Pays(g, cfg) ==
  /\ cfg # Missing /\ Verify(cfg, FALSE)
  /\ Sub(g, <<"alloc">>) = RenderAllocMap(cfg)
  /\ Keys(g, <<"alloc">>) = Hexes(cfg)
  /\ \A e \in DOMAIN cfg.entries : PaidTo(g, cfg.entries[e].address.hex) = Str(cfg.entries[e].amount)
  /\ IsFiniteSet(DOMAIN cfg.entries) /\ \A e \in DOMAIN cfg.entries : cfg.entries[e].amount.wei \in Nat
  /\ \A e \in DOMAIN cfg.entries : cfg.entries[e].amount.sign = ""

\* That of a build that went through does.
LEMMA GenesisPays ==
  ASSUME NEW run, Built(run), NEW cfg, cfg = run.input.alloc,
         NEW g, g = Sub(Combined(run.options, run.input), <<"genesis">>)
  PROVE  Pays(g, cfg) /\ run.total = TotalPremine(cfg)
<1>1. PICK r : r = RenderAllocMap(cfg)
  OBVIOUS
<1>2. PICK c : c = Combined(run.options, run.input)
  OBVIOUS
<1>3. cfg # Missing /\ Verify(cfg, FALSE) /\ run.total = TotalPremine(cfg)
  <2>1. run.input \in Inputs
    BY DEF Built
  <2> QED
    BY <2>1, InputsAssumption DEF Built, BuildOk
<1>4. /\ Hexes(cfg) \subseteq Word /\ IsFiniteSet(DOMAIN cfg.entries)
      /\ \A e \in DOMAIN cfg.entries : cfg.entries[e].amount.wei \in Nat
  <2>1. run.input \in Inputs
    BY DEF Built
  <2> QED
    BY <2>1, InputsAssumption DEF Hexes, Word
<1>5. /\ DOMAIN g \subseteq Seq(Word) /\ <<"alloc">> \in Seq(Word) /\ Len(<<"alloc">>) = 1
      /\ IsAt(g, <<"alloc">>, r) /\ Sub(g, <<"alloc">>) = r
  BY <1>1, <1>2, AllocIs
<1>6. Keys(g, <<"alloc">>) = Hexes(cfg)
  <2>1. PICK y \in Seq(Word) : y = <<"alloc">> /\ Len(y) = 1 /\ IsAt(g, y, r)
    BY <1>5
  <2>2. PICK H : H = Hexes(cfg)
    OBVIOUS
  <2>3. Keys(g, y) = H
    <3>1. DOMAIN g \subseteq Seq(Word) /\ y \in Seq(Word) /\ Len(y) = 1 /\ IsAt(g, y, r)
      BY <1>5, <2>1
    <3> QED
      BY <1>1, <1>4, <2>2, <3>1, AccountsAre
  <2> QED
    BY <2>1, <2>2, <2>3
<1>7. \A e \in DOMAIN cfg.entries : g[<<"alloc", cfg.entries[e].address.hex, "balance">>] = Str(cfg.entries[e].amount)
  BY <1>1, <1>3, <1>4, <1>5, PaidAre, ZenonT(60)
<1>8. ASSUME NEW e \in DOMAIN cfg.entries PROVE cfg.entries[e].amount.sign = ""
  <2>1. PICK a \in Keys(g, <<"alloc">>) : a = cfg.entries[e].address.hex
    BY <1>6 DEF Hexes
  <2>2. ValidateEthereumGenesis(g)
    BY <1>2, GenesisPasses
  <2>3. g[<<"alloc", a, "balance">>].value.sign = ""
    BY <2>1, <2>2, Zenon DEF ValidateEthereumGenesis
  <2>4. g[<<"alloc", a, "balance">>] = Str(cfg.entries[e].amount)
    BY <1>7, <2>1
  <2>5. Str(cfg.entries[e].amount).value = cfg.entries[e].amount
    BY DEF Str
  <2> QED
    BY <2>3, <2>4, <2>5, Zenon
<1> QED
  BY <1>1, <1>3, <1>4, <1>5, <1>6, <1>7, <1>8 DEF Pays, PaidTo

\* The address of each entry.
HexOf(cfg) == [e \in DOMAIN cfg.entries |-> cfg.entries[e].address.hex]

\* What can be said of one that does.
LEMMA PaidOnce ==
  ASSUME NEW g, NEW cfg, Pays(g, cfg), NEW accounts, accounts = Hexes(cfg), NEW S, S = DOMAIN cfg.entries,
         NEW h, h = HexOf(cfg)
  PROVE  /\ h \in Bijection(S, accounts)
         /\ \A e \in S : h[e] \in accounts /\ PaidTo(g, h[e]).value = cfg.entries[e].amount
         /\ \A a \in accounts : \E e \in S : h[e] = a
<1>1. h = [e \in S |-> cfg.entries[e].address.hex] /\ \A e \in S : h[e] = cfg.entries[e].address.hex
  BY DEF HexOf
<1>2. \A e \in S : h[e] \in accounts
  BY <1>1 DEF Hexes
<1>3. \A a \in accounts : \E e \in S : h[e] = a
  BY <1>1 DEF Hexes
<1>4. h \in [S -> accounts]
  BY <1>1, <1>2
<1>5. \A e, f \in S : h[e] = h[f] => e = f
  <2>1. Verify(cfg, FALSE)
    BY DEF Pays
  <2>2. \A e, f \in S : cfg.entries[e].address.hex = cfg.entries[f].address.hex => e = f
    BY <2>1, VerifiedAre
  <2> QED
    BY <1>1, <2>2
<1>6. h \in Bijection(S, accounts)
  BY <1>3, <1>4, <1>5 DEF Bijection, Injection, IsInjective, Surjection
<1>7. ASSUME NEW e \in S PROVE PaidTo(g, h[e]).value = cfg.entries[e].amount
  <2>1. PaidTo(g, h[e]) = Str(cfg.entries[e].amount)
    BY <1>1 DEF Pays
  <2>2. Str(cfg.entries[e].amount).value = cfg.entries[e].amount
    BY DEF Str
  <2> QED
    BY <2>1, <2>2, Zenon
<1> QED
  BY <1>2, <1>3, <1>6, <1>7

\* No balance has a sign.
LEMMA SignsAre ==
  ASSUME NEW g, NEW cfg, Pays(g, cfg), NEW a \in Hexes(cfg)
  PROVE  PaidTo(g, a).value.sign = ""
<1>1. PICK e \in DOMAIN cfg.entries : a = cfg.entries[e].address.hex
  BY DEF Hexes
<1>2. PaidTo(g, a) = Str(cfg.entries[e].amount) /\ cfg.entries[e].amount.sign = ""
  BY <1>1, Zenon DEF Pays
<1>3. Str(cfg.entries[e].amount).value = cfg.entries[e].amount
  BY DEF Str
<1> QED
  BY <1>2, <1>3, Zenon

\* The balances add up to the premine.
LEMMA BalancesAre ==
  ASSUME NEW g, NEW cfg, Pays(g, cfg), NEW accounts, accounts = Hexes(cfg),
         NEW k, \A a \in accounts : k[a] = PaidTo(g, a).value.wei
  PROVE  Sum(k, accounts) = TotalPremine(cfg)
<1>1. PICK S : S = DOMAIN cfg.entries
  OBVIOUS
<1>2. PICK h : h = HexOf(cfg)
  OBVIOUS
<1>3. /\ h \in Bijection(S, accounts)
      /\ \A e \in S : h[e] \in accounts /\ PaidTo(g, h[e]).value = cfg.entries[e].amount
      /\ \A a \in accounts : \E e \in S : h[e] = a
  BY <1>1, <1>2, PaidOnce
<1>4. PICK f : f = [e \in DOMAIN cfg.entries |-> cfg.entries[e].amount.wei]
  OBVIOUS
<1>10. \A e \in S : f[e] = cfg.entries[e].amount.wei
  BY <1>1, <1>4
<1>5. IsFiniteSet(S) /\ \A e \in S : cfg.entries[e].amount.wei \in Nat /\ cfg.entries[e].amount.sign = ""
  <2>1. /\ IsFiniteSet(DOMAIN cfg.entries) /\ \A e \in DOMAIN cfg.entries : cfg.entries[e].amount.wei \in Nat
        /\ \A e \in DOMAIN cfg.entries : cfg.entries[e].amount.sign = ""
    BY Zenon DEF Pays
  <2> QED
    BY <1>1, <2>1
<1>6. ASSUME NEW e \in S PROVE f[e] \in Nat /\ k[h[e]] = f[e]
  <2>1. h[e] \in accounts /\ PaidTo(g, h[e]).value = cfg.entries[e].amount
    BY <1>3
  <2>2. k[h[e]] = PaidTo(g, h[e]).value.wei
    BY <2>1
  <2> QED
    BY <1>5, <1>10, <2>1, <2>2
<1>7. Sum(k, accounts) = Sum(f, S)
  BY <1>3, <1>5, <1>6, SumRenamed
<1>8. TotalPremine(cfg) = Sum(f, S)
  <2>1. TotalPremine(cfg) = Sum(f, DOMAIN cfg.entries)
    BY <1>4 DEF TotalPremine
  <2> QED
    BY <1>1, <2>1
<1> QED
  BY <1>7, <1>8

\* A report has a line that says so.
Lists(report, a, wei) == \E e \in DOMAIN report.lines : report.lines[e] = [address |-> a, wei |-> wei]

\* What the commands about allocations say of such a file.
LEMMA CommandsSay ==
  ASSUME NEW g, NEW cfg, Pays(g, cfg), NEW report, report = AllocationsReport(TRUE, cfg, FALSE, "read").printed
  PROVE  /\ AllocationsVerify(TRUE, cfg, FALSE) = 0
         /\ AllocationsRender(TRUE, cfg) = Answer(0, Sub(g, <<"alloc">>))
         /\ report.total = TotalPremine(cfg)
         /\ \A a \in Hexes(cfg) : Lists(report, a, PaidTo(g, a).value.wei)
<1>1. LoadAndVerify(cfg, FALSE)
  BY DEF LoadAndVerify, Pays
<1>2. AllocationsVerify(TRUE, cfg, FALSE) = 0
  BY <1>1 DEF AllocationsVerify
<1>3. AllocationsRender(TRUE, cfg) = Answer(0, Sub(g, <<"alloc">>))
  <2>1. Sub(g, <<"alloc">>) = RenderAllocMap(cfg)
    BY DEF Pays
  <2> QED
    BY <1>1, <2>1 DEF AllocationsRender
<1>4. report = BuildReport(cfg)
  <2>1. AllocationsReport(TRUE, cfg, FALSE, "read") = Answer(0, BuildReport(cfg))
    BY <1>1 DEF AllocationsReport
  <2>2. Answer(0, BuildReport(cfg)).printed = BuildReport(cfg)
    BY DEF Answer
  <2> QED
    BY <2>1, <2>2, Zenon
<1>5. PICK S : S = DOMAIN cfg.entries
  OBVIOUS
<1>7. PICK total : total = TotalPremine(cfg)
  OBVIOUS
<1>6. PICK lines : lines = [e \in DOMAIN cfg.entries |->
                             [address |-> Normalized(cfg.entries[e].address, TRUE), wei |-> cfg.entries[e].amount.wei]]
  OBVIOUS
<1>8. report.lines = lines /\ report.total = total
  <2>1. BuildReport(cfg).lines = lines /\ BuildReport(cfg).total = total
    BY <1>6, <1>7 DEF BuildReport
  <2> QED
    BY <1>4, <2>1, Zenon
<1>9. ASSUME NEW a \in Hexes(cfg) PROVE Lists(report, a, PaidTo(g, a).value.wei)
  <2>1. PICK h : h = HexOf(cfg)
    OBVIOUS
  <2>2. PICK e \in S : h[e] = a /\ PaidTo(g, a).value = cfg.entries[e].amount
    <3>1. PICK accounts : accounts = Hexes(cfg)
      OBVIOUS
    <3>2. /\ \A e \in S : PaidTo(g, h[e]).value = cfg.entries[e].amount
          /\ \A b \in accounts : \E e \in S : h[e] = b
      BY <1>5, <2>1, <3>1, PaidOnce
    <3> QED
      BY <1>9, <3>1, <3>2
  <2>3. e \in DOMAIN lines
        /\ lines[e] = [address |-> Normalized(cfg.entries[e].address, TRUE), wei |-> cfg.entries[e].amount.wei]
    BY <1>5, <1>6
  <2>4. Normalized(cfg.entries[e].address, TRUE) = a
    BY <1>5, <2>1, <2>2 DEF Normalized, HexOf
  <2>5. PaidTo(g, a).value.wei = cfg.entries[e].amount.wei
    BY <2>2
  <2>6. lines[e] = [address |-> a, wei |-> PaidTo(g, a).value.wei]
    BY <2>3, <2>4, <2>5, Zenon
  <2> QED
    BY <1>8, <2>3, <2>6, Zenon DEF Lists
<1> QED
  BY <1>2, <1>3, <1>7, <1>8, <1>9

\* The genesis pays every configured account, once, and in sum what the build
\* reports as the premine; and the three commands about allocations, asked
\* about the same file, agree with it (render.go:22-47, report.go:29-64,
\* validate.go:41-96, qikchain/main.go:455-575).
THEOREM PremineIsPaid == Spec => []PremineIsReported
<1>1. ASSUME GenesisInvariant PROVE PremineIsReported
  <2> SUFFICES ASSUME NEW p \in EthFiles, Complete(p)
      PROVE LET cfg == Origin(p).input.alloc
                accounts == Keys(Doc(p), <<"alloc">>)
                balance == [a \in accounts |-> Doc(p)[<<"alloc", a, "balance">>].value]
            IN /\ accounts = {cfg.entries[e].address.hex : e \in DOMAIN cfg.entries}
               /\ Sum([a \in accounts |-> balance[a].wei], accounts) = Origin(p).total
               /\ \A a \in accounts : balance[a].sign = ""
               /\ AllocationsVerify(TRUE, cfg, FALSE) = 0
               /\ AllocationsRender(TRUE, cfg) = Answer(0, Sub(Doc(p), <<"alloc">>))
               /\ LET report == AllocationsReport(TRUE, cfg, FALSE, "read").printed IN
                    /\ report.total = Origin(p).total
                    /\ \A a \in accounts : \E e \in DOMAIN report.lines :
                         report.lines[e] = [address |-> a, wei |-> balance[a].wei]
    BY DEF PremineIsReported
  <2> DEFINE run == Origin(p)
             g == Doc(p)
             cfg == run.input.alloc
             accounts == Keys(g, <<"alloc">>)
             balance == [a \in accounts |-> g[<<"alloc", a, "balance">>].value]
             k == [a \in accounts |-> balance[a].wei]
             report == AllocationsReport(TRUE, cfg, FALSE, "read").printed
  <2> HIDE DEF run, g, cfg, accounts, balance, k, report
  <2>1. \A a \in accounts : balance[a] = PaidTo(g, a).value
    BY DEF PaidTo, balance
  <2>2. \A a \in accounts : k[a] = balance[a].wei
    BY DEF k
  <2>3. Built(run) /\ g = Sub(Combined(run.options, run.input), <<"genesis">>)
    BY <1>1, FileIs DEF run, g
  <2>4. Pays(g, cfg) /\ run.total = TotalPremine(cfg)
    BY <2>3, GenesisPays DEF cfg
  <2>9. accounts = Hexes(cfg)
    BY <2>4 DEF Pays, accounts
  <2>10. Sum(k, accounts) = TotalPremine(cfg)
    <3>1. \A a \in accounts : k[a] = PaidTo(g, a).value.wei
      BY <2>1, <2>2
    <3> QED
      BY <2>4, <2>9, <3>1, BalancesAre
  <2>11. \A a \in accounts : balance[a].sign = ""
    BY <2>1, <2>4, <2>9, SignsAre
  <2>5. /\ AllocationsVerify(TRUE, cfg, FALSE) = 0
        /\ AllocationsRender(TRUE, cfg) = Answer(0, Sub(g, <<"alloc">>))
        /\ report.total = TotalPremine(cfg)
        /\ \A a \in accounts : Lists(report, a, balance[a].wei)
    <3>1. PICK answer : answer = report /\ answer = AllocationsReport(TRUE, cfg, FALSE, "read").printed
      BY DEF report
    <3>2. /\ AllocationsVerify(TRUE, cfg, FALSE) = 0
          /\ AllocationsRender(TRUE, cfg) = Answer(0, Sub(g, <<"alloc">>))
          /\ answer.total = TotalPremine(cfg)
          /\ \A a \in Hexes(cfg) : Lists(answer, a, PaidTo(g, a).value.wei)
      BY <2>4, <3>1, CommandsSay
    <3> QED
      BY <2>1, <2>9, <3>1, <3>2
  <2>6. accounts = {cfg.entries[e].address.hex : e \in DOMAIN cfg.entries}
    BY <2>9 DEF Hexes
  <2>7. \A a \in accounts : \E e \in DOMAIN report.lines :
          report.lines[e] = [address |-> a, wei |-> balance[a].wei]
    BY <2>5, Zenon DEF Lists
  <2>8. Sum(k, accounts) = run.total /\ report.total = run.total
    BY <2>4, <2>5, <2>10
  <2> QED
    BY <2>5, <2>6, <2>7, <2>8, <2>11, Zenon DEF run, g, cfg, accounts, balance, k, report
<1> QED
  BY <1>1, GenesisInvariantHolds, PTL
=============================================================================
