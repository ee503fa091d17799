-------------------------------- MODULE Backoff --------------------------------
(***************************************************************************)
(* The delays of Client.waitForReconnect.  The code computes               *)
(* time.Duration(math.Pow(2, n-1)) * time.Second in 64-bit nanoseconds,    *)
(* which wrap.  A second is 2^9 * 5^9 ns, so the product for n is          *)
(* m * 2^(n+8), where m is 5^9 reduced to the 56-n bits that are left, in  *)
(* two's complement: small numbers, and exactly what the code computes.    *)
(***************************************************************************)
EXTENDS Integers, TLAPS

CONSTANTS
    Second,       \* how many units of time a second has: 10^9 for the code's own
    MaxDelays,    \* values of server.reconnect_max_delay, any durations in that unit
    MaxFailures,  \* bound: failures in a row
    Doublings     \* bound: doublings kept exactly; 33 keeps every one that fits

(* A product past the last exact doubling must not matter: either the row    *)
(* ends before, or no maximum is that large.                                 *)
ASSUME BackoffAssumption ==
    /\ Second \in Nat \ {0} /\ MaxDelays \subseteq Int /\ MaxFailures \in Nat
    /\ Doublings \in 0..33
    /\ \/ MaxFailures <= Doublings + 1
       \/ Doublings <= 31 /\ \A d \in MaxDelays : d <= 2^Doublings * Second

VARIABLES
    maxDelay,        \* the configured maximum
    reconnectCount,  \* Client.reconnectCount
    waited,          \* the last wait: time.After returns at once for less than 0
    lasted           \* whether the client connected since the last wait

vars == <<maxDelay, reconnectCount, waited, lasted>>

FiveToNine == 1953125    \* less than 2^21

(* What the w low bits of an unsigned number x mean in two's complement.     *)
Signed(x, w) ==
    LET y == x % 2^w IN IF y >= 2^(w-1) THEN y - 2^w ELSE y

Mantissa(n) ==
    CASE 56 - n > 21 -> FiveToNine
      [] 56 - n \in 1..21 -> Signed(FiveToNine, 56 - n)
      [] OTHER -> 0

(* Every product that is positive after a wrap is over 2^31 s, and one that  *)
(* is not waits as little as 0.                                              *)
Product(n) ==
    CASE Mantissa(n) <= 0 -> 0
      [] n <= Doublings -> 2^(n-1) * Second
      [] OTHER -> 2^Doublings * Second

Smaller(a, b) == IF a < b THEN a ELSE b
AtLeastZero(d) == IF d < 0 THEN 0 ELSE d

Clamped_Never(d) == d
Clamped(d) == IF d > maxDelay THEN maxDelay ELSE d

Init ==
    /\ maxDelay \in MaxDelays
    /\ reconnectCount = 0
    /\ waited = 0
    /\ lasted = TRUE

(* A dial fails, or the connection that lasted is over: wait before the next *)
(* attempt.                                                                  *)
WaitForReconnect ==
    /\ reconnectCount < MaxFailures
    /\ reconnectCount' = reconnectCount + 1
    /\ waited' = AtLeastZero(Clamped(Product(reconnectCount')))
    /\ lasted' = FALSE
    /\ UNCHANGED maxDelay

(* Run resets the count as soon as a dial succeeds.                          *)
Connected_CountKept ==
    /\ ~lasted /\ lasted' = TRUE
    /\ UNCHANGED <<maxDelay, reconnectCount, waited>>
Connected ==
    /\ ~lasted /\ lasted' = TRUE
    /\ reconnectCount' = 0
    /\ UNCHANGED <<maxDelay, waited>>

Next == WaitForReconnect \/ Connected

Spec == Init /\ [][Next]_vars
-------------------------------------------------------------------------------
(* In a row of failures every wait is twice the one before or the maximum,   *)
(* whichever is less, and a connection that lasted begins a new row with one *)
(* second; a maximum that is not positive leaves no wait.                    *)
Within(d) == AtLeastZero(Smaller(d, maxDelay))

ExponentialBackoff ==
    [][ WaitForReconnect => waited' = Within(IF lasted THEN Second ELSE 2 * waited) ]_vars

(* However long the server is away, a client whose maximum is positive waits *)
(* before it dials again.                                                    *)
AlwaysWaits == ~lasted /\ maxDelay > 0 => waited > 0
-------------------------------------------------------------------------------
(* The delays that the code can compute for a row of up to 34 failures: the  *)
(* mantissa still has room for all of 5^9.                                   *)
Fits == MaxFailures <= 34

Row == 1..34

(* Powers of two, out of the provers' sight where only their doubling counts. *)
Pow(k) == 2^k

LEMMA Powers ==
    /\ \A k \in 0..33 : Pow(k) \in Nat \ {0}
    /\ \A k \in 0..32 : Pow(k + 1) = 2 * Pow(k)
    /\ Pow(0) = 1
<1>1. /\ Pow(0) = 1 /\ Pow(1) = 2 /\ Pow(2) = 4
      /\ Pow(3) = 8 /\ Pow(4) = 16 /\ Pow(5) = 32
      /\ Pow(6) = 64 /\ Pow(7) = 128 /\ Pow(8) = 256
      /\ Pow(9) = 512
  BY DEF Pow
<1>2. /\ Pow(9) = 512 /\ Pow(10) = 1024 /\ Pow(11) = 2048
      /\ Pow(12) = 4096 /\ Pow(13) = 8192 /\ Pow(14) = 16384
      /\ Pow(15) = 32768 /\ Pow(16) = 65536 /\ Pow(17) = 131072
      /\ Pow(18) = 262144
  BY DEF Pow
<1>3. /\ Pow(18) = 262144 /\ Pow(19) = 524288 /\ Pow(20) = 1048576
      /\ Pow(21) = 2097152 /\ Pow(22) = 4194304 /\ Pow(23) = 8388608
      /\ Pow(24) = 16777216 /\ Pow(25) = 33554432 /\ Pow(26) = 67108864
  BY DEF Pow
<1>4. /\ Pow(26) = 67108864 /\ Pow(27) = 134217728 /\ Pow(28) = 268435456
      /\ Pow(29) = 536870912 /\ Pow(30) = 1073741824 /\ Pow(31) = 2147483648
      /\ Pow(32) = 4294967296 /\ Pow(33) = 8589934592
  BY DEF Pow
<1>5. \A k \in 0..8 : Pow(k) \in Nat \ {0} /\ Pow(k + 1) = 2 * Pow(k)
  <2>1. \A k \in 0..8 : k = 0 \/ k = 1 \/ k = 2 \/ k = 3 \/ k = 4 \/ k = 5 \/ k = 6 \/ k = 7 \/ k = 8
    OBVIOUS
  <2> QED BY <1>1, <2>1
<1>6. \A k \in 9..17 : Pow(k) \in Nat \ {0} /\ Pow(k + 1) = 2 * Pow(k)
  <2>1. \A k \in 9..17 : k = 9 \/ k = 10 \/ k = 11 \/ k = 12 \/ k = 13 \/ k = 14 \/ k = 15 \/ k = 16 \/ k = 17
    OBVIOUS
  <2> QED BY <1>2, <2>1
<1>7. \A k \in 18..25 : Pow(k) \in Nat \ {0} /\ Pow(k + 1) = 2 * Pow(k)
  <2>1. \A k \in 18..25 : k = 18 \/ k = 19 \/ k = 20 \/ k = 21 \/ k = 22 \/ k = 23 \/ k = 24 \/ k = 25
    OBVIOUS
  <2> QED BY <1>3, <2>1
<1>8. \A k \in 26..32 : Pow(k) \in Nat \ {0} /\ Pow(k + 1) = 2 * Pow(k)
  <2>1. \A k \in 26..32 : k = 26 \/ k = 27 \/ k = 28 \/ k = 29 \/ k = 30 \/ k = 31 \/ k = 32
    OBVIOUS
  <2> QED BY <1>4, <2>1
<1>9. \A k \in 0..33 : k \in 0..8 \/ k \in 9..17 \/ k \in 18..25 \/ k \in 26..32 \/ k = 33
  OBVIOUS
<1>10. \A k \in 0..32 : Pow(k) \in Nat \ {0} /\ Pow(k + 1) = 2 * Pow(k)
  BY <1>5, <1>6, <1>7, <1>8, <1>9
<1>11. Pow(33) \in Nat \ {0}
  BY <1>4
<1>12. \A k \in 0..33 : Pow(k) \in Nat \ {0}
  BY <1>9, <1>10, <1>11
<1> QED BY <1>1, <1>10, <1>12

(* Product doubles up to the last exact doubling, and stays there.           *)
LEMMA ProductDoubles ==
    ASSUME NEW n \in Row
    PROVE  /\ Product(n) \in Nat \ {0}
           /\ n = 1 => Product(n) = Second
           /\ n <= Doublings => Product(n + 1) = 2 * Product(n) \/ n = 34
           /\ n > Doublings => Product(n) = Pow(Doublings) * Second
<1> USE BackoffAssumption DEF Row
<1>1. \A k \in Row : Mantissa(k) = 1953125
  BY DEF Mantissa, FiveToNine
<1>2. \A k \in Row :
        Product(k) = IF k <= Doublings THEN Pow(k - 1) * Second ELSE Pow(Doublings) * Second
  BY <1>1 DEF Product, Pow
<1> DEFINE p == Pow(n - 1)
           q == Pow(Doublings)
<1>3. p \in Nat \ {0} /\ q \in Nat \ {0} /\ (n = 1 => p = 1)
  <2>1. n - 1 \in 0..33 /\ (n = 1 => n - 1 = 0)
    OBVIOUS
  <2> QED BY <2>1, Powers
<1>4. n <= Doublings => Product(n) = p * Second
  BY <1>2
<1>5. n > Doublings => Product(n) = q * Second
  BY <1>2
<1>6. ASSUME n <= Doublings, n # 34 PROVE Product(n + 1) = (2 * p) * Second
  <2>1. n - 1 \in 0..32 /\ (n - 1) + 1 = n /\ n + 1 \in Row /\ (n + 1) - 1 = n
    BY <1>6
  <2>2. Pow(n) = 2 * p
    BY <2>1, Powers
  <2>3. Product(n + 1) = Pow(n) * Second
    <3>1. CASE n + 1 <= Doublings
      BY <1>2, <2>1, <3>1
    <3>2. CASE n = Doublings
      BY <1>2, <2>1, <3>2
    <3> QED BY <1>6, <3>1, <3>2
  <2> QED BY <2>2, <2>3
<1>7. n = 1 /\ n > Doublings => q = 1
  <2>1. n = 1 /\ n > Doublings => Doublings = 0
    OBVIOUS
  <2> QED BY <2>1, Powers
<1> HIDE DEF p, q
<1>8. p * Second \in Nat \ {0} /\ q * Second \in Nat \ {0} /\ (2 * p) * Second = 2 * (p * Second)
  BY <1>3
<1>9. n = 1 => Product(n) = Second
  BY <1>3, <1>4, <1>5, <1>7
<1>10. Product(n) \in Nat \ {0}
  BY <1>4, <1>5, <1>8
<1>11. n <= Doublings => Product(n + 1) = 2 * Product(n) \/ n = 34
  BY <1>4, <1>6, <1>8
<1> QED BY <1>5, <1>9, <1>10, <1>11 DEF q

(* What every state of a row of failures has: the count says where in the    *)
(* doubling the last wait was, and a connection that lasted has no count.    *)
Waits ==
    /\ maxDelay \in MaxDelays
    /\ reconnectCount \in 0..MaxFailures
    /\ lasted \in BOOLEAN
    /\ lasted => reconnectCount = 0
    /\ ~lasted => /\ reconnectCount >= 1
                  /\ waited = AtLeastZero(Clamped(Product(reconnectCount)))

(* The waits of waitForReconnect stand where the count says.                 *)
THEOREM WaitsFollowTheCount == Spec => []Waits
<1>1. Init => Waits
  BY BackoffAssumption DEF Init, Waits
<1>2. Waits /\ [Next]_vars => Waits'
  <2> SUFFICES ASSUME Waits, [Next]_vars PROVE Waits'
    OBVIOUS
  <2> USE BackoffAssumption
  <2>1. CASE WaitForReconnect
    <3>1. /\ reconnectCount' \in 1..MaxFailures /\ lasted' = FALSE /\ maxDelay' = maxDelay
          /\ waited' = AtLeastZero(Clamped(Product(reconnectCount')))
      BY <2>1 DEF Waits, WaitForReconnect
    <3>2. waited' = AtLeastZero(Clamped(Product(reconnectCount)))'
      BY <3>1 DEF Clamped, AtLeastZero
    <3>3. maxDelay \in MaxDelays /\ MaxFailures \in Nat
      BY DEF Waits
    <3>4. maxDelay' \in MaxDelays /\ reconnectCount' \in 0..MaxFailures /\ reconnectCount' >= 1
      BY <3>1, <3>3
    <3> QED BY ONLY <3>1, <3>2, <3>4, Zenon DEF Waits
  <2>2. CASE Connected
    BY <2>2 DEF Waits, Connected
  <2>3. CASE UNCHANGED vars
    BY <2>3 DEF Waits, vars, Clamped, AtLeastZero
  <2> QED BY <2>1, <2>2, <2>3 DEF Next
<1> QED BY <1>1, <1>2, PTL DEF Spec

(* Exponential back-off: in a row of up to 34 failures, for every maximum    *)
(* that can be configured, each wait of waitForReconnect doubles the one     *)
(* before until the maximum is reached.                                      *)
THEOREM BackoffDoubles == ASSUME Fits PROVE Spec => ExponentialBackoff
<1>1. ASSUME Waits, WaitForReconnect
      PROVE  waited' = Within(IF lasted THEN Second ELSE 2 * waited)
  <2> DEFINE n == reconnectCount
             p == Product(n)
             q == Product(n + 1)
  <2>1. n \in 0..33 /\ n + 1 <= MaxFailures /\ maxDelay \in Int /\ Second \in Nat \ {0}
    BY <1>1, BackoffAssumption DEF Waits, WaitForReconnect, Fits
  <2>2. q \in Nat \ {0}
    BY <2>1, ProductDoubles DEF Row
  <2>3. waited' = AtLeastZero(IF q > maxDelay THEN maxDelay ELSE q)
    BY <1>1 DEF WaitForReconnect, Clamped
  <2>4. CASE lasted
    <3>1. q = Second
      <4>1. n = 0 /\ 1 \in Row
        BY <1>1, <2>4 DEF Waits, Row
      <4> QED BY <4>1, ProductDoubles
    <3> HIDE DEF q
    <3> QED BY <2>1, <2>3, <2>4, <3>1 DEF Within, Smaller, AtLeastZero
  <2>5. CASE ~lasted
    <3>1. /\ n \in 1..33 /\ n \in Row /\ n + 1 \in Row
          /\ waited = AtLeastZero(IF p > maxDelay THEN maxDelay ELSE p)
      BY <1>1, <2>1, <2>5 DEF Waits, Clamped, Row
    <3>2. p \in Nat \ {0}
      BY <3>1, ProductDoubles
    <3>3. q = 2 * p \/ (p >= maxDelay /\ q = p)
      <4>1. CASE n <= Doublings
        <5>1. q = 2 * p \/ n = 34
          BY <3>1, <4>1, ProductDoubles
        <5> QED BY <3>1, <5>1
      <4>2. CASE n > Doublings
        <5>1. n + 1 > Doublings
          BY <3>1, <4>2, BackoffAssumption
        <5>2. p = Pow(Doublings) * Second /\ q = Pow(Doublings) * Second
          BY <3>1, <4>2, <5>1, ProductDoubles
        <5>3. ~(MaxFailures <= Doublings + 1)
          BY <2>1, <3>1, <4>2, BackoffAssumption
        <5>4. maxDelay <= Pow(Doublings) * Second
          BY <1>1, <5>3, BackoffAssumption DEF Waits, Pow
        <5> DEFINE top == Pow(Doublings) * Second
        <5>5. p = top /\ q = top /\ maxDelay <= top
          BY <5>2, <5>4
        <5> HIDE DEF top, p, q
        <5> QED BY <2>1, <3>2, <5>5
      <4> QED BY <3>1, <4>1, <4>2, BackoffAssumption
    <3> HIDE DEF p, q
    <3>4. waited' = Within(2 * waited)
      BY <2>1, <2>2, <2>3, <3>1, <3>2, <3>3 DEF Within, Smaller, AtLeastZero
    <3> QED BY <2>5, <3>4
  <2> QED BY <2>4, <2>5
<1>2. Waits /\ [Next]_vars
        => [WaitForReconnect => waited' = Within(IF lasted THEN Second ELSE 2 * waited)]_vars
  BY <1>1
<1> QED BY <1>2, WaitsFollowTheCount, PTL DEF Spec, ExponentialBackoff

(* Up to 34 failures in a row the client never dials again without a wait,   *)
(* whatever its positive maximum; backoff_wraps shows the 35th.              *)
THEOREM WaitsWhileItFits == ASSUME Fits PROVE Spec => []AlwaysWaits
<1>1. Waits => AlwaysWaits
  <2> SUFFICES ASSUME Waits, ~lasted, maxDelay > 0 PROVE waited > 0
    BY DEF AlwaysWaits
  <2> DEFINE p == Product(reconnectCount)
  <2>1. reconnectCount \in Row /\ maxDelay \in Int
    BY BackoffAssumption DEF Waits, Fits, Row
  <2>2. p \in Nat \ {0}
    BY <2>1, ProductDoubles
  <2>3. waited = AtLeastZero(IF p > maxDelay THEN maxDelay ELSE p)
    BY DEF Waits, Clamped
  <2> HIDE DEF p
  <2> QED BY <2>1, <2>2, <2>3 DEF AtLeastZero
<1> QED BY <1>1, WaitsFollowTheCount, PTL
===============================================================================
