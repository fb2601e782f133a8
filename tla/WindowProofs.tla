---------------------------- MODULE WindowProofs ----------------------------
(***************************************************************************)
(* The window keeps the promise of History for every set of capacities and *)
(* every sequence of writes, reads and resets.                             *)
(***************************************************************************)
EXTENDS Window, TLAPS

WindowInv == TypeOK /\ Contents

\* The buffer that a write starts from, allocated if there was none.
Buffer == IF p_ = NoBuffer THEN [j \in 0 .. capacity_ - 1 |-> Zero] ELSE p_

\* The numbers a step starts from.
LEMMA Types ==
    ASSUME WindowInv
    PROVE  /\ capacity_ \in Nat /\ capacity_ >= 1
           /\ i_ \in Nat /\ i_ < capacity_ /\ size_ \in Nat /\ size_ <= capacity_
           /\ start \in Nat /\ total \in Nat /\ start <= total
           /\ Buffer \in [0 .. capacity_ - 1 -> Int]
           /\ size_ > 0 => p_ = Buffer
  <1>1. /\ capacity_ \in Nat /\ capacity_ >= 1
        /\ i_ \in Nat /\ i_ < capacity_ /\ size_ \in Nat /\ size_ <= capacity_
        /\ start \in Nat /\ total \in Nat /\ start <= total
    BY WindowAssumption DEF WindowInv, TypeOK
  <1>2. Buffer \in [0 .. capacity_ - 1 -> Int]
    <2>1. CASE p_ = NoBuffer
      BY <2>1 DEF Buffer, Zero
    <2>2. CASE p_ # NoBuffer
      BY <2>2 DEF Buffer, WindowInv, TypeOK
    <2> QED BY <2>1, <2>2
  <1>3. size_ > 0 => p_ = Buffer
    BY DEF WindowInv, Contents, Buffer
  <1> QED BY <1>1, <1>2, <1>3

\* Bytes go to their places and leave the others.
LEMMA Copied ==
    ASSUME NEW c \in Nat, NEW p \in [0 .. c - 1 -> Int],
           NEW to \in Nat, NEW from \in Int, NEW n \in Nat, to + n <= c
    PROVE  /\ memcpy(p, to, from, n) \in [0 .. c - 1 -> Int]
           /\ \A j \in 0 .. c - 1 :
                memcpy(p, to, from, n)[j] =
                    IF to <= j /\ j < to + n THEN from + (j - to) ELSE p[j]
  BY DEF memcpy

\* A write that the buffer has room for, or that wraps, leaves the last bytes in their places.
LEMMA WriteEffect ==
    ASSUME WindowInv, NEW n \in WriteSizes, write(n)
    PROVE  /\ p_' \in [0 .. capacity_ - 1 -> Int]
           /\ i_' \in 0 .. capacity_ - 1
           /\ size_' = IF total + n - start <= capacity_ THEN total + n - start ELSE capacity_
           /\ size_' < capacity_ => i_' = size_'
           /\ \A b \in 1 .. size_' :
                p_'[IF b <= i_' THEN i_' - b ELSE i_' - b + capacity_] = total + n - b
  <1> DEFINE m == capacity_ - i_
  <1>1. /\ capacity_ \in Nat /\ capacity_ >= 1
        /\ i_ \in Nat /\ i_ < capacity_ /\ size_ \in Nat /\ size_ <= capacity_
        /\ start \in Nat /\ total \in Nat /\ start <= total
        /\ Buffer \in [0 .. capacity_ - 1 -> Int]
        /\ size_ > 0 => p_ = Buffer
    BY Types
  <1>2. n \in Nat /\ n >= 1
    BY WindowAssumption
  <1>3. total' = total + n /\ capacity_' = capacity_ /\ start' = start
    BY DEF write
  <1>4. /\ size_ = IF total - start <= capacity_ THEN total - start ELSE capacity_
        /\ size_ < capacity_ => i_ = size_
        /\ \A b \in 1 .. size_ : Buffer[Index(i_, capacity_, b)] = total - b
    BY <1>1 DEF WindowInv, Contents
  <1>6. CASE n >= capacity_
    <2>1. /\ i_' = 0 /\ size_' = capacity_
          /\ p_' = memcpy(Buffer, 0, total + (n - capacity_), capacity_)
      BY <1>1, <1>2, <1>6 DEF write, Buffer
    <2>2. /\ p_' \in [0 .. capacity_ - 1 -> Int]
          /\ \A j \in 0 .. capacity_ - 1 : p_'[j] = total + (n - capacity_) + j
      BY <1>1, <1>2, <2>1, Copied
    <2>3. \A b \in 1 .. capacity_ : p_'[capacity_ - b] = total + n - b
      BY <1>1, <1>2, <2>2
    <2> QED BY <1>1, <1>2, <1>6, <2>1, <2>2, <2>3
  <1>7. CASE n < capacity_ /\ i_ + n <= capacity_
    <2>1. /\ p_' = memcpy(Buffer, i_, total, n)
          /\ size_' = IF size_ >= capacity_ - n THEN capacity_ ELSE size_ + n
          /\ i_' = (i_ + n) % capacity_
      BY <1>1, <1>2, <1>7 DEF write, Buffer, next_index
    <2>2. i_' = IF i_ + n < capacity_ THEN i_ + n ELSE 0
      <3>1. PICK a \in Nat : a = i_ + n
        BY <1>1, <1>2
      <3>2. i_' = a % capacity_
        BY <2>1, <3>1
      <3>3. a < 2 * capacity_
        BY <1>1, <1>2, <1>7, <3>1
      <3>4. a % capacity_ = IF a < capacity_ THEN a ELSE a - capacity_
        BY <1>1, <3>3
      <3> QED BY <1>1, <1>2, <1>7, <3>1, <3>2, <3>4
    <2>3. /\ p_' \in [0 .. capacity_ - 1 -> Int]
          /\ \A j \in 0 .. capacity_ - 1 :
               p_'[j] = IF i_ <= j /\ j < i_ + n THEN total + (j - i_) ELSE Buffer[j]
      BY <1>1, <1>2, <1>7, <2>1, Copied
    <2>4. ASSUME NEW b \in 1 .. size_'
          PROVE  p_'[IF b <= i_' THEN i_' - b ELSE i_' - b + capacity_] = total + n - b
      <3> DEFINE j == IF b <= i_' THEN i_' - b ELSE i_' - b + capacity_
      <3>1. j \in 0 .. capacity_ - 1
        BY <1>1, <1>2, <1>7, <2>1, <2>2
      <3>2. CASE b <= n
        <4>1. j = i_ + n - b
          BY <1>1, <1>2, <1>7, <2>2, <3>2
        <4> QED BY <1>1, <1>2, <2>3, <3>1, <3>2, <4>1
      <3>3. CASE b > n
        <4>1. b - n \in 1 .. size_
          BY <1>1, <1>2, <2>1, <3>3
        <4>2. j = Index(i_, capacity_, b - n)
          BY <1>1, <1>2, <1>7, <2>1, <2>2, <3>3 DEF Index
        <4>3. ~(i_ <= j /\ j < i_ + n)
          <5>1. b <= capacity_ /\ b > n /\ b \in Nat
            BY <1>1, <1>2, <2>1, <3>3
          <5>2. Index(i_, capacity_, b - n) < i_ \/ Index(i_, capacity_, b - n) >= i_ + n
            BY <1>1, <1>2, <5>1 DEF Index
          <5>3. Index(i_, capacity_, b - n) \in Int
            BY <1>1, <1>2, <5>1 DEF Index
          <5> HIDE DEF j
          <5> QED BY <1>1, <1>2, <4>2, <5>2, <5>3
        <4>4. p_'[j] = Buffer[Index(i_, capacity_, b - n)]
          BY <2>3, <3>1, <4>2, <4>3
        <4>5. Buffer[Index(i_, capacity_, b - n)] = total - (b - n)
          BY <1>4, <4>1
        <4> QED BY <1>1, <1>2, <4>4, <4>5
      <3> QED BY <1>2, <3>2, <3>3
    <2>5. /\ size_' = IF total + n - start <= capacity_ THEN total + n - start ELSE capacity_
          /\ size_' < capacity_ => i_' = size_'
      <3>1. CASE size_ >= capacity_ - n
        <4>1. size_' = capacity_ /\ total + n - start >= capacity_
          BY <1>1, <1>2, <1>4, <2>1, <3>1
        <4> QED BY <1>1, <1>2, <4>1
      <3>2. CASE size_ < capacity_ - n
        <4>1. i_ = size_ /\ size_ = total - start
          BY <1>1, <1>2, <1>4, <3>2
        <4>2. size_' = size_ + n /\ i_' = i_ + n
          BY <1>1, <1>2, <2>1, <2>2, <3>2, <4>1, SMTT(30)
        <4> QED BY <1>1, <1>2, <3>2, <4>1, <4>2
      <3> QED BY <1>1, <1>2, <3>1, <3>2
    <2>6. i_' \in 0 .. capacity_ - 1
      BY <1>1, <1>2, <1>7, <2>2
    <2> QED BY <2>3, <2>4, <2>5, <2>6
  <1>8. CASE n < capacity_ /\ i_ + n > capacity_
    <2>1. /\ i_' = n - m /\ size_' = capacity_
          /\ p_' = memcpy(memcpy(Buffer, i_, total, m), 0, total + m, n - m)
      BY <1>1, <1>2, <1>8 DEF write, Buffer, wrapped
    <2>2. m \in Nat /\ n - m \in Nat /\ n - m < i_ /\ n - m >= 1
      BY <1>1, <1>2, <1>8
    <2>3. /\ memcpy(Buffer, i_, total, m) \in [0 .. capacity_ - 1 -> Int]
          /\ \A j \in 0 .. capacity_ - 1 :
               memcpy(Buffer, i_, total, m)[j] =
                   IF i_ <= j /\ j < i_ + m THEN total + (j - i_) ELSE Buffer[j]
      BY <1>1, <2>2, Copied, SMTT(30)
    <2>4. /\ p_' \in [0 .. capacity_ - 1 -> Int]
          /\ \A j \in 0 .. capacity_ - 1 :
               p_'[j] = IF j < n - m THEN total + m + j
                        ELSE IF i_ <= j THEN total + (j - i_) ELSE Buffer[j]
      <3> DEFINE q == memcpy(Buffer, i_, total, m)
      <3>1. q \in [0 .. capacity_ - 1 -> Int]
        BY <2>3
      <3>2. \A j \in 0 .. capacity_ - 1 :
              q[j] = IF i_ <= j THEN total + (j - i_) ELSE Buffer[j]
        BY <1>1, <2>3
      <3> HIDE DEF q
      <3>3. p_' = memcpy(q, 0, total + m, n - m)
        BY <2>1 DEF q
      <3>4. total + m \in Int /\ 0 + (n - m) <= capacity_
        BY <1>1, <2>2
      <3> DEFINE k == n - m
                 f == total + m
      <3>5. k \in Nat /\ f \in Int /\ 0 + k <= capacity_
        BY <1>1, <2>2
      <3>6. p_' = memcpy(q, 0, f, k)
        BY <3>3
      <3> HIDE DEF k, f, m
      <3>7. /\ p_' \in [0 .. capacity_ - 1 -> Int]
            /\ \A j \in 0 .. capacity_ - 1 :
                 p_'[j] = IF 0 <= j /\ j < 0 + k THEN f + (j - 0) ELSE q[j]
        BY <1>1, <3>1, <3>5, <3>6, Copied, SMTT(30)
      <3>8. \A j \in 0 .. capacity_ - 1 : p_'[j] = IF j < k THEN f + j ELSE q[j]
        BY <1>1, <3>5, <3>7
      <3> QED BY <3>2, <3>7, <3>8 DEF k, f
    <2>5. total + n - start > capacity_
      BY <1>1, <1>2, <1>4, <1>8
    <2>6. ASSUME NEW b \in 1 .. capacity_
          PROVE  p_'[IF b <= i_' THEN i_' - b ELSE i_' - b + capacity_] = total + n - b
      <3> DEFINE j == IF b <= i_' THEN i_' - b ELSE i_' - b + capacity_
      <3>1. j \in 0 .. capacity_ - 1
        BY <1>1, <1>2, <2>1, <2>2
      <3>2. CASE b <= n - m
        BY <1>1, <1>2, <2>1, <2>2, <2>4, <3>1, <3>2
      <3>3. CASE n - m < b /\ b <= n
        BY <1>1, <1>2, <2>1, <2>2, <2>4, <3>1, <3>3
      <3>4. CASE b > n
        <4>1. b - n \in 1 .. size_
          BY <1>1, <1>2, <1>4, <1>8, <3>4
        <4>2. j = Index(i_, capacity_, b - n)
          BY <1>1, <1>2, <1>8, <2>1, <2>2, <3>4 DEF Index
        <4>3. ~(j < n - m) /\ ~(i_ <= j)
          BY <1>1, <1>2, <1>8, <2>1, <2>2, <3>4
        <4>4. p_'[j] = Buffer[Index(i_, capacity_, b - n)]
          BY <2>4, <3>1, <4>2, <4>3
        <4>5. Buffer[Index(i_, capacity_, b - n)] = total - (b - n)
          BY <1>4, <4>1
        <4> QED BY <1>1, <1>2, <4>4, <4>5
      <3> QED BY <1>1, <1>2, <2>2, <3>2, <3>3, <3>4
    <2> QED BY <1>1, <1>2, <2>1, <2>2, <2>4, <2>5, <2>6
  <1> QED BY <1>1, <1>2, <1>6, <1>7, <1>8

\* So a write keeps the invariant.
LEMMA WriteStep ==
    ASSUME WindowInv, NEW n \in WriteSizes, write(n)
    PROVE  WindowInv'
  <1>1. /\ capacity_ \in Nat /\ capacity_ >= 1
        /\ start \in Nat /\ total \in Nat /\ start <= total
    BY Types
  <1>2. n \in Nat /\ n >= 1
    BY WindowAssumption
  <1>3. total' = total + n /\ capacity_' = capacity_ /\ start' = start
    BY DEF write
  <1>4. capacity_ \in Capacities
    BY DEF WindowInv, TypeOK
  <1>5. /\ p_' \in [0 .. capacity_ - 1 -> Int]
        /\ i_' \in 0 .. capacity_ - 1
    BY WriteEffect
  <1>6. /\ size_' = IF total + n - start <= capacity_ THEN total + n - start ELSE capacity_
        /\ size_' < capacity_ => i_' = size_'
    BY WriteEffect
  <1>7. ASSUME NEW b \in 1 .. size_'
        PROVE  p_'[Index(i_', capacity_', b)] = total' - b
    <2>1. \A c \in 1 .. size_' :
             p_'[IF c <= i_' THEN i_' - c ELSE i_' - c + capacity_] = total + n - c
      BY WriteEffect
    <2>2. b \in Int /\ i_' \in Int /\ capacity_' = capacity_ /\ capacity_' \in Int
      BY <1>1, <1>3, <1>5, <1>6
    <2>3. PICK j : j = Index(i_', capacity_', b)
      OBVIOUS
    <2>4. j = IF b <= i_' THEN i_' - b ELSE i_' - b + capacity_
      BY <2>2, <2>3 DEF Index
    <2>5. p_'[j] = total + n - b
      BY <2>1, <2>4
    <2>6. total' - b = total + n - b
      BY <1>1, <1>2, <1>3, <2>2
    <2> QED BY <2>3, <2>5, <2>6
  <1>8. p_' # NoBuffer
    <2>1. DOMAIN p_' = 0 .. capacity_ - 1 /\ 0 \in 0 .. capacity_ - 1
      BY <1>1, <1>5
    <2>2. DOMAIN NoBuffer = {}
      BY DEF NoBuffer
    <2> QED BY <2>1, <2>2
  <1>9. size_' \in 0 .. capacity_ /\ total' \in Nat /\ start' \in Nat /\ start' <= total'
    BY <1>1, <1>2, <1>3, <1>6
  <1>10. TypeOK'
    BY <1>3, <1>4, <1>5, <1>9 DEF TypeOK
  <1>11. size_' = IF total' - start' <= capacity_' THEN total' - start' ELSE capacity_'
    <2>1. capacity_' \in Int /\ total' \in Int /\ start' \in Int
      BY <1>1, <1>2, <1>3
    <2> QED BY <1>1, <1>2, <1>3, <1>6, <2>1
  <1>12. size_' < capacity_' => i_' = size_'
    BY <1>3, <1>6
  <1>13. Contents'
    <2>1. \A b \in 1 .. size_' : p_'[Index(i_', capacity_', b)] = total' - b
      BY <1>7
    <2>2. size_' > 0 => p_' # NoBuffer
      BY <1>8
    <2> QED BY <1>11, <1>12, <2>1, <2>2 DEF Contents
  <1> QED BY <1>10, <1>13 DEF WindowInv

\* Nothing that was written before a reset is remembered after it.
LEMMA ResetStep ==
    ASSUME WindowInv, NEW c \in Capacities, reset(c)
    PROVE  WindowInv'
  <1>1. /\ i_' = 0 /\ size_' = 0 /\ start' = total /\ total' = total
        /\ capacity_' = c
        /\ p_' = NoBuffer \/ (p_' = p_ /\ capacity_' = capacity_)
    BY DEF reset
  <1>2. capacity_' \in Nat /\ capacity_' >= 1 /\ total \in Nat
    BY <1>1, WindowAssumption, Types
  <1>3. p_' = NoBuffer \/ p_' \in [0 .. capacity_' - 1 -> Int]
    BY <1>1 DEF WindowInv, TypeOK
  <1>4. TypeOK'
    BY <1>1, <1>2, <1>3 DEF TypeOK
  <1>5. Contents'
    <2>1. size_' = IF total' - start' <= capacity_' THEN total' - start' ELSE capacity_'
      BY <1>1, <1>2
    <2>2. 1 .. size_' = {} /\ ~(size_' > 0) /\ i_' = size_'
      BY <1>1
    <2> QED BY <2>1, <2>2 DEF Contents
  <1> QED BY <1>4, <1>5 DEF WindowInv

\* A read changes nothing that the invariant speaks of.
LEMMA Stutter ==
    ASSUME WindowInv, UNCHANGED <<p_, i_, size_, capacity_, start, total>>
    PROVE  WindowInv'
  <1>1. TypeOK'
    BY DEF WindowInv, TypeOK
  <1>2. Contents'
    BY DEF WindowInv, Contents
  <1> QED BY <1>1, <1>2 DEF WindowInv

(***************************************************************************)
(* The invariant of the ring buffer: every byte that read() may be asked   *)
(* for is in its place after any writes, reads and resets.                 *)
(***************************************************************************)
THEOREM WindowInvariance == Spec => []WindowInv
  <1>1. Init => WindowInv
    <2> SUFFICES ASSUME Init PROVE WindowInv
      OBVIOUS
    <2>1. capacity_ \in Nat /\ capacity_ >= 1
      BY WindowAssumption DEF Init
    <2>2. TypeOK
      BY <2>1 DEF Init, TypeOK
    <2>3. Contents
      <3>1. size_ = 0 /\ i_ = 0 /\ total = 0 /\ start = 0
        BY DEF Init
      <3>2. 1 .. size_ = {} /\ ~(size_ > 0) /\ i_ = size_ /\ total - start = 0
        BY <3>1
      <3> QED BY <2>1, <3>1, <3>2 DEF Contents
    <2> QED BY <2>2, <2>3 DEF WindowInv
  <1>2. ASSUME WindowInv, [Next]_vars PROVE WindowInv'
    <2>1. CASE UNCHANGED vars
      BY <1>2, <2>1, Stutter DEF vars
    <2>2. CASE \E c \in Capacities : reset(c)
      BY <1>2, <2>2, ResetStep
    <2>3. CASE \E n \in WriteSizes : total + n <= MaxTotal /\ write(n)
      BY <1>2, <2>3, WriteStep
    <2>4. CASE \E pos \in 1 .. size_ : \E n \in 1 .. pos : read(pos, n)
      BY <1>2, <2>4, Stutter DEF read
    <2> QED BY <1>2, <2>1, <2>2, <2>3, <2>4 DEF Next
  <1> QED BY <1>1, <1>2, PTL DEF Spec

\* A read gives the bytes written pos bytes ago.
LEMMA ReadEffect ==
    ASSUME WindowInv, NEW pos \in 1 .. size_, NEW n \in 1 .. pos, read(pos, n)
    PROVE  got' = [k \in 0 .. n - 1 |-> total - pos + k]
  <1>1. /\ capacity_ \in Nat /\ capacity_ >= 1
        /\ i_ \in Nat /\ i_ < capacity_ /\ size_ \in Nat /\ size_ <= capacity_
        /\ total \in Nat
    BY Types
  <1>2. /\ size_ < capacity_ => i_ = size_
        /\ \A b \in 1 .. size_ : p_[Index(i_, capacity_, b)] = total - b
    BY DEF WindowInv, Contents
  <1>3. pos \in Nat /\ pos >= 1 /\ pos <= size_ /\ n \in Nat /\ n <= pos
    BY <1>1
  <1>4. PICK a \in Nat : a = i_ - pos + capacity_
    BY <1>1, <1>3
  <1>5. PICK i : i = a % capacity_
    OBVIOUS
  <1>6. i = IF a < capacity_ THEN a ELSE a - capacity_
    <2>1. a < 2 * capacity_
      BY <1>1, <1>3, <1>4
    <2>2. a % capacity_ = IF a < capacity_ THEN a ELSE a - capacity_
      BY <1>1, <2>1
    <2> QED BY <1>5, <2>2
  <1>7. i = IF i_ < pos THEN i_ - pos + capacity_ ELSE i_ - pos
    BY <1>1, <1>3, <1>4, <1>6
  <1>8. got' = [k \in 0 .. n - 1 |->
                  IF i_ >= size_ THEN p_[i_ - pos + k]
                  ELSE IF k < capacity_ - i THEN p_[i + k] ELSE p_[k - (capacity_ - i)]]
    BY <1>4, <1>5 DEF read
  <1>9. ASSUME NEW k \in 0 .. n - 1
        PROVE  (IF i_ >= size_ THEN p_[i_ - pos + k]
                ELSE IF k < capacity_ - i THEN p_[i + k] ELSE p_[k - (capacity_ - i)])
               = total - pos + k
    <2>1. pos - k \in 1 .. size_ /\ k \in Nat
      BY <1>1, <1>3
    <2>2. PICK j : j = Index(i_, capacity_, pos - k)
      OBVIOUS
    <2>3. j = IF pos - k <= i_ THEN i_ - (pos - k) ELSE i_ - (pos - k) + capacity_
      BY <2>2 DEF Index
    <2>4. p_[j] = total - pos + k
      <3>1. p_[j] = total - (pos - k)
        BY <1>2, <2>1, <2>2
      <3> QED BY <1>1, <1>3, <2>1, <3>1
    <2>5. CASE i_ >= size_
      <3>1. j = i_ - pos + k
        BY <1>1, <1>3, <2>1, <2>3, <2>5
      <3> QED BY <2>4, <2>5, <3>1
    <2>6. CASE i_ < size_
      <3>1. CASE k < capacity_ - i
        <4>1. j = i + k
          BY <1>1, <1>3, <1>7, <2>1, <2>3, <2>6, <3>1
        <4> QED BY <1>1, <2>4, <2>6, <3>1, <4>1
      <3>2. CASE ~(k < capacity_ - i)
        <4>1. j = k - (capacity_ - i)
          BY <1>1, <1>3, <1>7, <2>1, <2>3, <2>6, <3>2
        <4> QED BY <1>1, <2>4, <2>6, <3>2, <4>1
      <3> QED BY <3>1, <3>2
    <2> QED BY <1>1, <2>5, <2>6
  <1> QED BY <1>8, <1>9

(***************************************************************************)
(* The window implements History: the bytes that a match copies from the   *)
(* window are those written `pos' bytes ago in the same stream, for every  *)
(* capacity and every sequence of writes, whole or in pieces.              *)
(***************************************************************************)
THEOREM ImplementsHistory == Spec => IsHistory
  <1>1. Init => H!New
    BY DEF Init, H!New
  <1>2. ASSUME WindowInv, [Next]_vars PROVE [H!HistoryNext]_(H!historyVars)
    <2>1. CASE UNCHANGED vars
      BY <2>1 DEF vars, H!historyVars
    <2>2. CASE \E c \in Capacities : reset(c)
      BY <2>2 DEF reset, H!HistoryNext, H!Reset
    <2>3. CASE \E n \in WriteSizes : total + n <= MaxTotal /\ write(n)
      <3>1. PICK n \in WriteSizes : write(n)
        BY <2>3
      <3>2. n \in Nat /\ n >= 1 /\ total \in Nat
        BY <1>2, WindowAssumption, Types
      <3>3. total' > total /\ UNCHANGED <<capacity_, start, got>>
        BY <3>1, <3>2 DEF write
      <3> QED BY <3>3 DEF H!HistoryNext, H!Write
    <2>4. CASE \E pos \in 1 .. size_ : \E n \in 1 .. pos : read(pos, n)
      <3>1. PICK pos \in 1 .. size_ : \E n \in 1 .. pos : read(pos, n)
        BY <2>4
      <3>2. PICK n \in 1 .. pos : read(pos, n)
        BY <3>1
      <3>3. size_ = H!Remembered
        BY <1>2 DEF WindowInv, Contents, H!Remembered
      <3>4. got' = [k \in 0 .. n - 1 |-> total - pos + k]
        BY <1>2, <3>2, ReadEffect
      <3>5. UNCHANGED <<capacity_, start, total>>
        BY <3>2 DEF read
      <3> QED BY <3>1, <3>2, <3>3, <3>4, <3>5 DEF H!HistoryNext, H!Read
    <2> QED BY <1>2, <2>1, <2>2, <2>3, <2>4 DEF Next
  <1>3. Spec => []WindowInv
    BY WindowInvariance
  <1> QED BY <1>1, <1>2, <1>3, PTL DEF Spec, IsHistory, H!History

(***************************************************************************)
(* Types of the window: its indices stay in the buffer.                    *)
(***************************************************************************)
THEOREM WindowTypes == Spec => []TypeOK
  <1>1. WindowInv => TypeOK
    BY DEF WindowInv
  <1> QED BY <1>1, WindowInvariance, PTL

(***************************************************************************)
(* Contents of the window: every byte in reach is in its place.            *)
(***************************************************************************)
THEOREM WindowContents == Spec => []Contents
  <1>1. WindowInv => Contents
    BY DEF WindowInv
  <1> QED BY <1>1, WindowInvariance, PTL
============================================================================
