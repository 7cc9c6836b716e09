----------------------------- MODULE MpscProofs -----------------------------
(***************************************************************************)
(* Proofs about the MPSC channel, for any number of producers, any ring    *)
(* whose slots fill the words of its bitmap, and any batches.              *)
(***************************************************************************)
EXTENDS Mpsc, FiniteSetTheorems, WellFoundedInduction, TLAPS

(* Every word of the availability bitmap is full: the capacity is a        *)
(* multiple of 64, as every power of two from 64 on.                       *)
RingFillsWords == Capacity % BitsPerWord = 0

(***************************************************************************)
(* The invariant                                                           *)
(***************************************************************************)
TypeInv == TypeOK /\ IsFiniteSet(Live)

(* What has been consumed is published, and what is published was granted  *)
(* to its producer, which needs the slot to be free.                       *)
CursorInv ==
  /\ claim_cursor \in -1..(MaxEvents - 1) /\ consumer_cursor = c_next - 1
  /\ 0..(c_next - 1) \subseteq published /\ published \subseteq 0..claim_cursor
  /\ \A s \in published : s < c_next + Capacity

Holding == {"space", "recheck", "write", "publish"}
Granted == {"cas", "write", "publish"}

(* The claims of the producers are unpublished and belong to one producer  *)
(* each.  From the look at the consumer cursor on there is space for them. *)
ClaimInv ==
  \A p \in Producers :
    /\ ppc[p] \in Holding =>
         /\ call[p].start + call[p].n - 1 <= claim_cursor
         /\ call[p].done < call[p].n
    /\ ppc[p] # "publish" => call[p].done = 0
    /\ ppc[p] \in Granted => call[p].start + call[p].n <= c_next + Capacity
    /\ ppc[p] = "cas" => call[p].start + call[p].n <= MaxEvents
    /\ Claimed(p) \cap published = {}
    /\ \A q \in Producers : p # q => Claimed(p) \cap Claimed(q) = {}

(* In the round that the consumer is in, a bit says what it should. *)
BitInv ==
  \A s \in c_next..(c_next + Capacity - 1) : is_published(s) <=> s \in published

(* Slots hold the events that were written to them until they are taken. *)
SlotInv ==
  /\ \A s \in published : s >= c_next => slots[Index(s)] = s
  /\ \A p \in Producers : ppc[p] = "publish" =>
       \A s \in Claimed(p) : slots[Index(s)] = s

(* Events that the call of the consumer has moved out. *)
Taken == IF cpc = "read" /\ ccall.op # "peek" THEN ccall.read ELSE 0

(* The consumer takes and scans published events only. *)
ReadInv ==
  /\ cpc = "scan" =>
       ccall.read = 0 /\ ccall.scan >= c_next /\ c_next..(ccall.scan - 1) \subseteq published
  /\ cpc = "read" =>
       ccall.read <= ccall.count /\ c_next..(c_next + ccall.count - 1) \subseteq published
  /\ Len(delivered) = c_next + Taken
  /\ \A i \in 1..Len(delivered) : delivered[i] = i - 1

(* Whatever has been claimed is published, given up or still held. *)
Accounted ==
  \A s \in 0..claim_cursor :
    s \in published \cup leaked \/ \E p \in Producers : s \in Claimed(p)

(* A claim is given up only after close, and nobody is left to give up one *)
(* when the last producer closes the channel.                              *)
CloseInv ==
  /\ ~closed => leaked = {} /\ closer = "none"
  /\ closer = "last_drop" => Live = {} /\ leaked = {}
  /\ cpc = "final" \/ result = "recv_error" => closed

RingInv == TypeInv /\ CursorInv /\ ClaimInv /\ BitInv /\ SlotInv /\ ReadInv

(***************************************************************************)
(* Arithmetic of slots, words and bits                                     *)
(***************************************************************************)

(* A set of natural numbers has a least element. *)
LEMMA LeastNat ==
  ASSUME NEW S \in SUBSET Nat, S # {}
  PROVE  \E x \in S : \A y \in S : x <= y
<1>1. PICK x \in S : \A y \in S : ~(<<y, x>> \in OpToRel(<, Nat))
  BY NatLessThanWellFounded, WFMin
<1>2. \A y \in S : ~(y < x)
  <2>1. \A a, b \in Nat : a < b => <<a, b>> \in OpToRel(<, Nat)
    BY DEF OpToRel
  <2>2. QED
    BY <1>1, <2>1
<1>3. QED
  BY <1>2

(* Quotient and remainder are what they should be, and the only ones. *)
LEMMA Division ==
  ASSUME NEW n \in Nat \ {0}, NEW x \in Int
  PROVE  /\ x \div n \in Int /\ x % n \in 0..(n - 1)
         /\ x = n * (x \div n) + (x % n)
         /\ x \in Nat => x \div n \in Nat
<1>1. x \div n \in Int /\ x % n \in 0..(n - 1)
  OBVIOUS
<1>2. x = n * (x \div n) + (x % n)
  OBVIOUS
<1>3. ASSUME x \in Nat PROVE x \div n \in Nat
  <2> DEFINE q == x \div n
             r == x % n
  <2>1. q \in Int /\ r \in 0..(n - 1) /\ x = n * q + r /\ x >= 0
    BY <1>1, <1>2, <1>3
  <2> HIDE DEF q, r
  <2>2. CASE q <= -1
    <3>1. n * q <= -n
      BY <2>1, <2>2
    <3>2. QED
      BY <2>1, <3>1
  <2>3. QED
    BY <2>1, <2>2 DEF q
<1>4. QED
  BY <1>1, <1>2, <1>3

LEMMA QuotientUnique ==
  ASSUME NEW n \in Nat \ {0}, NEW q \in Int, NEW r \in 0..(n - 1),
         NEW u \in Int, NEW v \in 0..(n - 1), n * q + r = n * u + v
  PROVE  q = u /\ r = v
<1> DEFINE k == q - u
<1>1. k \in Int /\ n * k = v - r
  OBVIOUS
<1>2. v - r < n /\ v - r > -n
  OBVIOUS
<1>3. k = 0
  <2>1. CASE k >= 1
    BY <1>1, <1>2, <2>1
  <2>2. CASE k <= -1
    BY <1>1, <1>2, <2>2
  <2>3. QED
    BY <1>1, <2>1, <2>2
<1>4. QED
  BY <1>1, <1>3

LEMMA DivisionUnique ==
  ASSUME NEW n \in Nat \ {0}, NEW q \in Int, NEW r \in 0..(n - 1)
  PROVE  (n * q + r) \div n = q /\ (n * q + r) % n = r
<1> DEFINE x == n * q + r
<1>1. x \in Int
  OBVIOUS
<1>2. x \div n \in Int /\ x % n \in 0..(n - 1) /\ n * q + r = n * (x \div n) + (x % n)
  BY <1>1, Division
<1> DEFINE u == x \div n
           v == x % n
<1>3. u \in Int /\ v \in 0..(n - 1) /\ n * q + r = n * u + v
  BY <1>2
<1> HIDE DEF u, v
<1>4. q = u /\ r = v
  BY <1>3, QuotientUnique
<1>5. QED
  BY <1>4 DEF u, v

LEMMA IndexInRing == ASSUME NEW s \in Int PROVE Index(s) \in 0..(Capacity - 1)
  BY CapacityAssumption DEF Index

(* Two sequences less than a round apart have different slots. *)
LEMMA IndexInjective ==
  ASSUME NEW a \in Int, NEW b \in Int, NEW c \in Int,
         a >= c, b >= c, a < c + Capacity, b < c + Capacity, Index(a) = Index(b)
  PROVE  a = b
<1> DEFINE q == a \div Capacity
           r == b \div Capacity
           k == r - q
<1>1. q \in Int /\ a = Capacity * q + Index(a)
  BY CapacityAssumption, Division DEF Index
<1>2. r \in Int /\ b = Capacity * r + Index(b)
  BY CapacityAssumption, Division DEF Index
<1>3. k \in Int
  BY <1>1, <1>2
<1> HIDE DEF q, r
<1>4. b - a = Capacity * k
  BY <1>1, <1>2, CapacityAssumption, IndexInRing
<1> HIDE DEF k
<1>5. b - a < Capacity /\ b - a > -Capacity
  BY CapacityAssumption
<1>6. k = 0
  <2>1. CASE k >= 1
    <3>1. Capacity * k >= Capacity
      BY <1>3, <2>1, CapacityAssumption
    <3>2. QED
      BY <1>3, <1>4, <1>5, <3>1, CapacityAssumption
  <2>2. CASE k <= -1
    <3>1. Capacity * k <= -Capacity
      BY <1>3, <2>2, CapacityAssumption
    <3>2. QED
      BY <1>3, <1>4, <1>5, <3>1, CapacityAssumption
  <2>3. QED
    BY <1>3, <2>1, <2>2
<1>7. QED
  BY <1>4, <1>6, CapacityAssumption

(* The ring has as many slots as the bitmap has bits. *)
LEMMA WordCount ==
  ASSUME RingFillsWords
  PROVE  /\ availability_words \in Nat \ {0}
         /\ Capacity = BitsPerWord * availability_words
         /\ BitsPerWord <= Capacity
<1> DEFINE B == BitsPerWord
           m == Capacity \div B
<1>1. B \in Nat \ {0} /\ Capacity \in Nat \ {0}
  BY CapacityAssumption
<1>2. m \in Nat /\ Capacity = B * m
  BY <1>1, Division DEF RingFillsWords
<1>3. Capacity + B - 1 = B * m + (B - 1)
  BY <1>1, <1>2
<1> HIDE DEF m, B
<1>4. (B * m + (B - 1)) \div B = m
  BY <1>1, <1>2, DivisionUnique
<1>5. availability_words = m
  BY <1>3, <1>4 DEF availability_words, B
<1>6. m # 0
  BY <1>1, <1>2
<1>7. B <= B * m
  BY <1>1, <1>2, <1>6
<1>8. QED
  BY <1>1, <1>2, <1>5, <1>6, <1>7 DEF B

(* The word, the bit and the round of a sequence. *)
LEMMA Coordinates ==
  ASSUME RingFillsWords, NEW s \in Nat
  PROVE  /\ word_index(s) \in Words /\ bit_index(s) \in Bits
         /\ Index(s) = BitsPerWord * word_index(s) + bit_index(s)
         /\ s \div Capacity = (s \div BitsPerWord) \div availability_words
<1> DEFINE B == BitsPerWord
           m == availability_words
           q == s \div B
           b == s % B
           r == q \div m
           w == q % m
<1>1. B \in Nat \ {0} /\ m \in Nat \ {0} /\ Capacity = B * m
  BY CapacityAssumption, WordCount
<1>2. q \in Nat /\ b \in 0..(B - 1) /\ s = B * q + b
  <2>1. s \in Int
    OBVIOUS
  <2>2. QED
    BY <1>1, <2>1, Division, Zenon
<1> HIDE DEF q, b
<1>3. r \in Nat /\ w \in 0..(m - 1) /\ q = m * r + w
  <2>1. q \in Int
    BY <1>2
  <2>2. QED
    BY <1>1, <1>2, <2>1, Division, Zenon
<1> HIDE DEF r, w
<1>4. s = (B * m) * r + (B * w + b)
  BY <1>1, <1>2, <1>3
<1>5. B * w + b \in 0..(B * m - 1)
  <2>1. B * w <= B * (m - 1)
    BY <1>1, <1>3
  <2>2. B * (m - 1) = B * m - B
    BY <1>1
  <2>3. B * w \in Nat /\ B * m \in Nat
    BY <1>1, <1>3
  <2>4. QED
    BY <1>1, <1>2, <2>1, <2>2, <2>3
<1>6. s \div Capacity = r /\ s % Capacity = B * w + b
  <2> DEFINE n == B * m
             o == B * w + b
  <2>1. n \in Nat \ {0} /\ o \in 0..(n - 1) /\ s = n * r + o
    BY <1>1, <1>4, <1>5
  <2> HIDE DEF n, o
  <2>2. s \div n = r /\ s % n = o
    BY <1>3, <2>1, DivisionUnique
  <2>3. QED
    BY <1>1, <2>2 DEF n, o
<1>7. word_index(s) = w /\ bit_index(s) = b
  BY DEF word_index, bit_index, w, q, b
<1>8. QED
  BY <1>2, <1>3, <1>6, <1>7 DEF Words, Bits, Index, r, q

(* A bit of the bitmap belongs to one slot. *)
LEMMA BitOfSlot ==
  ASSUME RingFillsWords, NEW s \in Nat, NEW t \in Nat
  PROVE  (word_index(s) = word_index(t) /\ bit_index(s) = bit_index(t))
           <=> Index(s) = Index(t)
<1> DEFINE B == BitsPerWord
           w == word_index(s)
           v == word_index(t)
           b == bit_index(s)
           c == bit_index(t)
<1>1. /\ B \in Nat \ {0} /\ w \in Int /\ v \in Int
      /\ b \in 0..(B - 1) /\ c \in 0..(B - 1)
  BY CapacityAssumption, WordCount, Coordinates DEF Words, Bits
<1>2. Index(s) = B * w + b /\ Index(t) = B * v + c
  BY Coordinates
<1> HIDE DEF B, w, v, b, c
<1>3. B * w + b = B * v + c => w = v /\ b = c
  BY <1>1, QuotientUnique
<1>4. QED
  BY <1>2, <1>3 DEF w, v, b, c

(* The sequence one round later has the same slot and the other polarity. *)
LEMMA NextRound ==
  ASSUME NEW s \in Nat
  PROVE  /\ Index(s + Capacity) = Index(s)
         /\ expected_bit(s) \in 0..1
         /\ expected_bit(s + Capacity) = 1 - expected_bit(s)
<1> DEFINE q == s \div Capacity
           i == s % Capacity
<1>1. Capacity \in Nat \ {0} /\ q \in Nat /\ i \in 0..(Capacity - 1) /\ s = Capacity * q + i
  <2>1. s \in Int
    OBVIOUS
  <2>2. QED
    BY <2>1, CapacityAssumption, Division, Zenon
<1> HIDE DEF q, i
<1>2. s + Capacity = Capacity * (q + 1) + i
  BY <1>1
<1>3. (s + Capacity) \div Capacity = q + 1 /\ (s + Capacity) % Capacity = i
  BY <1>1, <1>2, DivisionUnique
<1>4. q % 2 \in 0..1 /\ (q + 1) % 2 = 1 - (q % 2)
  BY <1>1
<1>5. Index(s) = i /\ Index(s + Capacity) = i
  BY <1>3 DEF Index, i
<1>6. expected_bit(s) = q % 2 /\ expected_bit(s + Capacity) = (q + 1) % 2
  BY <1>3 DEF expected_bit, q
<1>7. expected_bit(s) \in 0..1 /\ expected_bit(s + Capacity) = 1 - expected_bit(s)
  BY <1>1, <1>4, <1>6
<1>8. QED
  BY <1>5, <1>7

(* The sequences from s to the end of its word have the word and the round *)
(* of s.                                                                   *)
LEMMA RestOfWord ==
  ASSUME RingFillsWords, NEW s \in Nat, NEW t \in Nat, s <= t,
         t < s + BitsPerWord - bit_index(s)
  PROVE  /\ word_index(t) = word_index(s)
         /\ bit_index(t) = bit_index(s) + (t - s)
         /\ expected_bit(t) = expected_bit(s)
<1> DEFINE B == BitsPerWord
           q == s \div B
           b == s % B
<1>1. B \in Nat \ {0} /\ q \in Nat /\ b \in 0..(B - 1) /\ s = B * q + b
  BY CapacityAssumption, Division
<1>2. bit_index(s) = b
  BY DEF bit_index
<1> HIDE DEF q, b
<1>3. t = B * q + (b + (t - s)) /\ b + (t - s) \in 0..(B - 1)
  BY <1>1, <1>2
<1> DEFINE c == b + (t - s)
<1>4. t \div B = q /\ t % B = c
  <2>1. c \in 0..(B - 1) /\ t = B * q + c
    BY <1>3
  <2>2. B \in Nat \ {0} /\ q \in Int /\ c \in Int /\ t \in Int
    BY <1>1, <1>3
  <2> HIDE DEF c, B
  <2>3. QED
    BY <2>1, <2>2, DivisionUnique, Zenon
<1>5. word_index(t) = word_index(s) /\ bit_index(t) = bit_index(s) + (t - s)
  BY <1>2, <1>4 DEF word_index, bit_index, q
<1>6. t \div Capacity = s \div Capacity
  BY <1>4, Coordinates DEF q
<1>7. QED
  BY <1>5, <1>6 DEF expected_bit

(***************************************************************************)
(* Bits of the bitmap                                                      *)
(***************************************************************************)
BitOf(s) == availability[word_index(s)][bit_index(s)]

LEMMA BitOfType ==
  ASSUME RingFillsWords, TypeInv, NEW s \in Nat
  PROVE  BitOf(s) \in 0..1 /\ expected_bit(s) \in 0..1
  BY Coordinates, NextRound DEF TypeInv, TypeOK, BitOf

(* The bits tell the truth about the next round as well, where the         *)
(* sequences a round before are published.                                 *)
LEMMA BitsTrue ==
  ASSUME RingFillsWords, TypeInv, CursorInv, BitInv, NEW t \in Nat, c_next <= t,
         t >= c_next + Capacity =>
           t - Capacity < c_next + Capacity /\ t - Capacity \in published
  PROVE  is_published(t) <=> t \in published
<1> USE CapacityAssumption
<1>0. c_next \in Nat
  BY DEF TypeInv, TypeOK
<1>1. CASE t < c_next + Capacity
  BY <1>0, <1>1 DEF BitInv
<1>2. CASE t >= c_next + Capacity
  <2> DEFINE u == t - Capacity
  <2>1. u \in Nat /\ u >= c_next /\ u < c_next + Capacity /\ u \in published /\ t = u + Capacity
    BY <1>0, <1>2
  <2>2. is_published(u)
    BY <1>0, <2>1 DEF BitInv
  <2> HIDE DEF u
  <2>3. Index(t) = Index(u) /\ expected_bit(t) = 1 - expected_bit(u) /\ expected_bit(u) \in 0..1
    BY <2>1, NextRound
  <2>4. word_index(t) = word_index(u) /\ bit_index(t) = bit_index(u)
    BY <2>1, <2>3, BitOfSlot
  <2>5. ~is_published(t)
    BY <2>2, <2>3, <2>4 DEF is_published
  <2>6. t \notin published
    BY <1>0, <1>2 DEF CursorInv
  <2>7. QED
    BY <2>5, <2>6
<1>3. QED
  BY <1>0, <1>1, <1>2

(* A scan that has found everything published before s finds everything    *)
(* published before the sequence it stops at, or goes on with.             *)
LEMMA AdvanceOverPublished ==
  ASSUME RingFillsWords, TypeInv, CursorInv, BitInv, NEW s \in Nat, c_next <= s,
         c_next..(s - 1) \subseteq published
  PROVE  /\ Advance(s) \in Nat /\ Advance(s) >= s
         /\ c_next..(Advance(s) - 1) \subseteq published
<1> DEFINE b == bit_index(s)
           end == s + BitsPerWord - b
           M == Mismatches(s)
<1>0. /\ c_next \in Nat /\ b \in 0..(BitsPerWord - 1)
      /\ BitsPerWord \in Nat \ {0} /\ Capacity \in Nat \ {0} /\ BitsPerWord <= Capacity
      /\ \A t \in published : t < c_next + Capacity
  BY Coordinates, WordCount, CapacityAssumption DEF TypeInv, TypeOK, Bits, CursorInv
<1> HIDE DEF b, M
<1>1. s <= c_next + Capacity
  <2>1. CASE s > c_next + Capacity
    <3>1. s - 1 \in published
      BY <1>0, <2>1
    <3>2. QED
      BY <1>0, <2>1, <3>1
  <2>2. QED
    BY <1>0, <2>1
<1>2. ASSUME NEW t \in Nat, s <= t, t < end
      PROVE  is_published(t) <=> t \in published
  <2>1. CASE t < c_next + Capacity
    BY <1>0, <1>2, <2>1, BitsTrue
  <2>2. CASE t >= c_next + Capacity
    <3>1. t - Capacity \in c_next..(s - 1) /\ t - Capacity < c_next + Capacity
      BY <1>0, <1>1, <1>2, <2>2
    <3>2. QED
      BY <1>0, <1>2, <3>1, BitsTrue
  <2>3. QED
    BY <1>0, <2>1, <2>2
<1>3. ASSUME NEW t \in Nat, s <= t, t < end, b + (t - s) \notin M
      PROVE  t \in published
  <2>1. /\ word_index(t) = word_index(s) /\ bit_index(t) = b + (t - s)
        /\ expected_bit(t) = expected_bit(s)
    BY <1>3, RestOfWord DEF b
  <2>2. b + (t - s) \in b..(BitsPerWord - 1)
    BY <1>0, <1>3
  <2>3. availability[word_index(s)][b + (t - s)] = expected_bit(s)
    BY <1>3, <2>2 DEF M, Mismatches, b
  <2>4. is_published(t)
    BY <2>1, <2>3 DEF is_published
  <2>5. QED
    BY <1>2, <1>3, <2>4
<1>4. CASE M = {}
  <2>1. Advance(s) = end
    BY <1>4 DEF Advance, M, b
  <2>2. QED
    BY <1>0, <1>3, <1>4, <2>1
<1>5. CASE M # {}
  <2>1. M \in SUBSET Nat /\ M \subseteq b..(BitsPerWord - 1)
    BY <1>0 DEF M, Mismatches, b
  <2> DEFINE m == CHOOSE x \in M : \A y \in M : x <= y
  <2>2. m \in M /\ \A y \in M : m <= y
    BY <1>5, <2>1, LeastNat
  <2>3. Advance(s) = s - b + m
    BY <1>5 DEF Advance, M, b
  <2> HIDE DEF m
  <2>4. m \in b..(BitsPerWord - 1)
    BY <2>1, <2>2
  <2>5. ASSUME NEW t \in Nat, s <= t, t < s - b + m PROVE t \in published
    <3>1. b + (t - s) \notin M /\ t < end
      BY <1>0, <2>2, <2>4, <2>5
    <3>2. QED
      BY <1>3, <2>5, <3>1
  <2>6. QED
    BY <1>0, <2>3, <2>4, <2>5
<1>6. QED
  BY <1>4, <1>5

(* The locals of a producer's call are numbers. *)
LEMMA CallNumbers ==
  ASSUME TypeInv, NEW p \in Producers
  PROVE  /\ call[p] \in ProducerCalls /\ call[p].start \in Nat /\ call[p].n \in 1..Capacity
         /\ call[p].n \in Nat /\ call[p].done \in Nat
<1>1. Capacity \in Nat
  BY CapacityAssumption
<1>2. call[p] \in ProducerCalls
  BY DEF TypeInv, TypeOK
<1>3. call[p].start \in Nat /\ call[p].n \in 1..Capacity /\ call[p].done \in 0..Capacity
  BY <1>2 DEF ProducerCalls
<1>4. QED
  BY <1>1, <1>2, <1>3

(* A publication covers a first part of the claim. *)
LEMMA RunOfWord ==
  ASSUME TypeInv, ClaimInv, NEW p \in Producers, ppc[p] = "publish",
         NEW first, first = call[p].start + call[p].done
  PROVE  \E k \in 1..(call[p].n - call[p].done) :
           /\ WordRun(p) = first..(first + k - 1)
           /\ Cardinality(WordRun(p)) = k
<1> DEFINE c == call[p]
           last == c.start + c.n - 1
           U == {s \in first..last : s \notin WordRun(p)}
<1>1. /\ c.start \in Nat /\ c.n \in Nat /\ c.done \in Nat /\ c.done < c.n
      /\ first \in Nat /\ last \in Nat /\ first <= last
  <2>1. c.start \in Nat /\ c.n \in Nat /\ c.done \in Nat
    BY CallNumbers
  <2>2. c.done < c.n
    BY DEF ClaimInv, Holding
  <2>3. QED
    BY <2>1, <2>2
<1>2. Claimed(p) = first..last
  BY DEF Claimed
<1>3. WordRun(p) =
        {s \in first..last : \A t \in first..s : word_index(t) = word_index(first)}
  BY <1>2 DEF WordRun
<1>4. first \in WordRun(p)
  BY <1>1, <1>3
<1>5. PICK k \in 1..(c.n - c.done) : WordRun(p) = first..(first + k - 1)
  <2>1. CASE U = {}
    <3>1. WordRun(p) = first..(first + (c.n - c.done) - 1)
      BY <1>1, <1>3, <2>1
    <3>2. QED
      BY <1>1, <3>1
  <2>2. CASE U # {}
    <3>0. U \in SUBSET Nat
      BY <1>1
    <3>1. PICK m \in U : \A y \in U : m <= y
      BY <2>2, <3>0, LeastNat
    <3>2. m \in first..last /\ m # first
      BY <1>4, <3>1
    <3>3. ASSUME NEW s \in first..last, s >= m PROVE s \notin WordRun(p)
      <4>1. \E t \in first..m : word_index(t) # word_index(first)
        BY <1>3, <3>1
      <4>2. QED
        BY <1>1, <1>3, <3>2, <3>3, <4>1
    <3>4. \A s \in first..last : s < m => s \in WordRun(p)
      BY <1>1, <3>1, <3>2
    <3>5. WordRun(p) = first..(first + (m - first) - 1)
      BY <1>1, <1>3, <3>2, <3>3, <3>4
    <3>6. m - first \in 1..(c.n - c.done)
      BY <1>1, <3>2
    <3>7. QED
      BY <3>5, <3>6
  <2>3. QED
    BY <2>1, <2>2
<1>6. Cardinality(first..(first + k - 1)) = k
  <2>1. first \in Int /\ first + k - 1 \in Int /\ ~(first > first + k - 1)
    BY <1>1
  <2>2. Cardinality(first..(first + k - 1)) = (first + k - 1) - first + 1
    BY <2>1, FS_Interval
  <2>3. QED
    BY <1>1, <2>2
<1>7. QED
  BY <1>5, <1>6

(***************************************************************************)
(* Types                                                                   *)
(***************************************************************************)
LEMMA NoCalls == NoSend \in ProducerCalls /\ NoRecv \in ConsumerCalls
  BY CapacityAssumption, BoundAssumption
  DEF NoSend, ProducerCalls, ProducerOps, BlockingSends, TrySends, NoRecv,
      ConsumerCalls, ConsumerOps, SingleRecvs, BatchRecvs

LEMMA InitTypes == Init => TypeInv
<1> SUFFICES ASSUME Init PROVE TypeInv
  OBVIOUS
<1>1. Live = {First}
  BY ProducersAssumption DEF Init, Live
<1>2. IsFiniteSet(Live) /\ Cardinality(Live) = 1
  BY <1>1, FS_Singleton
<1>3. slots \in [0..(Capacity - 1) -> Int] /\ availability \in [Words -> [Bits -> 0..1]]
  BY DEF Init, NoEvent
<1>4. ppc \in [Producers -> ProducerPlaces] /\ call \in [Producers -> ProducerCalls]
  BY NoCalls DEF Init, ProducerPlaces
<1>5. producer_count = Cardinality(Live) /\ c_next \in Nat
  BY <1>2 DEF Init
<1>10. closed \in BOOLEAN
  BY Zenon DEF Init
<1>6. claim_cursor \in Int /\ consumer_cursor \in Int
  BY DEF Init
<1>9. /\ cpc \in ConsumerPlaces /\ result \in Results /\ closer \in Closers
  BY DEF Init, ConsumerPlaces, Results, Closers
<1>7. /\ published \subseteq Nat /\ delivered \in Seq(Int) /\ closed_pub \subseteq Nat
      /\ leaked \subseteq Nat /\ freed \in Seq(Int) /\ ccall \in ConsumerCalls
      /\ moved \in Seq(Int) /\ polled \subseteq Int
  BY NoCalls DEF Init
<1>8. QED
  BY <1>2, <1>3, <1>4, <1>5, <1>6, <1>7, <1>9, <1>10 DEF TypeInv, TypeOK

(* A handle that stays alive keeps the number of live handles. *)
LEMMA LiveKept ==
  ASSUME TypeInv, NEW p \in Producers, NEW x \in ProducerPlaces,
         ppc[p] \notin {"unborn", "dropped"}, x \notin {"unborn", "dropped"},
         ppc' = [ppc EXCEPT ![p] = x]
  PROVE  Live' = Live /\ ppc' \in [Producers -> ProducerPlaces]
  BY DEF TypeInv, TypeOK, Live

LEMMA ClaimedNat ==
  ASSUME TypeInv, NEW p \in Producers
  PROVE  Claimed(p) \subseteq Nat
<1>1. call[p].start \in Nat /\ call[p].n \in Nat /\ call[p].done \in Nat
  BY CapacityAssumption DEF TypeInv, TypeOK, ProducerCalls
<1>2. QED
  BY <1>1 DEF Claimed

(* A finite set of numbers has an element of every rank below its size. *)
LEMMA Ranks ==
  ASSUME NEW D \in SUBSET Nat, IsFiniteSet(D), NEW i \in 1..Cardinality(D)
  PROVE  \E s \in D : Cardinality({t \in D : t < s}) = i - 1
<1> DEFINE Below(s) == {t \in D : t < s}
           R(j) == \E s \in D : Cardinality(Below(s)) = j - 1
           Bad == {j \in 1..Cardinality(D) : ~R(j)}
<1>0. Cardinality(D) \in Nat /\ \A d \in D : d \in Nat
  BY FS_CardinalityType
<1>1. SUFFICES ASSUME Bad # {} PROVE FALSE
  OBVIOUS
<1>2. PICK j \in Bad : \A x \in Bad : j <= x
  <2>1. Bad \in SUBSET Nat
    BY <1>0
  <2>2. QED
    BY <1>1, <2>1, LeastNat
<1>3. j \in Nat /\ j >= 1 /\ j <= Cardinality(D) /\ ~R(j)
  BY <1>0, <1>2
<1>4. CASE j = 1
  <2>1. D # {}
    BY <1>3, FS_EmptySet
  <2>2. PICK s \in D : \A y \in D : s <= y
    BY <2>1, LeastNat
  <2>3. Below(s) = {}
    <3>1. \A y \in D : ~(y < s)
      BY <1>0, <2>2
    <3>2. QED
      BY <3>1, Zenon
  <2>4. Cardinality(Below(s)) = 0
    BY <2>3, FS_EmptySet
  <2>5. QED
    BY <1>3, <1>4, <2>4
<1>5. CASE j > 1
  <2>1. j - 1 \in 1..Cardinality(D) /\ j - 1 \notin Bad
    BY <1>0, <1>2, <1>3, <1>5 DEF Bad
  <2>2. PICK s \in D : Cardinality(Below(s)) = j - 2
    <3>1. PICK s \in D : Cardinality(Below(s)) = (j - 1) - 1
      BY <2>1
    <3>2. (j - 1) - 1 = j - 2
      BY <1>3
    <3>3. QED
      BY <3>1, <3>2
  <2> DEFINE Above == {t \in D : t > s}
  <2>3. IsFiniteSet(Below(s)) /\ s \notin Below(s)
    BY FS_Subset
  <2> HIDE DEF R, Bad
  <2>4. Cardinality(Below(s) \cup {s}) = j - 1
    <3>1. Cardinality(Below(s) \cup {s}) = Cardinality(Below(s)) + 1
      BY <2>3, FS_AddElement
    <3>2. QED
      BY <1>3, <2>2, <3>1
  <2>5. Above # {}
    <3>1. SUFFICES ASSUME Above = {} PROVE FALSE
      OBVIOUS
    <3>2. \A y \in D : y < s \/ y = s
      <4>1. \A y \in D : ~(y > s)
        BY <3>1, Zenon
      <4>2. QED
        BY <1>0, <4>1
    <3>4. D = Below(s) \cup {s}
      BY <3>2, Zenon
    <3>3. QED
      BY <1>3, <2>4, <3>4
  <2>6. PICK m \in Above : \A y \in Above : m <= y
    <3>1. Above \in SUBSET Nat
      OBVIOUS
    <3>2. QED
      BY <2>5, <3>1, LeastNat
  <2>7. Below(m) = Below(s) \cup {s}
    <3>1. \A y \in D : y < m <=> y < s \/ y = s
      <4>1. m \in D /\ m > s /\ \A y \in D : y > s => m <= y
        BY <2>6, Zenon
      <4>2. QED
        BY <1>0, <4>1
    <3>2. QED
      BY <3>1, Zenon
  <2>8. R(j)
    BY <2>4, <2>6, <2>7 DEF R
  <2>9. QED
    BY <1>3, <2>8
<1>6. QED
  BY <1>3, <1>4, <1>5

(* What Shared::drop destroys are events of the ring. *)
LEMMA DropTypes ==
  ASSUME TypeInv, CursorInv, SharedDrop
  PROVE  freed' \in Seq(Int)
<1> DEFINE D == {s \in (consumer_cursor + 1)..claim_cursor : is_published(s)}
           nth(i) == CHOOSE s \in D : Cardinality({t \in D : t < s}) = i - 1
           n == Cardinality(D)
<1>1. consumer_cursor + 1 \in Nat /\ claim_cursor \in Int
  BY DEF TypeInv, TypeOK, CursorInv
<1>2. D \in SUBSET Nat /\ IsFiniteSet(D)
  <2>1. IsFiniteSet((consumer_cursor + 1)..claim_cursor)
    BY <1>1, FS_Interval
  <2>2. QED
    BY <1>1, <2>1, FS_Subset
<1>3. n \in Nat
  BY <1>2, FS_CardinalityType
<1>4. freed' = [i \in 1..n |-> slots[Index(nth(i))]]
  BY DEF SharedDrop
<1>5. ASSUME NEW i \in 1..n PROVE slots[Index(nth(i))] \in Int
  <2> HIDE DEF D
  <2>1. nth(i) \in D
    BY <1>2, Ranks
  <2> HIDE DEF nth
  <2>2. nth(i) \in Int
    <3>1. \A d \in D : d \in Int
      BY <1>2
    <3>2. QED
      BY <2>1, <3>1, Zenon
  <2>3. QED
    BY <2>2, IndexInRing DEF TypeInv, TypeOK
<1> HIDE DEF D, nth, n
<1>6. QED
  BY <1>3, <1>4, <1>5

LEMMA ProducerTypes ==
  ASSUME TypeInv, CursorInv, ClaimInv, NEW p \in Producers, ProducerStep(p)
  PROVE  TypeInv'
<1> DEFINE c == call[p]
<1>0. /\ c \in ProducerCalls /\ c.start \in Nat /\ c.n \in 1..Capacity /\ c.n \in Nat
      /\ c.done \in Nat /\ claim_cursor \in Int /\ claim_cursor + 1 \in Nat
      /\ call \in [Producers -> ProducerCalls] /\ Capacity \in Nat \ {0}
  <2>1. /\ c \in ProducerCalls /\ c.start \in Nat /\ c.n \in 1..Capacity /\ c.n \in Nat
        /\ c.done \in Nat
    BY CallNumbers
  <2>2. call \in [Producers -> ProducerCalls]
    BY DEF TypeInv, TypeOK
  <2>3. claim_cursor \in Int /\ claim_cursor + 1 \in Nat /\ Capacity \in Nat \ {0}
    BY CapacityAssumption, BoundAssumption DEF CursorInv
  <2>4. QED
    BY <2>1, <2>2, <2>3
<1>1. ASSUME NEW x \in ProducerPlaces \ {"unborn", "dropped"}, Goto(p, x)
      PROVE  Live' = Live /\ ppc' \in [Producers -> ProducerPlaces]
  <2>1. ppc[p] \notin {"unborn", "dropped"}
    BY DEF ProducerStep, FetchAdd, WaitSpace, Recheck, TryLoad, TryCas, WriteSlots, PublishWord
  <2>2. QED
    BY <1>1, <2>1, LiveKept DEF Goto
<1>2. ASSUME NEW r \in ProducerCalls, call' = [call EXCEPT ![p] = r]
      PROVE  call' \in [Producers -> ProducerCalls]
  BY <1>0, <1>2
<1>3. ASSUME Return(p)
      PROVE  /\ Live' = Live /\ ppc' \in [Producers -> ProducerPlaces]
             /\ call' \in [Producers -> ProducerCalls]
  BY <1>1, <1>2, <1>3, NoCalls DEF Return, ProducerPlaces
<1>4. CASE FetchAdd(p)
  <2> DEFINE r == [c EXCEPT !.start = claim_cursor + 1]
  <2>1. r \in ProducerCalls /\ call' = [call EXCEPT ![p] = r]
    BY <1>0, <1>4 DEF FetchAdd, ProducerCalls
  <2>2. call' \in [Producers -> ProducerCalls]
    BY <1>2, <2>1
  <2>3. Live' = Live /\ ppc' \in [Producers -> ProducerPlaces]
    BY <1>1, <1>4 DEF FetchAdd, ProducerPlaces
  <2>4. claim_cursor' \in Int
    BY <1>0, <1>4 DEF FetchAdd
  <2>5. QED
    BY <1>4, <2>2, <2>3, <2>4 DEF FetchAdd, TypeInv, TypeOK, cvars, observed
<1>5. CASE WaitSpace(p)
  <2>1. Live' = Live /\ ppc' \in [Producers -> ProducerPlaces]
    BY <1>1, <1>5 DEF WaitSpace, ProducerPlaces
  <2>2. QED
    BY <1>5, <2>1 DEF WaitSpace, TypeInv, TypeOK, shared, cvars, observed
<1>6. CASE Recheck(p)
  <2>1. /\ Live' = Live /\ ppc' \in [Producers -> ProducerPlaces]
        /\ call' \in [Producers -> ProducerCalls]
    BY <1>0, <1>1, <1>3, <1>6 DEF Recheck, ProducerPlaces
  <2>2. leaked' \subseteq Nat
    BY <1>6, ClaimedNat DEF Recheck, TypeInv, TypeOK
  <2>3. QED
    BY <1>6, <2>1, <2>2 DEF Recheck, TypeInv, TypeOK, shared, cvars
<1>7. CASE TryLoad(p)
  <2> DEFINE r == [c EXCEPT !.start = claim_cursor + 1]
  <2>1. r \in ProducerCalls
    BY <1>0 DEF ProducerCalls
  <2>2. /\ Live' = Live /\ ppc' \in [Producers -> ProducerPlaces]
        /\ call' \in [Producers -> ProducerCalls]
    <3>1. CASE Return(p)
      BY <1>3, <3>1
    <3>2. CASE Goto(p, "cas") /\ call' = [call EXCEPT ![p].start = claim_cursor + 1]
      <4>1. call' = [call EXCEPT ![p] = r]
        BY <1>0, <3>2
      <4>2. QED
        BY <1>1, <1>2, <2>1, <3>2, <4>1 DEF ProducerPlaces
    <3>3. QED
      BY <1>7, <3>1, <3>2 DEF TryLoad
  <2>3. QED
    BY <1>7, <2>2 DEF TryLoad, TypeInv, TypeOK, shared, cvars, observed
<1>8. CASE TryCas(p)
  <2> DEFINE r == [c EXCEPT !.tries = c.tries - 1]
  <2>1. /\ Live' = Live /\ ppc' \in [Producers -> ProducerPlaces]
        /\ call' \in [Producers -> ProducerCalls]
    <3>1. CASE Return(p)
      BY <1>3, <3>1
    <3>2. CASE Goto(p, "write") /\ UNCHANGED call
      BY <1>0, <1>1, <3>2 DEF ProducerPlaces
    <3>3. CASE /\ c.tries > 1 /\ Goto(p, "try")
               /\ call' = [call EXCEPT ![p].tries = call[p].tries - 1]
      <4>1. r \in ProducerCalls /\ call' = [call EXCEPT ![p] = r]
        BY <1>0, <3>3, BoundAssumption DEF ProducerCalls
      <4>2. QED
        BY <1>1, <1>2, <3>3, <4>1 DEF ProducerPlaces
    <3>4. QED
      BY <1>8, <3>1, <3>2, <3>3 DEF TryCas
  <2>2. claim_cursor' \in Int
    BY <1>0, <1>8 DEF TryCas
  <2>3. QED
    BY <1>8, <2>1, <2>2 DEF TryCas, TypeInv, TypeOK, cvars, observed
<1>9. CASE WriteSlots(p)
  <2>1. Live' = Live /\ ppc' \in [Producers -> ProducerPlaces]
    BY <1>1, <1>9 DEF WriteSlots, ProducerPlaces
  <2>2. slots' \in [0..(Capacity - 1) -> Int]
    <3>1. slots \in [0..(Capacity - 1) -> Int] /\ Claimed(p) \subseteq Int
      BY ClaimedNat DEF TypeInv, TypeOK
    <3>2. QED
      BY <1>9, <3>1 DEF WriteSlots
  <2>3. QED
    BY <1>9, <2>1, <2>2 DEF WriteSlots, TypeInv, TypeOK, cvars, observed
<1>10. CASE PublishWord(p)
  <2>1. PICK k \in 1..(c.n - c.done) :
          WordRun(p) = (c.start + c.done)..(c.start + c.done + k - 1) /\ Cardinality(WordRun(p)) = k
    BY <1>10, RunOfWord DEF PublishWord
  <2>2. /\ Live' = Live /\ ppc' \in [Producers -> ProducerPlaces]
        /\ call' \in [Producers -> ProducerCalls]
    <3>1. CASE Return(p)
      BY <1>3, <3>1
    <3>2. CASE UNCHANGED ppc /\ call' = [call EXCEPT ![p].done = c.done + k]
      <4> DEFINE r == [c EXCEPT !.done = c.done + k]
      <4>1. r \in ProducerCalls /\ call' = [call EXCEPT ![p] = r]
        BY <1>0, <3>2 DEF ProducerCalls
      <4>2. QED
        BY <1>2, <3>2, <4>1 DEF TypeInv, TypeOK, Live
    <3>3. QED
      BY <1>10, <2>1, <3>1, <3>2 DEF PublishWord
  <2>3. availability' \in [Words -> [Bits -> 0..1]]
    <3>1. availability \in [Words -> [Bits -> 0..1]]
      BY DEF TypeInv, TypeOK
    <3>2. \A w \in Words, b \in Bits : 1 - availability[w][b] \in 0..1
      BY <3>1
    <3>3. QED
      BY <1>10, <3>1, <3>2 DEF PublishWord, Flip
  <2>4. published' \subseteq Nat
    <3>1. WordRun(p) \subseteq Nat
      BY <1>0, <2>1
    <3>2. published' = published \cup WordRun(p) /\ published \subseteq Nat
      BY <1>10 DEF PublishWord, TypeInv, TypeOK
    <3>3. QED
      BY <3>1, <3>2
  <2>5. QED
    BY <1>10, <2>2, <2>3, <2>4 DEF PublishWord, TypeInv, TypeOK, cvars
<1>11. QED
  BY <1>4, <1>5, <1>6, <1>7, <1>8, <1>9, <1>10 DEF ProducerStep

LEMMA ProducerCallTypes ==
  ASSUME TypeInv, CursorInv, NEW p \in Producers, ProducerCall(p)
  PROVE  TypeInv'
<1>0. call \in [Producers -> ProducerCalls] /\ ppc \in [Producers -> ProducerPlaces]
  BY DEF TypeInv, TypeOK
<1>1. ASSUME NEW op \in ProducerOps, NEW n \in BatchSizes \cup {1}, BeginSend(p, op, n)
      PROVE  TypeInv'
  <2> DEFINE r == [NoSend EXCEPT !.op = op, !.n = n,
                                 !.tries = IF op \in TrySends THEN CasRetries ELSE 0]
  <2>1. n \in 1..Capacity /\ CasRetries \in 0..CasRetries /\ 0 \in 0..CasRetries
    BY CapacityAssumption, BatchAssumption, BoundAssumption
  <2>2. r \in ProducerCalls
    BY <2>1, NoCalls DEF ProducerCalls
  <2>3. call' \in [Producers -> ProducerCalls]
    BY <1>0, <1>1, <2>2 DEF BeginSend
  <2>4. Live' = Live /\ ppc' \in [Producers -> ProducerPlaces]
    BY <1>1, LiveKept DEF BeginSend, Goto, ProducerPlaces
  <2>5. QED
    BY <1>1, <2>3, <2>4 DEF BeginSend, TypeInv, TypeOK, shared, cvars, observed
<1>2. CASE ProducerClose(p)
  BY <1>2 DEF ProducerClose, StoreClosed, TypeInv, TypeOK, cvars, Live, Closers
<1>3. CASE ProducerDrop(p)
  <2>1. Live' = Live \ {p} /\ p \in Live
    BY <1>0, <1>3 DEF ProducerDrop, Live, Goto
  <2>2. IsFiniteSet(Live') /\ Cardinality(Live') = Cardinality(Live) - 1
    BY <2>1, FS_RemoveElement DEF TypeInv
  <2>3. ppc' \in [Producers -> ProducerPlaces]
    BY <1>0, <1>3 DEF ProducerDrop, Goto, ProducerPlaces
  <2>4. closed' \in BOOLEAN /\ closer' \in Closers /\ closed_pub' \subseteq Nat
    BY <1>3 DEF ProducerDrop, StoreClosed, TypeInv, TypeOK, Closers
  <2>5. freed' \in Seq(Int)
    BY <1>3, DropTypes DEF ProducerDrop, TypeInv, TypeOK
  <2>6. QED
    BY <1>3, <2>2, <2>3, <2>4, <2>5 DEF ProducerDrop, TypeInv, TypeOK, cvars
<1>4. ASSUME NEW q \in Producers, Clone(p, q)
      PROVE  TypeInv'
  <2>1. Live' = Live \cup {q} /\ q \notin Live
    BY <1>0, <1>4 DEF Clone, Live, Goto
  <2>2. IsFiniteSet(Live') /\ Cardinality(Live') = Cardinality(Live) + 1
    BY <2>1, FS_AddElement DEF TypeInv
  <2>3. ppc' \in [Producers -> ProducerPlaces]
    BY <1>0, <1>4 DEF Clone, Goto, ProducerPlaces
  <2>4. QED
    BY <1>4, <2>2, <2>3 DEF Clone, TypeInv, TypeOK, cvars, observed
<1>5. QED
  BY <1>1, <1>2, <1>3, <1>4 DEF ProducerCall

(* What the consumer takes of what highest_published has found. *)
LEMMA FoundEffect ==
  ASSUME TypeInv, NEW c \in ConsumerCalls, c.read = 0, NEW h \in Int, Found(c, h)
  PROVE  /\ ccall' \in ConsumerCalls /\ cpc' \in {"read", "check", "idle"}
         /\ result' \in {"none", "ok"}
         /\ cpc' = "read" => ccall'.read = 0 /\ c_next + ccall'.count - 1 <= h
<1>0. c_next \in Nat /\ c.limit \in Nat
  BY CapacityAssumption DEF TypeInv, TypeOK, ConsumerCalls
<1>1. CASE h >= c_next
  <2> DEFINE n == Take(c.op, c.limit, h - c_next + 1)
  <2>1. n \in Nat /\ n <= h - c_next + 1
    BY <1>0, <1>1 DEF Take
  <2>2. cpc' = "read" /\ ccall' = [c EXCEPT !.count = n] /\ result' = "none"
    BY <1>1 DEF Found
  <2> HIDE DEF n
  <2>3. ccall' \in ConsumerCalls /\ ccall'.count = n /\ ccall'.read = 0
    BY <2>1, <2>2 DEF ConsumerCalls
  <2>4. QED
    BY <1>0, <2>1, <2>2, <2>3
<1>2. CASE ~(h >= c_next)
  BY <1>2, NoCalls DEF Found, ReturnRecv
<1>3. QED
  BY <1>1, <1>2

(* The call of a batch receive that begins. *)
NewScan(op, limit) ==
  [NoRecv EXCEPT !.op = op, !.limit = limit, !.claim = claim_cursor, !.scan = c_next]

LEMMA ScanCall ==
  ASSUME TypeInv, NEW op \in ConsumerOps, NEW limit \in 1..Capacity
  PROVE  /\ NewScan(op, limit) \in ConsumerCalls /\ NewScan(op, limit).read = 0
         /\ NewScan(op, limit).scan = c_next
  BY NoCalls DEF TypeInv, TypeOK, NewScan, NoRecv, ConsumerCalls

(* What the steps of the consumer that leave the ring alone do. *)
LEMMA LookEffect ==
  ASSUME RingFillsWords, TypeInv, BitInv, NEW op \in ConsumerOps, Look(op)
  PROVE  /\ ccall' \in ConsumerCalls /\ cpc' \in {"read", "check"} /\ result' = "none"
         /\ cpc' = "read" => /\ ccall'.read = 0
                             /\ c_next..(c_next + ccall'.count - 1) \subseteq published
<1>0. c_next \in Nat /\ Capacity \in Nat \ {0}
  BY CapacityAssumption DEF TypeInv, TypeOK
<1>1. is_published(c_next) => c_next \in published
  BY <1>0 DEF BitInv
<1> DEFINE n == IF is_published(c_next) THEN 1 ELSE 0
<1>2. /\ cpc' = IF is_published(c_next) THEN "read" ELSE "check"
      /\ ccall' = [NoRecv EXCEPT !.op = op, !.count = n]
  BY DEF Look
<1>3. n \in Nat /\ (cpc' = "read" => n = 1)
  BY <1>2
<1> HIDE DEF n
<1>4. ccall' \in ConsumerCalls /\ ccall'.count = n /\ ccall'.read = 0
  BY <1>2, <1>3, NoCalls DEF NoRecv, ConsumerCalls
<1>5. QED
  BY <1>0, <1>1, <1>2, <1>3, <1>4 DEF Look

LEMMA ScanEffect ==
  ASSUME RingFillsWords, TypeInv, NEW op \in ConsumerOps, NEW limit \in 1..Capacity,
         ScanBegin(op, limit)
  PROVE  /\ ccall' \in ConsumerCalls /\ cpc' \in {"read", "check", "idle", "scan"}
         /\ result' \in {"none", "ok"}
         /\ cpc' = "read" => /\ ccall'.read = 0
                             /\ c_next..(c_next + ccall'.count - 1) \subseteq published
         /\ cpc' = "scan" => /\ ccall'.read = 0 /\ ccall'.scan = c_next
<1> DEFINE c == NewScan(op, limit)
<1>0. c_next \in Nat /\ c_next - 1 \in Int
  BY DEF TypeInv, TypeOK
<1>1. c \in ConsumerCalls /\ c.read = 0 /\ c.scan = c_next
  BY ScanCall
<1>2. IF c_next > claim_cursor THEN Found(c, c_next - 1)
                               ELSE cpc' = "scan" /\ ccall' = c /\ result' = "none"
  BY DEF ScanBegin, NewScan
<1> HIDE DEF c
<1>3. CASE Found(c, c_next - 1)
  <2>1. /\ ccall' \in ConsumerCalls /\ cpc' \in {"read", "check", "idle"}
        /\ result' \in {"none", "ok"}
        /\ cpc' = "read" => ccall'.read = 0 /\ c_next + ccall'.count - 1 <= c_next - 1
    BY <1>0, <1>1, <1>3, FoundEffect
  <2>2. ccall'.count \in Nat
    BY <2>1 DEF ConsumerCalls
  <2>3. QED
    BY <1>0, <2>1, <2>2
<1>4. QED
  BY <1>1, <1>2, <1>3

LEMMA ScanWordEffect ==
  ASSUME RingFillsWords, TypeInv, CursorInv, BitInv, ReadInv, ScanWord
  PROVE  /\ ccall' \in ConsumerCalls /\ cpc' \in {"read", "check", "idle", "scan"}
         /\ result' \in Results /\ (result' # "recv_error" \/ result' = result)
         /\ cpc' = "read" => /\ ccall'.read = 0
                             /\ c_next..(c_next + ccall'.count - 1) \subseteq published
         /\ cpc' = "scan" => /\ ccall'.read = 0 /\ ccall'.scan >= c_next
                             /\ c_next..(ccall'.scan - 1) \subseteq published
<1> DEFINE s == ccall.scan
           next == Advance(s)
<1>0. /\ c_next \in Nat /\ ccall \in ConsumerCalls /\ s \in Nat /\ ccall.read = 0
      /\ s >= c_next /\ c_next..(s - 1) \subseteq published
  BY DEF TypeInv, TypeOK, ConsumerCalls, ReadInv, ScanWord
<1>1. next \in Nat /\ next >= s /\ c_next..(next - 1) \subseteq published
  BY <1>0, AdvanceOverPublished
<1>2. \/ Found(ccall, next - 1)
      \/ ccall' = [ccall EXCEPT !.scan = next] /\ UNCHANGED <<cpc, result>>
  BY DEF ScanWord
<1> HIDE DEF next, s
<1>3. CASE Found(ccall, next - 1)
  <2>1. next - 1 \in Int
    BY <1>1
  <2>2. /\ ccall' \in ConsumerCalls /\ cpc' \in {"read", "check", "idle"}
        /\ result' \in {"none", "ok"}
        /\ cpc' = "read" => ccall'.read = 0 /\ c_next + ccall'.count - 1 <= next - 1
    BY <1>0, <1>3, <2>1, FoundEffect
  <2>3. ccall'.count \in Nat
    BY <2>2 DEF ConsumerCalls
  <2>4. QED
    BY <1>0, <1>1, <2>2, <2>3 DEF Results
<1>4. CASE ccall' = [ccall EXCEPT !.scan = next] /\ UNCHANGED <<cpc, result>>
  <2>1. ccall' \in ConsumerCalls /\ ccall'.scan = next /\ ccall'.read = 0
    BY <1>0, <1>1, <1>4 DEF ConsumerCalls
  <2>2. cpc' = "scan" /\ result' = result /\ result \in Results
    BY <1>4 DEF ScanWord, TypeInv, TypeOK
  <2>3. QED
    BY <1>0, <1>1, <2>1, <2>2
<1>5. QED
  BY <1>2, <1>3, <1>4

(***************************************************************************)
(* The steps of the consumer                                               *)
(***************************************************************************)

(* A step that leaves the ring alone. *)
LEMMA QuietConsumer ==
  ASSUME RingInv, UNCHANGED <<shared, ppc, call, c_next, published, delivered, moved,
                              polled, closer, closed_pub, leaked, freed>>,
         cpc # "read", cpc' \in ConsumerPlaces, ccall' \in ConsumerCalls, result' \in Results,
         cpc' = "read" => /\ ccall'.read = 0
                          /\ c_next..(c_next + ccall'.count - 1) \subseteq published,
         cpc' = "scan" => /\ ccall'.read = 0 /\ ccall'.scan >= c_next
                          /\ c_next..(ccall'.scan - 1) \subseteq published
  PROVE  RingInv'
<1>1. TypeInv'
  BY DEF RingInv, TypeInv, TypeOK, shared, Live
<1>2. CursorInv' /\ BitInv'
  BY DEF RingInv, CursorInv, BitInv, is_published, shared
<1>3. ClaimInv' /\ SlotInv'
  BY DEF RingInv, ClaimInv, SlotInv, shared, Claimed
<1>4. Taken = 0 /\ Taken' = 0
  BY DEF Taken
<1>5. ReadInv'
  <2>1. cpc' = "read" => ccall'.read <= ccall'.count
    BY DEF ConsumerCalls
  <2>2. QED
    BY <1>4, <2>1 DEF RingInv, ReadInv
<1>6. QED
  BY <1>1, <1>2, <1>3, <1>5 DEF RingInv

LEMMA ReadSlotRing ==
  ASSUME RingFillsWords, RingInv, ReadSlot
  PROVE  RingInv'
<1> DEFINE c == ccall
<1>0. /\ c \in ConsumerCalls /\ c.read \in Nat /\ c.count \in Nat /\ c_next \in Nat
      /\ delivered \in Seq(Int) /\ cpc = "read" /\ c.read < c.count
      /\ ccall' = [ccall EXCEPT !.read = c.read + 1] /\ UNCHANGED <<cpc, c_next>>
  BY DEF RingInv, TypeInv, TypeOK, ConsumerCalls, ReadSlot
<1>1. /\ ccall' \in ConsumerCalls /\ ccall'.read = c.read + 1 /\ ccall'.count = c.count
      /\ ccall'.op = c.op
  <2>1. c.read + 1 \in Nat
    BY <1>0
  <2>2. ASSUME NEW x \in Nat, NEW k \in ConsumerCalls
        PROVE  LET n == [k EXCEPT !.read = x] IN
               n \in ConsumerCalls /\ n.read = x /\ n.count = k.count /\ n.op = k.op
    BY DEF ConsumerCalls
  <2>3. QED
    BY <1>0, <2>1, <2>2
<1>2. c_next + c.read \in published /\ c_next..(c_next + c.count - 1) \subseteq published
  <2>1. c_next..(c_next + c.count - 1) \subseteq published
    BY <1>0 DEF RingInv, ReadInv
  <2>2. c_next + c.read \in c_next..(c_next + c.count - 1)
    BY <1>0
  <2>3. QED
    BY <2>1, <2>2
<1>3. slots[Index(c_next + c.read)] = c_next + c.read
  BY <1>0, <1>2 DEF RingInv, SlotInv
<1>4. delivered' = IF c.op = "peek" THEN delivered ELSE Append(delivered, c_next + c.read)
  BY <1>3 DEF ReadSlot, HandOver
<1>5. /\ Len(delivered) = c_next + (IF c.op = "peek" THEN 0 ELSE c.read)
      /\ \A i \in 1..Len(delivered) : delivered[i] = i - 1
  BY <1>0 DEF RingInv, ReadInv, Taken
<1>6. /\ Len(delivered') = c_next + (IF c.op = "peek" THEN 0 ELSE c.read + 1)
      /\ \A i \in 1..Len(delivered') : delivered'[i] = i - 1
      /\ delivered' \in Seq(Int)
  <2>1. CASE c.op = "peek"
    BY <1>0, <1>4, <1>5, <2>1
  <2>2. CASE c.op # "peek"
    <3>1. delivered' = Append(delivered, c_next + c.read) /\ Len(delivered) = c_next + c.read
      BY <1>4, <1>5, <2>2
    <3>2. QED
      BY <1>0, <1>5, <2>2, <3>1
  <2>3. QED
    BY <2>1, <2>2
<1>7. ReadInv'
  <2>1. cpc' = "read" /\ Taken' = IF c.op = "peek" THEN 0 ELSE c.read + 1
    BY <1>0, <1>1 DEF Taken
  <2>2. UNCHANGED <<published, c_next>> /\ c.read + 1 <= c.count
    BY <1>0 DEF ReadSlot, shared
  <2>3. QED
    BY <1>1, <1>2, <1>6, <2>1, <2>2 DEF ReadInv
<1>12. moved' \in Seq(Int) /\ polled' \subseteq Int
  <2>1. c_next + c.read \in Int /\ moved \in Seq(Int) /\ polled \subseteq Int
    BY <1>0 DEF RingInv, TypeInv, TypeOK
  <2>2. /\ moved' = moved \/ moved' = Append(moved, c_next + c.read)
        /\ polled' = polled \/ polled' = polled \cup {c_next + c.read}
    BY <1>3 DEF ReadSlot, HandOver
  <2>3. moved' \in Seq(Int)
    BY <2>1, <2>2
  <2>4. polled' \subseteq Int
    BY <2>1, <2>2
  <2>5. QED
    BY <2>3, <2>4
<1>8. TypeInv'
  BY <1>0, <1>1, <1>6, <1>12 DEF RingInv, TypeInv, TypeOK, ReadSlot, shared, Live
<1>9. CursorInv' /\ BitInv'
  BY <1>0 DEF RingInv, CursorInv, BitInv, is_published, shared, ReadSlot
<1>10. ClaimInv' /\ SlotInv'
  BY <1>0 DEF RingInv, ClaimInv, SlotInv, shared, Claimed, ReadSlot
<1>11. QED
  BY <1>7, <1>8, <1>9, <1>10 DEF RingInv

(* The bits of the round that the consumer enters are those of the one     *)
(* that it leaves, with the other meaning.                                 *)
LEMMA CommitRing ==
  ASSUME RingFillsWords, RingInv, Commit
  PROVE  RingInv'
<1> DEFINE n == IF ccall.op = "peek" THEN 0 ELSE ccall.count
<1>0. /\ c_next \in Nat /\ n \in Nat /\ ccall.count \in Nat /\ Capacity \in Nat \ {0}
      /\ published \subseteq Nat
  BY CapacityAssumption DEF RingInv, TypeInv, TypeOK, ConsumerCalls
<1>1. c_next' = c_next + n /\ consumer_cursor' = c_next' - 1
  BY <1>0 DEF RingInv, CursorInv, Commit
<1>2. c_next..(c_next + n - 1) \subseteq published
  BY <1>0 DEF RingInv, ReadInv, Commit
<1>3. Len(delivered) = c_next + n
  BY <1>0 DEF RingInv, ReadInv, Taken, Commit
<1> HIDE DEF n
<1>4. /\ UNCHANGED <<slots, claim_cursor, availability, producer_count, closed, ppc, call,
                     published, delivered, moved, polled, closer, closed_pub,
                     leaked, freed>>
      /\ cpc' = "idle" /\ ccall' = NoRecv /\ result' = "ok"
  BY DEF Commit, ReturnRecv
<1>5. TypeInv'
  <2>1. /\ c_next' \in Nat /\ consumer_cursor' \in Int /\ cpc' \in ConsumerPlaces
        /\ ccall' \in ConsumerCalls /\ result' \in Results
    BY <1>0, <1>1, <1>4, NoCalls DEF ConsumerPlaces, Results
  <2>2. QED
    BY <1>4, <2>1 DEF RingInv, TypeInv, TypeOK, Live
<1>6. CursorInv'
  BY <1>0, <1>1, <1>2, <1>4 DEF RingInv, CursorInv
<1>7. ClaimInv'
  <2>1. \A p \in Producers : Claimed(p)' = Claimed(p)
    BY <1>4 DEF Claimed
  <2>2. \A p \in Producers : call[p].start \in Nat /\ call[p].n \in Nat
    BY CapacityAssumption DEF RingInv, TypeInv, TypeOK, ProducerCalls
  <2>3. QED
    BY <1>0, <1>1, <1>4, <2>1, <2>2 DEF RingInv, ClaimInv
<1>8. SlotInv'
  BY <1>0, <1>1, <1>4 DEF RingInv, SlotInv, Claimed
<1>9. ReadInv'
  BY <1>1, <1>3, <1>4 DEF RingInv, ReadInv, Taken
<1>10. BitInv'
  <2>1. ASSUME NEW s \in c_next'..(c_next' + Capacity - 1)
        PROVE  is_published(s) <=> s \in published
    <3>1. s \in Nat /\ s >= c_next /\ s <= c_next + n + Capacity - 1
      BY <1>0, <1>1
    <3>2. n <= Capacity
      <4>1. CASE n > Capacity
        <5>1. c_next + Capacity \in published
          BY <1>0, <1>2, <4>1
        <5>2. QED
          BY <1>0, <5>1 DEF RingInv, CursorInv
      <4>2. QED
        BY <1>0, <4>1
    <3>3. s >= c_next + Capacity =>
            s - Capacity < c_next + Capacity /\ s - Capacity \in published
      BY <1>0, <1>2, <3>1, <3>2
    <3>4. QED
      BY <3>1, <3>3, BitsTrue DEF RingInv
  <2>2. QED
    BY <1>4, <2>1 DEF BitInv, is_published
<1>11. QED
  BY <1>5, <1>6, <1>7, <1>8, <1>9, <1>10 DEF RingInv

LEMMA ConsumerRing ==
  ASSUME RingFillsWords, RingInv, ConsumerStep \/ ConsumerCall
  PROVE  RingInv'
<1> USE DEF ConsumerPlaces, Results
<1>0. /\ cpc \in ConsumerPlaces /\ ccall \in ConsumerCalls /\ result \in Results
      /\ ccall.op \in ConsumerOps /\ ccall.limit \in 1..Capacity
  BY DEF RingInv, TypeInv, TypeOK, ConsumerCalls
<1>1. ASSUME NEW op \in ConsumerOps, Look(op) PROVE RingInv'
  <2>1. /\ ccall' \in ConsumerCalls /\ cpc' \in {"read", "check"} /\ result' = "none"
        /\ cpc' = "read" => /\ ccall'.read = 0
                            /\ c_next..(c_next + ccall'.count - 1) \subseteq published
    BY <1>1, LookEffect DEF RingInv
  <2>2. /\ UNCHANGED <<shared, ppc, call, c_next, published, delivered, moved,
                       polled, closer, closed_pub, leaked, freed>>
        /\ cpc # "read"
    BY <1>1 DEF Look
  <2>3. QED
    BY <2>1, <2>2, QuietConsumer
<1>2. ASSUME NEW op \in ConsumerOps, NEW limit \in 1..Capacity, ScanBegin(op, limit)
      PROVE  RingInv'
  <2>1. /\ ccall' \in ConsumerCalls /\ cpc' \in {"read", "check", "idle", "scan"}
        /\ result' \in {"none", "ok"}
        /\ cpc' = "read" => /\ ccall'.read = 0
                            /\ c_next..(c_next + ccall'.count - 1) \subseteq published
        /\ cpc' = "scan" => /\ ccall'.read = 0 /\ ccall'.scan = c_next
    BY <1>2, ScanEffect DEF RingInv
  <2>2. /\ UNCHANGED <<shared, ppc, call, c_next, published, delivered, moved,
                       polled, closer, closed_pub, leaked, freed>>
        /\ cpc # "read"
    BY <1>2 DEF ScanBegin
  <2>3. c_next..(c_next - 1) \subseteq published /\ c_next >= c_next
    BY DEF RingInv, TypeInv, TypeOK
  <2>4. QED
    BY <2>1, <2>2, <2>3, QuietConsumer
<1>3. CASE ScanWord
  <2>1. /\ ccall' \in ConsumerCalls /\ cpc' \in {"read", "check", "idle", "scan"}
        /\ result' \in Results
        /\ cpc' = "read" => /\ ccall'.read = 0
                            /\ c_next..(c_next + ccall'.count - 1) \subseteq published
        /\ cpc' = "scan" => /\ ccall'.read = 0 /\ ccall'.scan >= c_next
                            /\ c_next..(ccall'.scan - 1) \subseteq published
    BY <1>3, ScanWordEffect DEF RingInv
  <2>2. /\ UNCHANGED <<shared, ppc, call, c_next, published, delivered, moved,
                       polled, closer, closed_pub, leaked, freed>>
        /\ cpc # "read"
    BY <1>3 DEF ScanWord
  <2>3. QED
    BY <2>1, <2>2, QuietConsumer
<1>4. CASE CheckDisconnect \/ FinalCheck
  <2>1. /\ UNCHANGED <<shared, ppc, call, c_next, published, delivered, moved,
                       polled, closer, closed_pub, leaked, freed>>
        /\ cpc # "read"
    BY <1>4 DEF CheckDisconnect, FinalCheck
  <2>2. /\ ccall' \in ConsumerCalls /\ cpc' \in ConsumerPlaces \ {"read", "scan"}
        /\ result' \in Results
    BY <1>0, <1>4, NoCalls DEF CheckDisconnect, FinalCheck, ReturnRecv
  <2>3. QED
    BY <2>1, <2>2, QuietConsumer
<1>5. CASE ConsumerClose \/ ConsumerDrop
  <2>1. /\ UNCHANGED <<slots, claim_cursor, consumer_cursor, availability, producer_count,
                       ppc, call, ccall, c_next, published, delivered, moved, polled,
                       result, leaked>>
        /\ cpc = "idle" /\ cpc' \in {"idle", "dropped"}
    BY <1>5 DEF ConsumerClose, ConsumerDrop, cvars
  <2>2. closed' \in BOOLEAN /\ closer' \in Closers /\ closed_pub' \subseteq Nat
    BY <1>5 DEF ConsumerClose, ConsumerDrop, StoreClosed, RingInv, TypeInv, TypeOK, Closers
  <2>3. freed' \in Seq(Int)
    BY <1>5, DropTypes DEF ConsumerClose, ConsumerDrop, RingInv, TypeInv, TypeOK
  <2>4. TypeInv'
    BY <2>1, <2>2, <2>3 DEF RingInv, TypeInv, TypeOK, Live
  <2>5. CursorInv' /\ BitInv'
    BY <2>1 DEF RingInv, CursorInv, BitInv, is_published
  <2>6. ClaimInv' /\ SlotInv'
    BY <2>1 DEF RingInv, ClaimInv, SlotInv, Claimed
  <2>7. ReadInv'
    BY <2>1 DEF RingInv, ReadInv, Taken
  <2>8. QED
    BY <2>4, <2>5, <2>6, <2>7 DEF RingInv
<1>6. SingleRecvs \subseteq ConsumerOps /\ BatchRecvs \subseteq ConsumerOps
      /\ BatchSizes \subseteq 1..Capacity
  BY BatchAssumption DEF ConsumerOps
<1>7. QED
  BY <1>0, <1>1, <1>2, <1>3, <1>4, <1>5, <1>6, ReadSlotRing, CommitRing
  DEF ConsumerStep, ConsumerCall

(***************************************************************************)
(* The steps of a producer                                                 *)
(***************************************************************************)

(* A step that claims nothing, and publishes nothing. *)
LEMMA QuietProducer ==
  ASSUME RingInv, TypeInv', NEW p \in Producers, NEW x, NEW r,
         ppc' = [ppc EXCEPT ![p] = x], call' = [call EXCEPT ![p] = r],
         UNCHANGED <<slots, claim_cursor, consumer_cursor, availability, cvars,
                     published, delivered>>, r.done = 0,
         x \in Holding =>
           x # "publish" /\ ppc[p] \in Holding \ {"publish"} /\ r = call[p],
         x \in Granted => r.start + r.n <= c_next + Capacity,
         x = "cas" => r.start + r.n <= MaxEvents
  PROVE  RingInv'
<1>0. /\ ppc \in [Producers -> ProducerPlaces] /\ call \in [Producers -> ProducerCalls]
  BY DEF RingInv, TypeInv, TypeOK
<1>1. /\ ppc'[p] = x /\ call'[p] = r
      /\ \A q \in Producers : q # p => ppc'[q] = ppc[q] /\ call'[q] = call[q]
  BY <1>0
<1>2. \A q \in Producers : q # p => Claimed(q)' = Claimed(q)
  BY <1>1 DEF Claimed
<1>3. Claimed(p)' = Claimed(p) \/ Claimed(p)' = {}
  BY <1>1 DEF Claimed, Holding
<1>4. ClaimInv'
  <2>1. \A q, t \in Producers :
          /\ Claimed(q)' \cap published' = {}
          /\ q # t => Claimed(q)' \cap Claimed(t)' = {}
    BY <1>2, <1>3 DEF RingInv, ClaimInv
  <2>2. ASSUME NEW q \in Producers
        PROVE  /\ ppc'[q] \in Holding =>
                    /\ call'[q].start + call'[q].n - 1 <= claim_cursor'
                    /\ call'[q].done < call'[q].n
               /\ ppc'[q] # "publish" => call'[q].done = 0
               /\ ppc'[q] \in Granted => call'[q].start + call'[q].n <= c_next' + Capacity
               /\ ppc'[q] = "cas" => call'[q].start + call'[q].n <= MaxEvents
    <3>1. CASE q = p
      BY <1>1, <3>1 DEF RingInv, ClaimInv, cvars
    <3>2. CASE q # p
      BY <1>1, <3>2 DEF RingInv, ClaimInv, cvars
    <3>3. QED
      BY <3>1, <3>2
  <2>3. QED
    BY <2>1, <2>2 DEF ClaimInv
<1>5. SlotInv'
  BY <1>1, <1>2 DEF RingInv, SlotInv, Holding, cvars
<1>6. CursorInv' /\ BitInv' /\ ReadInv'
  BY DEF RingInv, CursorInv, BitInv, ReadInv, is_published, Taken, cvars
<1>7. QED
  BY <1>4, <1>5, <1>6 DEF RingInv

(* What is claimed has not been claimed before. *)
LEMMA ClaimRing ==
  ASSUME RingInv, TypeInv', NEW p \in Producers, NEW x \in {"space", "write"}, NEW r,
         ppc[p] \notin Holding, ppc' = [ppc EXCEPT ![p] = x], call' = [call EXCEPT ![p] = r],
         r.start = claim_cursor + 1, r.done = 0, claim_cursor' = claim_cursor + r.n,
         claim_cursor' < MaxEvents,
         x = "write" => r.start + r.n <= c_next + Capacity,
         UNCHANGED <<slots, consumer_cursor, availability, cvars, published, delivered>>
  PROVE  RingInv'
<1>0. /\ ppc \in [Producers -> ProducerPlaces] /\ call \in [Producers -> ProducerCalls]
      /\ claim_cursor \in Int /\ claim_cursor >= -1 /\ MaxEvents \in Nat
      /\ \A q \in Producers : call[q].start \in Nat /\ call[q].n \in Nat /\ call[q].done \in Nat
  <2>1. /\ ppc \in [Producers -> ProducerPlaces] /\ call \in [Producers -> ProducerCalls]
        /\ claim_cursor \in Int /\ MaxEvents \in Nat
    BY BoundAssumption DEF RingInv, TypeInv, TypeOK
  <2>2. claim_cursor >= -1
    BY <2>1 DEF RingInv, CursorInv
  <2>3. QED
    BY <2>1, <2>2, CapacityAssumption DEF ProducerCalls
<1>1. /\ ppc'[p] = x /\ call'[p] = r
      /\ \A q \in Producers : q # p => ppc'[q] = ppc[q] /\ call'[q] = call[q]
  BY <1>0
<1>2. r.n \in Nat /\ r.n > 0
  <2>1. call'[p] \in ProducerCalls
    BY DEF TypeInv, TypeOK
  <2>2. QED
    BY <1>1, <2>1, CapacityAssumption DEF ProducerCalls
<1>3. \A q \in Producers : q # p => Claimed(q)' = Claimed(q)
  BY <1>1 DEF Claimed
<1>4. Claimed(p)' = (claim_cursor + 1)..(claim_cursor + r.n)
  BY <1>0, <1>1, <1>2 DEF Claimed
<1>5. \A q \in Producers : Claimed(q) \subseteq 0..claim_cursor
  BY <1>0 DEF Claimed, RingInv, ClaimInv, Holding
<1>6. ClaimInv'
  <2>1. \A q, t \in Producers :
          /\ Claimed(q)' \cap published' = {}
          /\ q # t => Claimed(q)' \cap Claimed(t)' = {}
    <3>1. Claimed(p)' \cap (0..claim_cursor) = {}
      BY <1>0, <1>2, <1>4
    <3>2. published' = published /\ published \subseteq 0..claim_cursor
      BY DEF RingInv, CursorInv
    <3>3. \A q \in Producers : Claimed(q) \cap published = {}
      BY DEF RingInv, ClaimInv
    <3>4. \A q, t \in Producers : q # t => Claimed(q) \cap Claimed(t) = {}
      BY DEF RingInv, ClaimInv
    <3>5. \A q \in Producers : Claimed(q)' \cap published' = {}
      BY <1>3, <3>1, <3>2, <3>3
    <3>6. ASSUME NEW q \in Producers, NEW t \in Producers, q # t
          PROVE  Claimed(q)' \cap Claimed(t)' = {}
      <4>1. CASE q = p
        BY <1>3, <1>5, <3>1, <3>6, <4>1
      <4>2. CASE t = p
        BY <1>3, <1>5, <3>1, <3>6, <4>2
      <4>3. CASE q # p /\ t # p
        BY <1>3, <3>4, <3>6, <4>3
      <4>4. QED
        BY <4>1, <4>2, <4>3
    <3>7. QED
      BY <3>5, <3>6
  <2>2. ASSUME NEW q \in Producers
        PROVE  /\ ppc'[q] \in Holding =>
                    /\ call'[q].start + call'[q].n - 1 <= claim_cursor'
                    /\ call'[q].done < call'[q].n
               /\ ppc'[q] # "publish" => call'[q].done = 0
               /\ ppc'[q] \in Granted => call'[q].start + call'[q].n <= c_next' + Capacity
               /\ ppc'[q] = "cas" => call'[q].start + call'[q].n <= MaxEvents
    <3>1. CASE q = p
      BY <1>0, <1>1, <1>2, <3>1 DEF Granted, cvars
    <3>2. CASE q # p
      BY <1>0, <1>1, <1>2, <3>2 DEF RingInv, ClaimInv, cvars
    <3>3. QED
      BY <3>1, <3>2
  <2>3. QED
    BY <2>1, <2>2 DEF ClaimInv
<1>7. SlotInv'
  BY <1>1, <1>3 DEF RingInv, SlotInv, cvars
<1>8. CursorInv'
  BY <1>0, <1>2 DEF RingInv, CursorInv, cvars
<1>9. BitInv' /\ ReadInv'
  BY DEF RingInv, BitInv, ReadInv, is_published, Taken, cvars
<1>10. QED
  BY <1>6, <1>7, <1>8, <1>9 DEF RingInv

(* A slot that may be written is nobody else's. *)
LEMMA SlotsApart ==
  ASSUME RingInv, NEW p \in Producers, ppc[p] \in {"write", "publish"}, NEW s \in Claimed(p)
  PROVE  /\ s \in Nat /\ s \in c_next..(c_next + Capacity - 1) /\ s \notin published
         /\ \A q \in Producers \ {p} : ppc[q] \in {"write", "publish"} =>
              \A t \in Claimed(q) : Index(t) # Index(s)
         /\ \A t \in published : t >= c_next => Index(t) # Index(s)
         /\ \A t \in Claimed(p) : Index(t) = Index(s) => t = s
<1>0. c_next \in Nat /\ Capacity \in Nat \ {0} /\ published \subseteq Nat
  BY CapacityAssumption DEF RingInv, TypeInv, TypeOK
<1>1. ASSUME NEW q \in Producers, ppc[q] \in {"write", "publish"}, NEW t \in Claimed(q)
      PROVE  t \in Nat /\ t >= c_next /\ t < c_next + Capacity /\ t \notin published
  <2>1. t \in Nat /\ t \notin published
    BY <1>1, ClaimedNat DEF RingInv, ClaimInv
  <2>2. t <= call[q].start + call[q].n - 1 /\ call[q].start \in Nat /\ call[q].n \in Nat
    BY <1>1, CapacityAssumption DEF Claimed, RingInv, TypeInv, TypeOK, ProducerCalls
  <2>3. call[q].start + call[q].n <= c_next + Capacity
    BY <1>1 DEF RingInv, ClaimInv, Granted
  <2>4. t >= c_next
    <3>1. CASE t < c_next
      BY <1>0, <2>1, <3>1 DEF RingInv, CursorInv
    <3>2. QED
      BY <1>0, <2>1, <3>1
  <2>5. QED
    BY <1>0, <2>1, <2>2, <2>3, <2>4
<1>2. s \in Nat /\ s >= c_next /\ s < c_next + Capacity /\ s \notin published
  BY <1>1
<1>3. ASSUME NEW t \in Nat, t >= c_next, t < c_next + Capacity, Index(t) = Index(s)
      PROVE  t = s
  BY <1>0, <1>2, <1>3, IndexInjective
<1>4. ASSUME NEW q \in Producers \ {p}, ppc[q] \in {"write", "publish"}, NEW t \in Claimed(q)
      PROVE  Index(t) # Index(s)
  <2>1. t # s
    BY <1>4 DEF RingInv, ClaimInv
  <2>2. t \in Nat /\ t >= c_next /\ t < c_next + Capacity
    BY <1>1, <1>4
  <2>3. QED
    BY <1>3, <2>1, <2>2
<1>5. ASSUME NEW t \in published, t >= c_next PROVE Index(t) # Index(s)
  <2>1. t \in Nat /\ t < c_next + Capacity /\ t # s
    BY <1>0, <1>2, <1>5 DEF RingInv, CursorInv
  <2>2. QED
    BY <1>3, <1>5, <2>1
<1>6. \A t \in Claimed(p) : Index(t) = Index(s) => t = s
  BY <1>1, <1>3
<1>7. s \in c_next..(c_next + Capacity - 1)
  BY <1>0, <1>2
<1>8. QED
  BY <1>2, <1>4, <1>5, <1>6, <1>7

LEMMA WriteRing ==
  ASSUME RingFillsWords, RingInv, TypeInv', NEW p \in Producers, WriteSlots(p)
  PROVE  RingInv'
<1>0. ppc \in [Producers -> ProducerPlaces] /\ ppc[p] = "write"
      /\ slots \in [0..(Capacity - 1) -> Int] /\ published \subseteq Nat
  BY DEF RingInv, TypeInv, TypeOK, WriteSlots
<1>1. /\ ppc'[p] = "publish" /\ call' = call
      /\ \A q \in Producers : q # p => ppc'[q] = ppc[q]
      /\ UNCHANGED <<claim_cursor, consumer_cursor, availability, cvars, published, delivered>>
  BY <1>0 DEF WriteSlots, Goto, observed
<1>2. \A q \in Producers : Claimed(q)' = Claimed(q)
  BY <1>0, <1>1 DEF Claimed
<1>3. ASSUME NEW s \in Claimed(p) PROVE slots'[Index(s)] = s
  <2>1. Index(s) \in DOMAIN slots
    BY <1>0, <1>3, IndexInRing, ClaimedNat DEF RingInv
  <2>2. \A t \in Claimed(p) : Index(t) = Index(s) => t = s
    BY <1>0, <1>3, SlotsApart
  <2>3. slots'[Index(s)] = CHOOSE t \in Claimed(p) : Index(t) = Index(s)
    BY <1>3, <2>1 DEF WriteSlots
  <2>4. (CHOOSE t \in Claimed(p) : Index(t) = Index(s)) = s
    BY <1>3, <2>2
  <2>5. QED
    BY <2>3, <2>4
<1>4. ASSUME NEW i \in DOMAIN slots, \A s \in Claimed(p) : Index(s) # i
      PROVE  slots'[i] = slots[i]
  BY <1>4 DEF WriteSlots
<1>5. SlotInv'
  <2>1. ASSUME NEW s \in published, s >= c_next PROVE slots'[Index(s)] = s
    <3>1. \A t \in Claimed(p) : Index(t) # Index(s)
      BY <1>0, <2>1, SlotsApart
    <3>2. Index(s) \in DOMAIN slots
      BY <1>0, <2>1, IndexInRing
    <3>3. QED
      BY <1>4, <2>1, <3>1, <3>2 DEF RingInv, SlotInv
  <2>2. ASSUME NEW q \in Producers, q # p, ppc[q] = "publish", NEW s \in Claimed(q)
        PROVE  slots'[Index(s)] = s
    <3>1. \A t \in Claimed(p) : Index(t) # Index(s)
      BY <1>0, <2>2, SlotsApart
    <3>2. Index(s) \in DOMAIN slots
      BY <1>0, <2>2, IndexInRing, ClaimedNat DEF RingInv
    <3>3. QED
      BY <1>4, <2>2, <3>1, <3>2 DEF RingInv, SlotInv
  <2>3. QED
    BY <1>1, <1>2, <1>3, <2>1, <2>2 DEF SlotInv, cvars
<1>6. ClaimInv'
  <2>1. \A q \in Producers : ppc'[q] = ppc[q] \/ (ppc[q] = "write" /\ ppc'[q] = "publish")
    BY <1>0, <1>1
  <2>2. QED
    BY <1>1, <1>2, <2>1 DEF RingInv, ClaimInv, Holding, Granted, cvars
<1>7. CursorInv' /\ BitInv' /\ ReadInv'
  BY <1>1 DEF RingInv, CursorInv, BitInv, ReadInv, is_published, Taken, cvars
<1>8. QED
  BY <1>5, <1>6, <1>7 DEF RingInv

(* The effect of a publication on the claims. *)
LEMMA PublishClaims ==
  ASSUME RingInv, NEW p \in Producers, PublishWord(p)
  PROVE  /\ WordRun(p) \subseteq Claimed(p)
         /\ Claimed(p)' = Claimed(p) \ WordRun(p)
         /\ \A q \in Producers : q # p =>
              Claimed(q)' = Claimed(q) /\ ppc'[q] = ppc[q] /\ call'[q] = call[q]
         /\ \/ ppc'[p] = "idle" /\ call'[p].done = 0
            \/ /\ ppc'[p] = "publish" /\ call'[p].start = call[p].start
               /\ call'[p].n = call[p].n /\ call'[p].done < call'[p].n
<1> DEFINE c == call[p]
           first == c.start + c.done
<1>0. /\ c \in ProducerCalls /\ c.start \in Nat /\ c.n \in Nat /\ c.done \in Nat
      /\ call \in [Producers -> ProducerCalls] /\ ppc \in [Producers -> ProducerPlaces]
  BY CallNumbers DEF RingInv, TypeInv, TypeOK
<1>1. ppc[p] = "publish"
  BY DEF PublishWord
<1>2. PICK k \in 1..(c.n - c.done) :
        WordRun(p) = first..(first + k - 1) /\ Cardinality(WordRun(p)) = k
  BY <1>1, RunOfWord DEF RingInv
<1>3. Claimed(p) = first..(c.start + c.n - 1)
  BY <1>1 DEF Claimed
<1>4. WordRun(p) \subseteq Claimed(p)
  BY <1>0, <1>2, <1>3
<1>5. CASE WordRun(p) = Claimed(p)
  <2>1. /\ ppc' = [ppc EXCEPT ![p] = "idle"] /\ call' = [call EXCEPT ![p] = NoSend]
    BY <1>5 DEF PublishWord, Return, Goto
  <2>2. /\ ppc'[p] = "idle" /\ call'[p].done = 0
        /\ \A q \in Producers : q # p => ppc'[q] = ppc[q] /\ call'[q] = call[q]
    BY <1>0, <2>1 DEF NoSend
  <2>3. QED
    BY <1>4, <1>5, <2>2 DEF Claimed
<1>6. CASE WordRun(p) # Claimed(p)
  <2>1. ppc' = ppc /\ call' = [call EXCEPT ![p].done = c.done + k]
    BY <1>2, <1>6 DEF PublishWord
  <2>2. /\ call'[p] = [c EXCEPT !.done = c.done + k]
        /\ \A q \in Producers : q # p => call'[q] = call[q]
    BY <1>0, <2>1
  <2>3. /\ call'[p].start = c.start /\ call'[p].n = c.n /\ call'[p].done = c.done + k
    BY <1>0, <2>2 DEF ProducerCalls
  <2>4. k < c.n - c.done
    BY <1>0, <1>2, <1>3, <1>6
  <2>5. Claimed(p)' = (first + k)..(c.start + c.n - 1)
    BY <1>0, <1>1, <2>1, <2>3 DEF Claimed
  <2>6. Claimed(p)' = Claimed(p) \ WordRun(p)
    BY <1>0, <1>2, <1>3, <2>5
  <2>7. \A q \in Producers : q # p => Claimed(q)' = Claimed(q)
    BY <2>1, <2>2 DEF Claimed
  <2>8. QED
    BY <1>0, <1>1, <1>4, <2>1, <2>2, <2>3, <2>4, <2>6, <2>7
<1>7. QED
  BY <1>5, <1>6

(* Flipping the bits of the claim makes them say `published', and leaves   *)
(* all others of the round as they are.                                    *)
LEMMA PublishBits ==
  ASSUME RingFillsWords, RingInv, NEW p \in Producers, PublishWord(p)
  PROVE  BitInv'
<1> DEFINE first == call[p].start + call[p].done
           w == word_index(first)
           R == WordRun(p)
<1>0. /\ c_next \in Nat /\ Capacity \in Nat \ {0}
      /\ availability \in [Words -> [Bits -> 0..1]] /\ ppc[p] = "publish"
  BY CapacityAssumption DEF RingInv, TypeInv, TypeOK, PublishWord
<1>1. R \subseteq Claimed(p) /\ \A s \in R : word_index(s) = w
  <2>1. \A s \in R : s \in first..s
    BY <1>0, ClaimedNat, CapacityAssumption
    DEF WordRun, Claimed, RingInv, TypeInv, TypeOK, ProducerCalls
  <2>2. QED
    BY <2>1 DEF WordRun
<1>2. \A s \in R : s \in Nat /\ s \in c_next..(c_next + Capacity - 1) /\ s \notin published
  BY <1>0, <1>1, SlotsApart
<1>3. w \in Words
  <2>1. first \in Nat
    BY CapacityAssumption DEF RingInv, TypeInv, TypeOK, ProducerCalls
  <2>2. QED
    BY <2>1, Coordinates
<1>4. availability' = [availability EXCEPT ![w] =
         [b \in Bits |-> IF b \in {bit_index(s) : s \in R}
                           THEN 1 - availability[w][b] ELSE availability[w][b]]]
  BY DEF PublishWord, Flip
<1>5. published' = published \cup R /\ c_next' = c_next
  BY DEF PublishWord, cvars
<1> HIDE DEF R, w
<1>6. ASSUME NEW s \in c_next..(c_next + Capacity - 1)
      PROVE  availability'[word_index(s)][bit_index(s)] = expected_bit(s) <=> s \in published \cup R
  <2>0. s \in Nat /\ bit_index(s) \in Bits /\ word_index(s) \in Words
    BY <1>0, Coordinates
  <2>1. BitOf(s) \in 0..1 /\ expected_bit(s) \in 0..1
    BY <2>0, BitOfType DEF RingInv
  <2>2. BitOf(s) = expected_bit(s) <=> s \in published
    BY <1>0 DEF RingInv, BitInv, is_published, BitOf
  <2>3. CASE s \in R
    <3>1. word_index(s) = w /\ s \notin published
      BY <1>1, <1>2, <2>3
    <3>2. bit_index(s) \in {bit_index(t) : t \in R}
      BY <2>3
    <3>3. availability'[w][bit_index(s)] = 1 - availability[w][bit_index(s)]
      BY <1>0, <1>3, <1>4, <2>0, <3>2
    <3>4. availability'[word_index(s)][bit_index(s)] = 1 - BitOf(s)
      BY <3>1, <3>3 DEF BitOf
    <3>5. QED
      BY <2>1, <2>2, <2>3, <3>1, <3>4
  <2>4. CASE s \notin R
    <3>1. ~(word_index(s) = w /\ bit_index(s) \in {bit_index(t) : t \in R})
      <4>1. SUFFICES ASSUME word_index(s) = w, NEW t \in R, bit_index(s) = bit_index(t)
                     PROVE  FALSE
        OBVIOUS
      <4>2. t \in Nat /\ t >= c_next /\ t < c_next + Capacity /\ word_index(t) = w
        BY <1>0, <1>1, <1>2
      <4>3. Index(s) = Index(t)
        BY <2>0, <4>1, <4>2, BitOfSlot
      <4>4. s >= c_next /\ s < c_next + Capacity
        BY <1>0
      <4>5. s = t
        <5>1. s \in Int /\ t \in Int /\ c_next \in Int
          BY <1>0, <2>0, <4>2
        <5>2. QED
          BY <4>2, <4>3, <4>4, <5>1, IndexInjective, Zenon
      <4>6. QED
        BY <2>4, <4>5
    <3>2. availability'[word_index(s)][bit_index(s)] = availability[word_index(s)][bit_index(s)]
      BY <1>0, <1>3, <1>4, <2>0, <3>1
    <3>3. QED
      BY <2>2, <2>4, <3>2 DEF BitOf
  <2>5. QED
    BY <2>3, <2>4
<1>7. QED
  BY <1>5, <1>6 DEF BitInv, is_published, word_index, bit_index, expected_bit

LEMMA PublishRing ==
  ASSUME RingFillsWords, RingInv, TypeInv', NEW p \in Producers, PublishWord(p)
  PROVE  RingInv'
<1> DEFINE R == WordRun(p)
<1>0. /\ c_next \in Nat /\ Capacity \in Nat \ {0} /\ ppc[p] = "publish" /\ claim_cursor \in Int
      /\ call[p].start \in Nat /\ call[p].n \in Nat /\ call[p].done \in Nat
  BY CapacityAssumption, CallNumbers DEF RingInv, TypeInv, TypeOK, PublishWord
<1>1. /\ R \subseteq Claimed(p) /\ Claimed(p)' = Claimed(p) \ R
      /\ \A q \in Producers : q # p =>
           Claimed(q)' = Claimed(q) /\ ppc'[q] = ppc[q] /\ call'[q] = call[q]
      /\ \/ ppc'[p] = "idle" /\ call'[p].done = 0
         \/ /\ ppc'[p] = "publish" /\ call'[p].start = call[p].start
            /\ call'[p].n = call[p].n /\ call'[p].done < call'[p].n
  BY PublishClaims
<1>2. /\ published' = published \cup R
      /\ UNCHANGED <<slots, claim_cursor, consumer_cursor, cvars, delivered>>
  BY DEF PublishWord
<1> HIDE DEF R
<1>3. \A s \in R : s \in Nat /\ s \in c_next..(c_next + Capacity - 1)
  BY <1>0, <1>1, SlotsApart
<1>4. CursorInv'
  <2>1. R \subseteq 0..claim_cursor
    <3>1. call[p].start + call[p].n - 1 <= claim_cursor
      BY <1>0 DEF RingInv, ClaimInv, Holding
    <3>2. Claimed(p) \subseteq 0..claim_cursor
      BY <1>0, <3>1 DEF Claimed
    <3>3. QED
      BY <1>1, <3>2
  <2>2. \A s \in R : s < c_next + Capacity
    BY <1>0, <1>3
  <2>3. QED
    BY <1>2, <2>1, <2>2 DEF RingInv, CursorInv, cvars
<1>5. ClaimInv'
  <2>1. \A q, t \in Producers : q # t => Claimed(q)' \cap Claimed(t)' = {}
    <3>1. \A q \in Producers : Claimed(q)' \subseteq Claimed(q)
      BY <1>1
    <3>2. \A q, t \in Producers : q # t => Claimed(q) \cap Claimed(t) = {}
      BY DEF RingInv, ClaimInv
    <3>3. QED
      BY <3>1, <3>2
  <2>2. \A q \in Producers : Claimed(q)' \cap published' = {}
    <3>1. \A q \in Producers : Claimed(q) \cap published = {}
      BY DEF RingInv, ClaimInv
    <3>2. \A q \in Producers : q # p => Claimed(q) \cap Claimed(p) = {}
      BY DEF RingInv, ClaimInv
    <3>3. ASSUME NEW q \in Producers PROVE Claimed(q)' \cap published' = {}
      <4>1. CASE q = p
        BY <1>1, <1>2, <3>1, <4>1
      <4>2. CASE q # p
        BY <1>1, <1>2, <3>1, <3>2, <4>2
      <4>3. QED
        BY <4>1, <4>2
    <3>4. QED
      BY <3>3
  <2>3. ASSUME NEW q \in Producers
        PROVE  /\ ppc'[q] \in Holding =>
                    /\ call'[q].start + call'[q].n - 1 <= claim_cursor'
                    /\ call'[q].done < call'[q].n
               /\ ppc'[q] # "publish" => call'[q].done = 0
               /\ ppc'[q] \in Granted => call'[q].start + call'[q].n <= c_next' + Capacity
               /\ ppc'[q] = "cas" => call'[q].start + call'[q].n <= MaxEvents
    <3>1. CASE q = p
      BY <1>0, <1>1, <1>2, <3>1 DEF RingInv, ClaimInv, Holding, Granted, cvars
    <3>2. CASE q # p
      BY <1>1, <1>2, <3>2 DEF RingInv, ClaimInv, cvars
    <3>3. QED
      BY <3>1, <3>2
  <2>4. QED
    BY <2>1, <2>2, <2>3 DEF ClaimInv
<1>6. SlotInv'
  <2>1. \A s \in published : s >= c_next => slots[Index(s)] = s
    BY DEF RingInv, SlotInv
  <2>2. \A q \in Producers : ppc[q] = "publish" => \A s \in Claimed(q) : slots[Index(s)] = s
    BY DEF RingInv, SlotInv
  <2>3. \A s \in published' : s >= c_next => slots[Index(s)] = s
    BY <1>0, <1>1, <1>2, <2>1, <2>2
  <2>4. \A q \in Producers : ppc'[q] = "publish" => \A s \in Claimed(q)' : slots[Index(s)] = s
    BY <1>0, <1>1, <2>2
  <2>5. QED
    BY <1>2, <2>3, <2>4 DEF SlotInv, cvars
<1>7. ReadInv'
  BY <1>2 DEF RingInv, ReadInv, Taken, cvars
<1>8. QED
  BY <1>4, <1>5, <1>6, <1>7, PublishBits DEF RingInv

LEMMA ProducerRing ==
  ASSUME RingFillsWords, RingInv, NEW p \in Producers, ProducerStep(p)
  PROVE  RingInv'
<1> DEFINE c == call[p]
<1>0. /\ c \in ProducerCalls /\ c.start \in Nat /\ c.n \in Nat /\ claim_cursor \in Int
      /\ consumer_cursor \in Int /\ c_next \in Nat /\ consumer_cursor = c_next - 1
      /\ Capacity \in Nat \ {0} /\ MaxEvents \in Nat
      /\ call \in [Producers -> ProducerCalls] /\ ppc \in [Producers -> ProducerPlaces]
  BY CapacityAssumption, BoundAssumption
  DEF RingInv, TypeInv, TypeOK, ProducerCalls, CursorInv
<1>1. TypeInv' /\ NoSend.done = 0 /\ (ppc[p] # "publish" => c.done = 0)
  BY ProducerTypes DEF RingInv, NoSend, ClaimInv
<1> USE DEF Goto
<1>2. CASE FetchAdd(p)
  <2> DEFINE r == [c EXCEPT !.start = claim_cursor + 1]
  <2>1. /\ ppc[p] = "claim" /\ ppc' = [ppc EXCEPT ![p] = "space"]
        /\ call' = [call EXCEPT ![p] = r]
        /\ claim_cursor' = claim_cursor + c.n /\ claim_cursor' < MaxEvents
        /\ UNCHANGED <<slots, consumer_cursor, availability, cvars, published, delivered>>
    BY <1>0, <1>2 DEF FetchAdd, observed
  <2>2. r.start = claim_cursor + 1 /\ r.n = c.n /\ r.done = c.done
    BY <1>0 DEF ProducerCalls
  <2>3. QED
    BY <1>1, <2>1, <2>2, ClaimRing DEF Holding
<1>3. CASE WaitSpace(p)
  <2> DEFINE x == IF consumer_cursor >= WrapPoint(c.start, c.n) THEN "write" ELSE "recheck"
  <2>1. /\ ppc[p] = "space" /\ ppc' = [ppc EXCEPT ![p] = x] /\ call' = [call EXCEPT ![p] = c]
        /\ UNCHANGED <<slots, claim_cursor, consumer_cursor, availability, cvars,
                       published, delivered>>
    BY <1>0, <1>3 DEF WaitSpace, shared, observed
  <2>2. x \in {"write", "recheck"} /\ (x = "write" => c.start + c.n <= c_next + Capacity)
    BY <1>0 DEF WrapPoint
  <2> HIDE DEF x
  <2>3. QED
    BY <1>1, <2>1, <2>2, QuietProducer DEF Holding, Granted
<1>4. CASE Recheck(p)
  <2>1. /\ ppc[p] = "recheck"
        /\ UNCHANGED <<slots, claim_cursor, consumer_cursor, availability, cvars,
                       published, delivered>>
    BY <1>4 DEF Recheck, shared
  <2>2. CASE Return(p)
    BY <1>1, <2>1, <2>2, QuietProducer DEF Holding, Granted, Return
  <2>3. CASE Goto(p, "space") /\ UNCHANGED call
    <3>1. call' = [call EXCEPT ![p] = c]
      BY <1>0, <2>3
    <3>2. QED
      BY <1>1, <2>1, <2>3, <3>1, QuietProducer DEF Holding, Granted
  <2>4. QED
    BY <1>4, <2>2, <2>3 DEF Recheck
<1>5. CASE TryLoad(p)
  <2>1. UNCHANGED <<slots, claim_cursor, consumer_cursor, availability, cvars,
                    published, delivered>>
    BY <1>5 DEF TryLoad, shared, observed
  <2>5. ppc[p] = "try"
    BY <1>5 DEF TryLoad
  <2>2. CASE Return(p)
    BY <1>1, <2>1, <2>2, QuietProducer DEF Holding, Granted, Return
  <2>3. CASE /\ consumer_cursor >= WrapPoint(claim_cursor + 1, c.n)
             /\ Goto(p, "cas") /\ call' = [call EXCEPT ![p].start = claim_cursor + 1]
    <3> DEFINE r == [c EXCEPT !.start = claim_cursor + 1]
    <3>1. call' = [call EXCEPT ![p] = r] /\ r.start = claim_cursor + 1 /\ r.n = c.n
          /\ r.done = c.done
      BY <1>0, <2>3 DEF ProducerCalls
    <3>2. claim_cursor + c.n < MaxEvents
      BY <1>5 DEF TryLoad
    <3> HIDE DEF r
    <3>3. r.start + r.n <= c_next + Capacity /\ r.start + r.n <= MaxEvents
      BY <1>0, <2>3, <3>1, <3>2 DEF WrapPoint
    <3>4. QED
      BY <1>1, <2>1, <2>3, <2>5, <3>1, <3>3, QuietProducer DEF Holding, Granted
  <2>4. QED
    BY <1>5, <2>2, <2>3 DEF TryLoad
<1>6. CASE TryCas(p)
  <2>0. /\ ppc[p] = "cas"
        /\ UNCHANGED <<slots, consumer_cursor, availability, cvars, published, delivered>>
    BY <1>6 DEF TryCas, observed
  <2>1. CASE /\ claim_cursor = c.start - 1 /\ claim_cursor' = claim_cursor + c.n
             /\ Goto(p, "write") /\ UNCHANGED call
    <3>1. c.start + c.n <= c_next + Capacity /\ c.start + c.n <= MaxEvents /\ c.done = 0
      BY <1>1, <2>0 DEF RingInv, ClaimInv, Granted
    <3>2. call' = [call EXCEPT ![p] = c]
      BY <1>0, <2>1
    <3>3. c.start = claim_cursor + 1 /\ claim_cursor' < MaxEvents
      BY <1>0, <2>1, <3>1
    <3>4. QED
      BY <1>1, <2>0, <2>1, <3>1, <3>2, <3>3, ClaimRing DEF Holding
  <2>2. CASE UNCHANGED claim_cursor /\ Return(p)
    BY <1>1, <2>0, <2>2, QuietProducer DEF Holding, Granted, Return
  <2>3. CASE /\ UNCHANGED claim_cursor /\ Goto(p, "try")
             /\ call' = [call EXCEPT ![p].tries = call[p].tries - 1]
    <3> DEFINE r == [c EXCEPT !.tries = c.tries - 1]
    <3>1. call' = [call EXCEPT ![p] = r] /\ r.done = c.done
      BY <1>0, <2>3 DEF ProducerCalls
    <3>2. QED
      BY <1>1, <2>0, <2>3, <3>1, QuietProducer DEF Holding, Granted
  <2>4. QED
    BY <1>6, <2>1, <2>2, <2>3 DEF TryCas
<1>7. QED
  BY <1>1, <1>2, <1>3, <1>4, <1>5, <1>6, WriteRing, PublishRing DEF ProducerStep

LEMMA ProducerCallRing ==
  ASSUME RingInv, NEW p \in Producers, ProducerCall(p)
  PROVE  RingInv'
<1>0. call \in [Producers -> ProducerCalls] /\ ppc \in [Producers -> ProducerPlaces]
  BY DEF RingInv, TypeInv, TypeOK
<1>1. TypeInv' /\ \A q \in Producers : ppc[q] # "publish" => call[q].done = 0
  BY ProducerCallTypes DEF RingInv, ClaimInv
<1>2. ASSUME NEW op \in ProducerOps, NEW n \in BatchSizes \cup {1}, BeginSend(p, op, n)
      PROVE  RingInv'
  <2>1. PICK x \in {"claim", "try"} : ppc' = [ppc EXCEPT ![p] = x]
    BY <1>2 DEF BeginSend, Goto
  <2> DEFINE r == [NoSend EXCEPT !.op = op, !.n = n,
                                 !.tries = IF op \in TrySends THEN CasRetries ELSE 0]
  <2>2. call' = [call EXCEPT ![p] = r] /\ r.done = 0
    BY <1>2 DEF BeginSend, NoSend
  <2> HIDE DEF r
  <2>3. UNCHANGED <<slots, claim_cursor, consumer_cursor, availability, cvars,
                    published, delivered>>
    BY <1>2 DEF BeginSend, shared, observed
  <2>4. QED
    BY <1>1, <2>1, <2>2, <2>3, QuietProducer DEF Holding, Granted
<1>3. CASE ProducerClose(p) \/ ProducerDrop(p)
  <2>1. PICK x \in {"idle", "dropped"} : ppc' = [ppc EXCEPT ![p] = x]
    BY <1>0, <1>3 DEF ProducerClose, ProducerDrop, Goto
  <2>2. call' = [call EXCEPT ![p] = call[p]] /\ ppc[p] = "idle"
    BY <1>0, <1>3 DEF ProducerClose, ProducerDrop
  <2>3. UNCHANGED <<slots, claim_cursor, consumer_cursor, availability, cvars,
                    published, delivered>>
    BY <1>3 DEF ProducerClose, ProducerDrop
  <2>4. QED
    BY <1>1, <2>1, <2>2, <2>3, QuietProducer DEF Holding, Granted
<1>4. ASSUME NEW q \in Producers, Clone(p, q) PROVE RingInv'
  <2>1. ppc' = [ppc EXCEPT ![q] = "idle"] /\ call' = [call EXCEPT ![q] = call[q]]
    BY <1>0, <1>4 DEF Clone, Goto
  <2>2. UNCHANGED <<slots, claim_cursor, consumer_cursor, availability, cvars,
                    published, delivered>>
    BY <1>4 DEF Clone, observed
  <2>3. QED
    BY <1>1, <1>4, <2>1, <2>2, QuietProducer DEF Holding, Granted, Clone
<1>5. QED
  BY <1>2, <1>3, <1>4 DEF ProducerCall

(***************************************************************************)
(* The ring                                                                *)
(***************************************************************************)
LEMMA RingInit == RingFillsWords /\ Init => RingInv
<1> SUFFICES ASSUME RingFillsWords, Init PROVE RingInv
  OBVIOUS
<1>0. /\ c_next = 0 /\ claim_cursor = -1 /\ consumer_cursor = -1 /\ published = {}
      /\ delivered = <<>> /\ cpc = "idle"
      /\ Capacity \in Nat \ {0} /\ MaxEvents \in Nat
  BY CapacityAssumption, BoundAssumption DEF Init
<1>1. TypeInv
  BY InitTypes
<1>2. CursorInv
  BY <1>0 DEF CursorInv
<1>3. \A p \in Producers : ppc[p] \in {"idle", "unborn"} /\ call[p].done = 0
  BY DEF Init, NoSend
<1>4. \A p \in Producers : Claimed(p) = {}
  BY <1>3 DEF Claimed
<1>5. ClaimInv /\ SlotInv
  BY <1>0, <1>3, <1>4 DEF ClaimInv, SlotInv, Holding, Granted
<1>6. ReadInv
  BY <1>0 DEF ReadInv, Taken
<1>7. BitInv
  <2>1. ASSUME NEW s \in 0..(Capacity - 1) PROVE ~is_published(s)
    <3>1. s \in Nat /\ word_index(s) \in Words /\ bit_index(s) \in Bits
      BY <1>0, Coordinates
    <3>2. availability[word_index(s)][bit_index(s)] = 1
      BY <3>1 DEF Init
    <3>3. s \div Capacity = 0
      <4>1. s = Capacity * 0 + s
        BY <1>0
      <4>2. (Capacity * 0 + s) \div Capacity = 0
        BY <1>0, DivisionUnique
      <4>3. QED
        BY <4>1, <4>2
    <3>4. expected_bit(s) = 0
      BY <3>3 DEF expected_bit
    <3>5. QED
      BY <3>2, <3>4 DEF is_published
  <2>2. QED
    BY <1>0, <2>1 DEF BitInv
<1>8. QED
  BY <1>1, <1>2, <1>5, <1>6, <1>7 DEF RingInv

LEMMA RingStep ==
  ASSUME RingFillsWords, RingInv, [Next]_vars
  PROVE  RingInv'
<1>1. CASE Next
  BY <1>1, ConsumerRing, ProducerRing, ProducerCallRing DEF Next
<1>2. CASE UNCHANGED vars
  <2>1. TypeInv'
    BY <1>2 DEF RingInv, TypeInv, TypeOK, vars, shared, cvars, observed, Live
  <2>2. CursorInv' /\ BitInv'
    BY <1>2 DEF RingInv, CursorInv, BitInv, is_published, vars, shared, cvars, observed
  <2>3. ClaimInv' /\ SlotInv'
    BY <1>2 DEF RingInv, ClaimInv, SlotInv, Claimed, vars, shared, cvars, observed
  <2>4. ReadInv'
    BY <1>2 DEF RingInv, ReadInv, Taken, vars, shared, cvars, observed
  <2>5. QED
    BY <2>1, <2>2, <2>3, <2>4 DEF RingInv
<1>3. QED
  BY <1>1, <1>2

LEMMA RingAlways == ASSUME RingFillsWords PROVE Spec => []RingInv
<1>1. Init => RingInv
  BY RingInit
<1>2. RingInv /\ [Next]_vars => RingInv'
  BY RingStep
<1>3. QED
  BY <1>1, <1>2, PTL DEF Spec

(* Every variable keeps the type that Shared, Producer and Consumer give   *)
(* it, and producer_count counts the live handles.                         *)
THEOREM TypeCorrect == ASSUME RingFillsWords PROVE Spec => []TypeOK
<1>1. RingInv => TypeOK
  BY DEF RingInv, TypeInv
<1>2. QED
  BY <1>1, RingAlways, PTL

(* A slot that a producer is about to fill belongs to no other producer    *)
(* and holds no event that the consumer has yet to take: the exclusive     *)
(* access that the unsafe blocks of send and get_mut rely on, for any      *)
(* number of producers.                                                    *)
THEOREM ExclusiveSlots == ASSUME RingFillsWords PROVE Spec => []NoSlotRace
<1>1. RingInv => NoSlotRace
  BY SlotsApart DEF NoSlotRace
<1>2. QED
  BY <1>1, RingAlways, PTL

(* The consumer gets the events in the order of their sequences and only   *)
(* published ones: a bit of the bitmap is never mistaken for the one of    *)
(* another round, and a scan never runs over a gap.                        *)
THEOREM InOrderDelivery == ASSUME RingFillsWords PROVE Spec => []DeliveredInOrder
<1>1. RingInv => DeliveredInOrder
  <2> SUFFICES ASSUME RingInv, NEW i \in 1..Len(delivered)
               PROVE  delivered[i] = i - 1 /\ i - 1 \in published
    BY DEF DeliveredInOrder
  <2>1. delivered[i] = i - 1 /\ Len(delivered) = c_next + Taken
    BY DEF RingInv, ReadInv
  <2>2. c_next \in Nat /\ Taken \in Nat /\ ccall.count \in Nat /\ ccall.read \in Nat
    BY DEF RingInv, TypeInv, TypeOK, ConsumerCalls, Taken
  <2>3. Len(delivered) \in Nat
    BY <2>1, <2>2
  <2>4. i - 1 \in published
    <3>1. CASE i - 1 < c_next
      BY <2>2, <2>3, <3>1 DEF RingInv, CursorInv
    <3>2. CASE i - 1 >= c_next
      <4>1. cpc = "read" /\ Taken = ccall.read
        BY <2>1, <2>2, <2>3, <3>2 DEF Taken
      <4>2. i - 1 \in c_next..(c_next + ccall.count - 1)
        BY <2>1, <2>2, <2>3, <3>2, <4>1 DEF RingInv, ReadInv
      <4>3. QED
        BY <4>1, <4>2 DEF RingInv, ReadInv
    <3>3. QED
      BY <2>2, <2>3, <3>1, <3>2
  <2>5. QED
    BY <2>1, <2>4
<1>2. QED
  BY <1>1, RingAlways, PTL

(***************************************************************************)
(* Closing the channel                                                     *)
(***************************************************************************)
LEMMA ClaimsOfOthers ==
  ASSUME TypeInv, NEW p \in Producers, NEW x, NEW r,
         ppc' = [ppc EXCEPT ![p] = x], call' = [call EXCEPT ![p] = r]
  PROVE  \A q \in Producers : q # p => Claimed(q)' = Claimed(q)
<1>1. ppc \in [Producers -> ProducerPlaces] /\ call \in [Producers -> ProducerCalls]
  BY DEF TypeInv, TypeOK
<1>2. QED
  BY <1>1 DEF Claimed

(* A producer step that neither claims nor publishes keeps its claim, or   *)
(* gives it up after close.                                                *)
LEMMA QuietAccount ==
  ASSUME Accounted, UNCHANGED claim_cursor,
         published \subseteq published', leaked \subseteq leaked',
         \A q \in Producers : Claimed(q) \subseteq Claimed(q)' \cup published' \cup leaked'
  PROVE  Accounted'
  BY DEF Accounted

LEMMA ClaimAccount ==
  ASSUME RingInv, Accounted, NEW p \in Producers, NEW x \in {"space", "write"}, NEW r,
         ppc[p] \notin Holding, ppc' = [ppc EXCEPT ![p] = x], call' = [call EXCEPT ![p] = r],
         r.start = claim_cursor + 1, r.done = 0, r.n \in Nat, claim_cursor' = claim_cursor + r.n,
         UNCHANGED <<published, leaked>>
  PROVE  Accounted'
<1>1. ppc \in [Producers -> ProducerPlaces] /\ call \in [Producers -> ProducerCalls]
      /\ claim_cursor \in Int
  BY DEF RingInv, TypeInv, TypeOK
<1>2. Claimed(p) = {}
  BY DEF Claimed, Holding
<1>3. ppc'[p] = x /\ call'[p] = r
  BY <1>1
<1>4. Claimed(p)' = (claim_cursor + 1)..claim_cursor'
  <2>1. Claimed(p)' = (r.start + r.done)..(r.start + r.n - 1)
    BY <1>3 DEF Claimed
  <2>2. QED
    BY <1>1, <2>1
<1>5. \A q \in Producers : q # p => Claimed(q)' = Claimed(q)
  BY ClaimsOfOthers DEF RingInv
<1>6. ASSUME NEW s \in 0..claim_cursor'
      PROVE  s \in published' \cup leaked' \/ \E q \in Producers : s \in Claimed(q)'
  <2>1. CASE s \in 0..claim_cursor
    BY <1>2, <1>5, <2>1 DEF Accounted
  <2>2. CASE s \notin 0..claim_cursor
    <3>1. s \in Claimed(p)'
      BY <1>1, <1>4, <2>2
    <3>2. QED
      BY <3>1
  <2>3. QED
    BY <2>1, <2>2
<1>7. QED
  BY <1>6 DEF Accounted

LEMMA ProducerAccount ==
  ASSUME RingInv, Accounted, NEW p \in Producers, ProducerStep(p)
  PROVE  Accounted'
<1> DEFINE c == call[p]
<1>0. /\ c \in ProducerCalls /\ c.n \in Nat /\ claim_cursor \in Int
      /\ call \in [Producers -> ProducerCalls] /\ ppc \in [Producers -> ProducerPlaces]
      /\ (ppc[p] # "publish" => c.done = 0) /\ c.start \in Nat
  BY CapacityAssumption DEF RingInv, TypeInv, TypeOK, ProducerCalls, ClaimInv
<1> USE DEF Goto
<1>1. CASE FetchAdd(p)
  <2> DEFINE r == [c EXCEPT !.start = claim_cursor + 1]
  <2>1. /\ ppc[p] = "claim" /\ ppc' = [ppc EXCEPT ![p] = "space"]
        /\ call' = [call EXCEPT ![p] = r] /\ claim_cursor' = claim_cursor + c.n
        /\ UNCHANGED <<published, leaked>>
    BY <1>0, <1>1 DEF FetchAdd, observed
  <2>2. r.start = claim_cursor + 1 /\ r.n = c.n /\ r.done = c.done
    BY <1>0 DEF ProducerCalls
  <2>3. QED
    BY <1>0, <2>1, <2>2, ClaimAccount DEF Holding
<1>2. CASE TryCas(p) /\ claim_cursor' # claim_cursor
  <2>1. /\ ppc[p] = "cas" /\ ppc' = [ppc EXCEPT ![p] = "write"]
        /\ call' = [call EXCEPT ![p] = c] /\ claim_cursor' = claim_cursor + c.n
        /\ c.start = claim_cursor + 1 /\ UNCHANGED <<published, leaked>>
    BY <1>0, <1>2 DEF TryCas, observed
  <2>2. QED
    BY <1>0, <2>1, ClaimAccount DEF Holding
<1>3. CASE PublishWord(p)
  BY <1>3, PublishClaims, QuietAccount DEF PublishWord
<1>4. CASE Recheck(p)
  <2>1. /\ ppc[p] = "recheck" /\ UNCHANGED <<claim_cursor, published>>
        /\ leaked \subseteq leaked'
    BY <1>4 DEF Recheck, shared
  <2>2. \A q \in Producers : q # p => Claimed(q)' = Claimed(q)
    BY <1>0, <1>4 DEF Recheck, Return, Claimed
  <2>3. Claimed(p) \subseteq Claimed(p)' \cup leaked'
    <3>1. CASE leaked' = leaked \cup Claimed(p)
      BY <3>1
    <3>2. CASE ppc' = [ppc EXCEPT ![p] = "space"] /\ UNCHANGED call
      BY <1>0, <2>1, <3>2 DEF Claimed
    <3>3. QED
      BY <1>4, <3>1, <3>2 DEF Recheck
  <2>4. \A q \in Producers : Claimed(q) \subseteq Claimed(q)' \cup published' \cup leaked'
    BY <2>2, <2>3
  <2>5. QED
    BY <2>1, <2>4, QuietAccount
<1>5. CASE WaitSpace(p) \/ WriteSlots(p)
  <2>1. UNCHANGED <<claim_cursor, published, leaked, call>>
    BY <1>5 DEF WaitSpace, WriteSlots, shared, observed
  <2>2. ppc[p] \in Holding /\ ppc'[p] \in Holding /\ \A q \in Producers : q # p => ppc'[q] = ppc[q]
    BY <1>0, <1>5 DEF WaitSpace, WriteSlots, Holding
  <2>3. \A q \in Producers : Claimed(q)' = Claimed(q)
    BY <2>1, <2>2 DEF Claimed, Holding
  <2>4. QED
    BY <2>1, <2>3, QuietAccount
<1>6. CASE TryLoad(p) \/ (TryCas(p) /\ claim_cursor' = claim_cursor)
  <2>1. UNCHANGED <<claim_cursor, published, leaked>> /\ ppc[p] \in {"try", "cas"}
    BY <1>6 DEF TryLoad, TryCas, shared, observed
  <2>2. Claimed(p) = {}
    BY <2>1 DEF Claimed
  <2>3. \A q \in Producers : q # p => ppc'[q] = ppc[q] /\ call'[q] = call[q]
    BY <1>0, <1>6 DEF TryLoad, TryCas, Return
  <2>4. \A q \in Producers : q # p => Claimed(q)' = Claimed(q)
    BY <2>3 DEF Claimed
  <2>5. QED
    BY <2>1, <2>2, <2>4, QuietAccount
<1>7. QED
  BY <1>1, <1>2, <1>3, <1>4, <1>5, <1>6 DEF ProducerStep

LEMMA AccountStep ==
  ASSUME RingInv, Accounted, [Next]_vars
  PROVE  Accounted'
<1>0. call \in [Producers -> ProducerCalls] /\ ppc \in [Producers -> ProducerPlaces]
  BY DEF RingInv, TypeInv, TypeOK
<1>1. ASSUME NEW p \in Producers, ProducerCall(p) PROVE Accounted'
  <2>1. UNCHANGED <<claim_cursor, published, leaked>>
    BY <1>1 DEF ProducerCall, BeginSend, ProducerClose, ProducerDrop, Clone, shared, observed
  <2>2. ASSUME NEW q \in Producers
        PROVE  ppc[q] \notin Holding \/ (ppc'[q] = ppc[q] /\ call'[q] = call[q])
    BY <1>0, <1>1
    DEF ProducerCall, BeginSend, ProducerClose, ProducerDrop, Clone, Goto, Holding
  <2>3. \A q \in Producers : Claimed(q) \subseteq Claimed(q)'
    BY <2>2 DEF Claimed, Holding
  <2>4. QED
    BY <2>1, <2>3, QuietAccount
<1>2. CASE ConsumerStep \/ ConsumerCall \/ UNCHANGED vars
  <2>1. UNCHANGED <<claim_cursor, published, leaked, ppc, call>>
    BY <1>2 DEF ConsumerStep, ConsumerCall, Look, ScanBegin, ScanWord, ReadSlot, Commit,
       CheckDisconnect, FinalCheck, ConsumerClose, ConsumerDrop, vars, shared, observed
  <2>2. \A q \in Producers : Claimed(q)' = Claimed(q)
    BY <2>1 DEF Claimed
  <2>3. QED
    BY <2>1, <2>2, QuietAccount
<1>3. QED
  BY <1>1, <1>2, ProducerAccount DEF Next

(* A producer that takes a step is alive and counted. *)
LEMMA ProducerAlive ==
  ASSUME TypeInv, NEW p \in Producers, ProducerStep(p) \/ ProducerCall(p)
  PROVE  p \in Live /\ producer_count # 0 /\ (producer_count = 1 => Live = {p})
<1>1. p \in Live
  BY DEF ProducerStep, ProducerCall, FetchAdd, WaitSpace, Recheck, TryLoad, TryCas,
         WriteSlots, PublishWord, BeginSend, ProducerClose, ProducerDrop, Clone, Live
<1>2. IsFiniteSet(Live) /\ producer_count = Cardinality(Live)
  BY DEF TypeInv, TypeOK
<1>3. producer_count # 0
  BY <1>1, <1>2, FS_EmptySet
<1>4. ASSUME producer_count = 1 PROVE Live = {p}
  <2>1. PICK x : Live = {x}
    BY <1>2, <1>4, FS_Singleton
  <2>2. QED
    BY <1>1, <2>1
<1>5. QED
  BY <1>1, <1>3, <1>4

(* Unless it drops its handle, it stays alive. *)
LEMMA ProducerStays ==
  ASSUME TypeInv, NEW p \in Producers, ProducerStep(p) \/ ProducerCall(p), ~ProducerDrop(p)
  PROVE  p \in Live' /\ cpc' = cpc
<1>1. ppc \in [Producers -> ProducerPlaces]
  BY DEF TypeInv, TypeOK
<1>2. cpc' = cpc
  BY DEF ProducerStep, ProducerCall, FetchAdd, WaitSpace, Recheck, TryLoad, TryCas,
         WriteSlots, PublishWord, BeginSend, ProducerClose, Clone, cvars
<1>3. CASE ProducerStep(p)
  <2>1. ppc'[p] \in ProducerPlaces \ {"unborn", "dropped"}
    BY <1>1, <1>3 DEF ProducerStep, FetchAdd, WaitSpace, Recheck, TryLoad, TryCas,
       WriteSlots, PublishWord, Goto, Return, ProducerPlaces
  <2>2. QED
    BY <1>2, <2>1 DEF Live
<1>4. CASE ProducerCall(p)
  <2>1. ppc'[p] \notin {"unborn", "dropped"}
    BY <1>1, <1>4 DEF ProducerCall, BeginSend, ProducerClose, Clone, Goto
  <2>2. QED
    BY <1>2, <2>1 DEF Live
<1>5. QED
  BY <1>3, <1>4

LEMMA CloseStep ==
  ASSUME TypeInv, CloseInv, [Next]_vars
  PROVE  CloseInv'
<1>1. ASSUME NEW p \in Producers, ProducerStep(p) PROVE CloseInv'
  <2>1. closer # "last_drop" /\ producer_count # 0
    BY <1>1, ProducerAlive DEF CloseInv
  <2>2. UNCHANGED <<closed, closer, cpc, result>>
    BY <1>1 DEF ProducerStep, FetchAdd, WaitSpace, Recheck, TryLoad, TryCas, WriteSlots,
       PublishWord, shared, cvars, observed
  <2>3. ~closed => leaked' = leaked
    BY <1>1, <2>1 DEF ProducerStep, FetchAdd, WaitSpace, Recheck, TryLoad, TryCas, WriteSlots,
       PublishWord, shared, cvars, observed, ProducerSeesDisconnect
  <2>4. QED
    BY <2>1, <2>2, <2>3 DEF CloseInv
<1>2. ASSUME NEW p \in Producers, ProducerCall(p) PROVE CloseInv'
  <2>1. closer # "last_drop" /\ (producer_count = 1 => Live = {p})
    BY <1>2, ProducerAlive DEF CloseInv
  <2>2. UNCHANGED <<cpc, result, leaked>>
    BY <1>2 DEF ProducerCall, BeginSend, ProducerClose, ProducerDrop, Clone, cvars, observed
  <2>3. CASE ProducerDrop(p)
    <3>1. producer_count = 1 => Live' = {}
      <4>1. ppc \in [Producers -> ProducerPlaces]
        BY DEF TypeInv, TypeOK
      <4>2. QED
        BY <2>1, <2>3, <4>1 DEF ProducerDrop, Live, Goto
    <3>2. QED
      BY <2>1, <2>2, <2>3, <3>1 DEF CloseInv, ProducerDrop, StoreClosed
  <2>4. CASE ProducerClose(p)
    BY <2>1, <2>2, <2>4 DEF CloseInv, ProducerClose, StoreClosed
  <2>5. CASE ~ProducerDrop(p) /\ ~ProducerClose(p)
    <3>1. UNCHANGED <<closed, closer>>
      BY <1>2, <2>5 DEF ProducerCall, BeginSend, Clone, shared, observed
    <3>2. QED
      BY <2>1, <2>2, <3>1 DEF CloseInv
  <2>6. QED
    BY <2>3, <2>4, <2>5
<1>3. CASE ConsumerStep \/ ConsumerCall \/ UNCHANGED vars
  <2>1. UNCHANGED <<leaked, ppc>>
    BY <1>3 DEF ConsumerStep, ConsumerCall, Look, ScanBegin, ScanWord, ReadSlot, Commit,
       CheckDisconnect, FinalCheck, ConsumerClose, ConsumerDrop, vars, observed
  <2>2. Live' = Live
    BY <2>1 DEF Live
  <2>3. CASE ConsumerClose \/ ConsumerDrop
    BY <2>1, <2>2, <2>3 DEF CloseInv, ConsumerClose, ConsumerDrop, StoreClosed
  <2>4. CASE ~(ConsumerClose \/ ConsumerDrop)
    <3>1. UNCHANGED <<closed, closer>>
      BY <1>3, <2>4 DEF ConsumerStep, ConsumerCall, Look, ScanBegin, ScanWord, ReadSlot, Commit,
         CheckDisconnect, FinalCheck, vars, shared, observed
    <3>2. cpc' = "final" \/ result' = "recv_error" => closed
      BY <1>3, <2>4 DEF ConsumerStep, ConsumerCall, Look, ScanBegin, ScanWord, ReadSlot, Commit,
         CheckDisconnect, FinalCheck, Found, ReturnRecv, vars, cvars, observed, CloseInv
    <3>3. QED
      BY <2>1, <2>2, <3>1, <3>2 DEF CloseInv
  <2>5. QED
    BY <2>3, <2>4
<1>4. QED
  BY <1>1, <1>2, <1>3 DEF Next

EndInv == RingInv /\ Accounted /\ CloseInv

LEMMA EndAlways == ASSUME RingFillsWords PROVE Spec => []EndInv
<1>1. Init => EndInv
  <2> SUFFICES ASSUME Init PROVE EndInv
    OBVIOUS
  <2>1. RingInv
    BY RingInit
  <2>2. Accounted /\ CloseInv
    BY DEF Init, Accounted, CloseInv
  <2>3. QED
    BY <2>1, <2>2 DEF EndInv
<1>2. EndInv /\ [Next]_vars => EndInv'
  <2> SUFFICES ASSUME EndInv, [Next]_vars PROVE EndInv'
    OBVIOUS
  <2>1. RingInv'
    BY RingStep DEF EndInv
  <2>2. Accounted'
    BY AccountStep DEF EndInv
  <2>3. CloseInv'
    BY CloseStep DEF EndInv, RingInv
  <2>4. QED
    BY <2>1, <2>2, <2>3 DEF EndInv
<1>3. QED
  BY <1>1, <1>2, PTL DEF Spec

(* With no producer inside a call, and nothing given up, everything that   *)
(* was claimed is published.                                               *)
LEMMA AllPublished ==
  ASSUME EndInv, leaked = {}, \A p \in Producers : ppc[p] \notin Holding
  PROVE  published = 0..claim_cursor
<1>1. \A p \in Producers : Claimed(p) = {}
  BY DEF Claimed, Holding
<1>2. QED
  BY <1>1 DEF EndInv, RingInv, CursorInv, Accounted

LEMMA DrainedStep ==
  ASSUME EndInv, RecvErrorMeansDrained, [Next]_vars
  PROVE  RecvErrorMeansDrained'
<1> SUFFICES ASSUME result' = "recv_error", closer' = "last_drop"
             PROVE  \A s \in published' : s < c_next'
  BY DEF RecvErrorMeansDrained
<1>0. c_next \in Nat /\ claim_cursor \in Int /\ published \subseteq Nat /\ Capacity \in Nat \ {0}
  BY CapacityAssumption DEF EndInv, RingInv, TypeInv, TypeOK
<1>1. ASSUME NEW p \in Producers, ProducerStep(p) \/ ProducerCall(p) PROVE FALSE
  <2>1. result' = result
    BY <1>1 DEF ProducerStep, ProducerCall, FetchAdd, WaitSpace, Recheck, TryLoad, TryCas,
       WriteSlots, PublishWord, BeginSend, ProducerClose, ProducerDrop, Clone, observed
  <2>2. closed /\ closer # "last_drop"
    BY <1>1, <2>1, ProducerAlive DEF EndInv, RingInv, CloseInv
  <2>3. closer' = closer
    BY <1>1, <2>2 DEF ProducerStep, ProducerCall, FetchAdd, WaitSpace, Recheck, TryLoad, TryCas,
       WriteSlots, PublishWord, BeginSend, ProducerClose, ProducerDrop, Clone, observed, StoreClosed
  <2>4. QED
    BY <2>2, <2>3
<1>2. CASE ConsumerStep \/ ConsumerCall \/ UNCHANGED vars
  <2>1. published' = published /\ closer = "last_drop"
    BY <1>2 DEF ConsumerStep, ConsumerCall, Look, ScanBegin, ScanWord, ReadSlot, Commit,
       CheckDisconnect, FinalCheck, ConsumerClose, ConsumerDrop, StoreClosed, vars, observed
  <2>2. CASE result = "recv_error"
    <3>1. \A s \in published : s < c_next
      BY <2>1, <2>2 DEF RecvErrorMeansDrained
    <3>2. c_next' = c_next
      BY <1>2 DEF ConsumerStep, ConsumerCall, Look, ScanBegin, ScanWord, ReadSlot, Commit,
         ReturnRecv, CheckDisconnect, FinalCheck, ConsumerClose, ConsumerDrop, vars, cvars
    <3>3. QED
      BY <2>1, <3>1, <3>2
  <2>3. CASE result # "recv_error"
    <3>1. FinalCheck /\ ~is_published(c_next)
      BY <1>2, <2>3 DEF ConsumerStep, ConsumerCall, Look, ScanBegin, ScanWord, ReadSlot, Commit,
         CheckDisconnect, FinalCheck, ConsumerClose, ConsumerDrop, Found, ReturnRecv, vars, observed
    <3>2. c_next' = c_next
      BY <3>1 DEF FinalCheck
    <3>3. leaked = {} /\ \A p \in Producers : ppc[p] \notin Holding
      BY <2>1 DEF EndInv, CloseInv, Live, Holding
    <3>4. published = 0..claim_cursor
      BY <3>3, AllPublished
    <3>5. c_next \notin published
      BY <1>0, <3>1 DEF EndInv, RingInv, BitInv
    <3>6. QED
      BY <1>0, <2>1, <3>2, <3>4, <3>5
  <2>4. QED
    BY <2>2, <2>3
<1>3. QED
  BY <1>1, <1>2 DEF Next

(* When recv fails because the last producer handle was dropped, every     *)
(* event ever published has been received: recv looks at the bitmap again  *)
(* once it has seen closed.                                                *)
THEOREM RecvErrorOnlyWhenDrained ==
  ASSUME RingFillsWords PROVE Spec => []RecvErrorMeansDrained
<1>1. Init => RecvErrorMeansDrained
  BY DEF Init, RecvErrorMeansDrained
<1>2. EndInv /\ RecvErrorMeansDrained /\ [Next]_vars => RecvErrorMeansDrained'
  BY DrainedStep
<1>3. QED
  BY <1>1, <1>2, EndAlways, PTL DEF Spec

(***************************************************************************)
(* The release of the ring                                                 *)
(***************************************************************************)

(* Every event handed over is moved out, once, or was lent to poll. *)
MovedInv ==
  /\ \A i, j \in DOMAIN moved : moved[i] = moved[j] => i = j
  /\ \A i \in DOMAIN moved : moved[i] \in 0..(Len(delivered) - 1) /\ moved[i] \notin polled
  /\ polled \subseteq 0..(Len(delivered) - 1)
  /\ \A e \in 0..(Len(delivered) - 1) : e \in polled \/ \E i \in DOMAIN moved : moved[i] = e

(* Only ReadSlot hands events over. *)
LEMMA NothingMoves ==
  ASSUME [Next]_vars, ~ReadSlot
  PROVE  UNCHANGED <<delivered, moved, polled>>
<1>1. ASSUME NEW p \in Producers, ProducerStep(p) \/ ProducerCall(p)
      PROVE  UNCHANGED <<delivered, moved, polled>>
  BY <1>1 DEF ProducerStep, ProducerCall, FetchAdd, WaitSpace, Recheck, TryLoad, TryCas,
     WriteSlots, PublishWord, BeginSend, ProducerClose, ProducerDrop, Clone, observed
<1>2. CASE ConsumerStep \/ ConsumerCall
  BY <1>2 DEF ConsumerStep, ConsumerCall, Look, ScanBegin, ScanWord, Commit,
     CheckDisconnect, FinalCheck, ConsumerClose, ConsumerDrop, observed
<1>3. CASE UNCHANGED vars
  BY <1>3 DEF vars, observed
<1>4. QED
  BY <1>1, <1>2, <1>3 DEF Next

(* ReadSlot moves out, or lends, the first event not handed over yet. *)
LEMMA ReadSlotMoves ==
  ASSUME RingInv, MovedInv, ReadSlot PROVE MovedInv'
<1>1. PICK e \in Nat : e = Len(delivered)
  BY DEF RingInv, TypeInv, TypeOK
<1>2. CASE ccall.op = "peek"
  BY <1>2 DEF ReadSlot, HandOver, MovedInv
<1>3. CASE ccall.op # "peek"
  <2>0. /\ c_next \in Nat /\ ccall.read \in Nat /\ ccall.count \in Nat
        /\ cpc = "read" /\ ccall.read < ccall.count
    BY DEF RingInv, TypeInv, TypeOK, ConsumerCalls, ReadSlot
  <2>9. e = c_next + ccall.read /\ c_next..(c_next + ccall.count - 1) \subseteq published
    BY <1>1, <1>3, <2>0 DEF RingInv, ReadInv, Taken
  <2>10. e \in published /\ e >= c_next
    BY <2>0, <2>9
  <2>1. slots[Index(c_next + ccall.read)] = e
    BY <2>9, <2>10 DEF RingInv, SlotInv
  <2>2. /\ delivered' = Append(delivered, e)
        /\ moved' = (IF ccall.op = "poll" THEN moved ELSE Append(moved, e))
        /\ polled' = (IF ccall.op = "poll" THEN polled \cup {e} ELSE polled)
    BY <1>3, <2>1 DEF ReadSlot, HandOver
  <2>3. Len(delivered') = e + 1 /\ moved \in Seq(Int)
    BY <1>1, <2>2 DEF RingInv, TypeInv, TypeOK
  <2>4. /\ \A i, j \in DOMAIN moved : moved[i] = moved[j] => i = j
        /\ \A i \in DOMAIN moved : moved[i] \in 0..(e - 1) /\ moved[i] \notin polled
        /\ polled \subseteq 0..(e - 1)
        /\ \A x \in 0..(e - 1) : x \in polled \/ \E i \in DOMAIN moved : moved[i] = x
    BY <1>1 DEF MovedInv
  <2>5. /\ 0..((e + 1) - 1) = (0..(e - 1)) \cup {e} /\ e \notin 0..(e - 1)
    OBVIOUS
  <2>6. CASE ccall.op = "poll"
    BY <2>2, <2>3, <2>4, <2>5, <2>6 DEF MovedInv
  <2>7. CASE ccall.op # "poll"
    <3>1. /\ moved' = Append(moved, e) /\ polled' = polled
          /\ DOMAIN moved' = DOMAIN moved \cup {Len(moved) + 1}
          /\ Len(moved) + 1 \notin DOMAIN moved /\ moved'[Len(moved) + 1] = e
          /\ \A i \in DOMAIN moved : moved'[i] = moved[i]
      BY <2>2, <2>3, <2>7
    <3>2. QED
      BY <2>3, <2>4, <2>5, <3>1 DEF MovedInv
  <2>8. QED
    BY <2>6, <2>7
<1>4. QED
  BY <1>2, <1>3

(* Two sequences without repetition and without a common element make one  *)
(* without repetition.                                                     *)
LEMMA ConcatOnce ==
  ASSUME NEW a \in Seq(Int), NEW b \in Seq(Int), IsInjective(a), IsInjective(b),
         Range(a) \cap Range(b) = {}
  PROVE  IsInjective(a \o b) /\ Range(a \o b) = Range(a) \cup Range(b)
<1>0. /\ \A i, j \in DOMAIN a : a[i] = a[j] => i = j
      /\ \A i, j \in DOMAIN b : b[i] = b[j] => i = j
      /\ \A i \in DOMAIN a, j \in DOMAIN b : a[i] # b[j]
  BY DEF IsInjective, Range
<1>1. PICK c : c = a \o b
  OBVIOUS
<1>2. PICK m \in Nat : m = Len(a)
  OBVIOUS
<1>3. PICK n \in Nat : n = Len(b)
  OBVIOUS
<1>4. /\ DOMAIN a = 1..m /\ DOMAIN b = 1..n /\ DOMAIN c = 1..(m + n)
      /\ \A i \in 1..(m + n) : /\ i <= m => c[i] = a[i] /\ i \in DOMAIN a
                               /\ ~(i <= m) => c[i] = b[i - m] /\ i - m \in DOMAIN b
  BY <1>1, <1>2, <1>3
<1>6. IsInjective(c)
  <2> SUFFICES ASSUME NEW i \in 1..(m + n), NEW j \in 1..(m + n), c[i] = c[j]
               PROVE  i = j
    BY <1>4 DEF IsInjective
  <2>1. CASE i <= m /\ j <= m
    BY <1>0, <1>4, <2>1
  <2>2. CASE ~(i <= m) /\ ~(j <= m)
    <3>1. i - m = j - m
      BY <1>0, <1>4, <2>2
    <3>2. QED
      BY <3>1
  <2>3. CASE i <= m /\ ~(j <= m)
    <3>1. c[i] = a[i] /\ i \in DOMAIN a /\ c[j] = b[j - m] /\ j - m \in DOMAIN b
      BY <1>4, <2>3
    <3>2. QED
      BY <1>0, <3>1
  <2>4. CASE ~(i <= m) /\ j <= m
    <3>1. c[i] = b[i - m] /\ i - m \in DOMAIN b /\ c[j] = a[j] /\ j \in DOMAIN a
      BY <1>4, <2>4
    <3>2. QED
      BY <1>0, <3>1
  <2>5. QED
    BY <2>1, <2>2, <2>3, <2>4
<1>7. \A i \in DOMAIN a : i \in DOMAIN c /\ c[i] = a[i]
  BY <1>4
<1>8. \A i \in DOMAIN b : m + i \in DOMAIN c /\ c[m + i] = b[i]
  <2> SUFFICES ASSUME NEW i \in 1..n PROVE m + i \in 1..(m + n) /\ c[m + i] = b[i]
    BY <1>4
  <2>1. m + i \in 1..(m + n) /\ ~(m + i <= m) /\ (m + i) - m = i
    OBVIOUS
  <2>2. QED
    BY <1>4, <2>1
<1>9. Range(c) = Range(a) \cup Range(b)
  <2>1. \A i \in DOMAIN c : (\E k \in DOMAIN a : c[i] = a[k]) \/ (\E k \in DOMAIN b : c[i] = b[k])
    BY <1>4
  <2>2. QED
    BY <1>7, <1>8, <2>1 DEF Range
<1>10. QED
  BY <1>1, <1>6, <1>9

(* In a finite set of numbers the larger of two elements has the higher    *)
(* rank, and every rank is below the size of the set.                      *)
LEMMA RankIncreases ==
  ASSUME NEW D \in SUBSET Nat, IsFiniteSet(D), NEW s \in D
  PROVE  /\ Cardinality({t \in D : t < s}) + 1 \in 1..Cardinality(D)
         /\ \A u \in D : s < u =>
              Cardinality({t \in D : t < s}) < Cardinality({t \in D : t < u})
<1> DEFINE Below(x) == {t \in D : t < x}
<1>1. IsFiniteSet(Below(s)) /\ Cardinality(Below(s)) \in Nat /\ Cardinality(D) \in Nat
  BY FS_Subset, FS_CardinalityType
<1>2. Cardinality(Below(s) \cup {s}) = Cardinality(Below(s)) + 1
  <2>1. s \notin Below(s)
    OBVIOUS
  <2>2. QED
    BY <1>1, <2>1, FS_AddElement
<1>3. Cardinality(Below(s) \cup {s}) <= Cardinality(D)
  BY FS_Subset
<1>4. ASSUME NEW u \in D, s < u PROVE Cardinality(Below(s)) < Cardinality(Below(u))
  <2>1. IsFiniteSet(Below(u)) /\ Cardinality(Below(u)) \in Nat
    BY FS_Subset, FS_CardinalityType
  <2>2. Below(s) \cup {s} \subseteq Below(u)
    <3>1. \A t \in D : t < s => t < u
      BY <1>4
    <3>2. QED
      BY <1>4, <3>1, Zenon
  <2>3. Cardinality(Below(s) \cup {s}) <= Cardinality(Below(u))
    BY <2>1, <2>2, FS_Subset
  <2>4. QED
    BY <1>1, <1>2, <2>1, <2>3
<1>5. Cardinality(Below(s)) + 1 \in 1..Cardinality(D)
  BY <1>1, <1>2, <1>3
<1>6. QED
  BY <1>4, <1>5

(* When the claims fit in the ring, Shared::drop destroys exactly what is  *)
(* published and not consumed, each event once.                            *)
LEMMA DropDestroys ==
  ASSUME RingInv, SharedDrop, claim_cursor - consumer_cursor <= Capacity
  PROVE  /\ freed' \in Seq(Int)
         /\ IsInjective(freed') /\ Range(freed') = {s \in published : s >= c_next}
<1> DEFINE D == {s \in (consumer_cursor + 1)..claim_cursor : is_published(s)}
           rank(s) == Cardinality({t \in D : t < s})
           nth(i) == CHOOSE s \in D : rank(s) = i - 1
<1>0. /\ c_next \in Nat /\ claim_cursor \in Int /\ consumer_cursor + 1 = c_next
      /\ Capacity \in Nat \ {0} /\ published \subseteq 0..claim_cursor
      /\ consumer_cursor = c_next - 1
  BY CapacityAssumption, BoundAssumption DEF RingInv, TypeInv, TypeOK, CursorInv
<1>1. D = {s \in published : s >= c_next}
  <2>1. \A s \in c_next..claim_cursor : is_published(s) <=> s \in published
    BY <1>0 DEF RingInv, BitInv
  <2>2. (consumer_cursor + 1)..claim_cursor = c_next..claim_cursor
    BY <1>0
  <2>3. \A s \in published : s >= c_next => s \in c_next..claim_cursor
    BY <1>0
  <2>4. \A s \in c_next..claim_cursor : s >= c_next
    BY <1>0
  <2>5. QED
    BY <2>1, <2>2, <2>3, <2>4, Zenon
<1>2. D \in SUBSET Nat /\ IsFiniteSet(D)
  <2>1. IsFiniteSet(c_next..claim_cursor)
    BY <1>0, FS_Interval
  <2>2. QED
    BY <1>0, <2>1, FS_Subset
<1>3. PICK n \in Nat : n = Cardinality(D)
  BY <1>2, FS_CardinalityType
<1>4. freed' = [i \in 1..n |-> slots[Index(nth(i))]]
  BY <1>3 DEF SharedDrop
<1>5. \A s \in D : slots[Index(s)] = s
  BY <1>1 DEF RingInv, SlotInv
<1> HIDE DEF D
<1>6. \A s \in D : rank(s) + 1 \in 1..n /\ \A u \in D : s < u => rank(s) < rank(u)
  BY <1>2, <1>3, RankIncreases
<1>7. \A i \in 1..n : \E s \in D : rank(s) = i - 1
  BY <1>2, <1>3, Ranks
<1>8. \A s \in D : s \in Nat /\ rank(s) \in Nat
  <2>1. \A s \in D : IsFiniteSet({t \in D : t < s})
    BY <1>2, FS_Subset
  <2>2. QED
    BY <1>2, <2>1, FS_CardinalityType
<1> HIDE DEF rank
<1>9. \A i \in 1..n : nth(i) \in D /\ rank(nth(i)) = i - 1
  BY <1>7
<1>10. \A s, u \in D : rank(s) = rank(u) => s = u
  BY <1>6, <1>8
<1> HIDE DEF nth
<1>11. /\ DOMAIN freed' = 1..n /\ \A i \in 1..n : freed'[i] = nth(i)
  BY <1>4, <1>5, <1>9
<1>12. freed' \in Seq(Int)
  <2>1. \A i \in 1..n : slots[Index(nth(i))] \in Int
    BY <1>5, <1>8, <1>9
  <2>2. QED
    BY <1>4, <2>1
<1>13. \A i, j \in 1..n : nth(i) = nth(j) => i = j
  <2> SUFFICES ASSUME NEW i \in 1..n, NEW j \in 1..n, nth(i) = nth(j) PROVE i = j
    OBVIOUS
  <2>1. i - 1 = j - 1
    BY <1>9, Zenon
  <2>2. QED
    BY <2>1
<1>14. \A s \in D : \E i \in 1..n : nth(i) = s
  <2> SUFFICES ASSUME NEW s \in D PROVE \E i \in 1..n : nth(i) = s
    OBVIOUS
  <2>1. rank(s) + 1 \in 1..n /\ (rank(s) + 1) - 1 = rank(s)
    BY <1>6, <1>8
  <2>2. nth(rank(s) + 1) = s
    BY <1>9, <1>10, <2>1, Zenon
  <2>3. QED
    BY <2>1, <2>2
<1>15. Range(freed') = D
  BY <1>9, <1>11, <1>14 DEF Range
<1>16. IsInjective(freed')
  BY <1>11, <1>13 DEF IsInjective
<1>17. QED
  BY <1>1, <1>12, <1>15, <1>16

LEMMA DropReleases ==
  ASSUME RingInv, MovedInv, SharedDrop, UNCHANGED <<moved, polled, published>>,
         claim_cursor - consumer_cursor <= Capacity, cpc \in {"idle", "dropped"}
  PROVE  IsInjective(Released') /\ Range(Released') = published' \ polled'
<1>1. PICK f : f = freed'
  OBVIOUS
<1>2. f \in Seq(Int) /\ IsInjective(f) /\ Range(f) = {s \in published : s >= c_next}
  BY <1>1, DropDestroys
<1>3. /\ c_next \in Nat /\ moved \in Seq(Int) /\ published \subseteq Nat
      /\ 0..(c_next - 1) \subseteq published /\ Len(delivered) = c_next
  BY DEF RingInv, TypeInv, TypeOK, CursorInv, ReadInv, Taken
<1>4. /\ \A i, j \in DOMAIN moved : moved[i] = moved[j] => i = j
      /\ \A i \in DOMAIN moved : moved[i] \in 0..(c_next - 1) /\ moved[i] \notin polled
      /\ polled \subseteq 0..(c_next - 1)
      /\ \A e \in 0..(c_next - 1) : e \in polled \/ \E i \in DOMAIN moved : moved[i] = e
  BY <1>3 DEF MovedInv
<1>5. IsInjective(moved) /\ Range(moved) = (0..(c_next - 1)) \ polled
  BY <1>4 DEF IsInjective, Range
<1>6. Range(moved) \cap Range(f) = {}
  BY <1>2, <1>3, <1>5
<1>7. ((0..(c_next - 1)) \ polled) \cup {s \in published : s >= c_next} = published \ polled
  <2>1. \A s \in published : s \in 0..(c_next - 1) \/ s >= c_next
    BY <1>3
  <2>2. \A s \in polled : ~(s >= c_next)
    BY <1>3, <1>4
  <2>3. QED
    BY <1>3, <2>1, <2>2
<1>8. IsInjective(moved \o f) /\ Range(moved \o f) = Range(moved) \cup Range(f)
  BY <1>2, <1>3, <1>5, <1>6, ConcatOnce
<1>9. Released' = moved \o f /\ published' = published /\ polled' = polled
  BY <1>1 DEF Released
<1>10. QED
  BY <1>2, <1>5, <1>7, <1>8, <1>9, Zenon

LEMMA ReleasedStep ==
  ASSUME RingInv, MovedInv, ReleasedOnce, [Next]_vars
  PROVE  ReleasedOnce'
<1> DEFINE Good == IsInjective(Released') /\ Range(Released') = published' \ polled'
<1> SUFFICES ASSUME Live' = {}, cpc' = "dropped",
                    claim_cursor' - consumer_cursor' <= Capacity
             PROVE  Good
  BY DEF ReleasedOnce
<1> HIDE DEF Good
<1>0. TypeInv /\ ppc \in [Producers -> ProducerPlaces]
  BY DEF RingInv, TypeInv, TypeOK
<1>1. ASSUME NEW p \in Producers, ProducerStep(p) \/ ProducerCall(p), ~ProducerDrop(p)
      PROVE  FALSE
  BY <1>0, <1>1, ProducerStays
<1>2. ASSUME NEW p \in Producers, ProducerDrop(p) PROVE Good
  <2>1. /\ ppc[p] = "idle" /\ \A q \in Producers : q # p => ppc[q] \in {"unborn", "dropped"}
    BY <1>0, <1>2 DEF ProducerDrop, Live, Goto
  <2>2. Live = {p} /\ cpc = "dropped"
    BY <1>2, <2>1 DEF ProducerDrop, Live, cvars
  <2>3. SharedDrop /\ UNCHANGED <<moved, polled, published, claim_cursor, consumer_cursor>>
    BY <1>2, <2>2 DEF ProducerDrop
  <2>4. QED
    BY <2>2, <2>3, DropReleases DEF Good
<1>3. CASE ConsumerDrop
  <2>1. /\ SharedDrop /\ cpc = "idle"
        /\ UNCHANGED <<moved, polled, published, claim_cursor, consumer_cursor>>
    BY <1>3 DEF ConsumerDrop, Live
  <2>2. QED
    BY <2>1, DropReleases DEF Good
<1>4. CASE (ConsumerStep \/ ConsumerCall) /\ ~ConsumerDrop
  BY <1>4 DEF ConsumerStep, ConsumerCall, Look, ScanBegin, ScanWord, ReadSlot, Commit,
     CheckDisconnect, FinalCheck, ConsumerClose, Found, ReturnRecv, cvars
<1>5. CASE UNCHANGED vars
  <2>1. /\ UNCHANGED <<moved, freed, published, polled, claim_cursor, consumer_cursor>>
        /\ Live = {} /\ cpc = "dropped"
    BY <1>5 DEF vars, shared, cvars, observed, Live
  <2>2. QED
    BY <2>1 DEF ReleasedOnce, Released, Good
<1>6. QED
  BY <1>1, <1>2, <1>3, <1>4, <1>5 DEF Next, ProducerCall

(* When all handles are gone and the claims fit in the ring, every         *)
(* published event has been moved out or destroyed by Shared::drop,        *)
(* exactly once, unless poll has lent it.                                  *)
THEOREM EventsReleasedOnce ==
  ASSUME RingFillsWords PROVE Spec => []ReleasedOnce
<1>1. Init => ReleasedOnce /\ MovedInv
  BY ProducersAssumption DEF Init, ReleasedOnce, Live, MovedInv
<1>2. RingInv /\ MovedInv /\ [Next]_vars => MovedInv'
  BY NothingMoves, ReadSlotMoves DEF MovedInv
<1>3. RingInv /\ MovedInv /\ ReleasedOnce /\ [Next]_vars => ReleasedOnce'
  BY ReleasedStep
<1>4. QED
  BY <1>1, <1>2, <1>3, RingAlways, PTL DEF Spec

(***************************************************************************)
(* Refinement of the bounded queue                                         *)
(***************************************************************************)

(* The sequence a, a + 1, ..., a + n - 1. *)
Run(a, n) == [i \in 1..n |-> a + i - 1]

LEMMA RunConcat ==
  ASSUME NEW a \in Int, NEW m \in Nat, NEW n \in Nat
  PROVE  Run(a, m) \o Run(a + m, n) = Run(a, m + n)
<1>1. /\ Run(a, m) \in Seq(Int) /\ Len(Run(a, m)) = m
      /\ Run(a + m, n) \in Seq(Int) /\ Len(Run(a + m, n)) = n
      /\ Run(a, m + n) \in Seq(Int) /\ Len(Run(a, m + n)) = m + n
  BY DEF Run
<1>2. QED
  BY <1>1 DEF Run

LEMMA RunTail ==
  ASSUME NEW a \in Int, NEW n \in Nat, n > 0
  PROVE  /\ Run(a, n) # <<>> /\ Head(Run(a, n)) = a
         /\ Tail(Run(a, n)) = Run(a + 1, n - 1)
<1>1. Run(a, n) \in Seq(Int) /\ Len(Run(a, n)) = n
  BY DEF Run
<1>2. Run(a, n) # <<>> /\ Head(Run(a, n)) = a
  BY <1>1 DEF Run
<1>3. Tail(Run(a, n)) = Run(a + 1, n - 1)
  BY <1>1 DEF Run
<1>4. QED
  BY <1>2, <1>3

(* Prefix is the first sequence that is not published. *)
LEMMA PrefixIs ==
  ASSUME RingInv
  PROVE  /\ Prefix \in Nat /\ Prefix \notin published /\ 0..(Prefix - 1) \subseteq published
         /\ \A n \in Nat : n \notin published /\ 0..(n - 1) \subseteq published => n = Prefix
<1> DEFINE P(n) == n \notin published /\ 0..(n - 1) \subseteq published
           U == {n \in 0..MaxEvents : n \notin published}
<1>0. MaxEvents \in Nat /\ \A s \in published : s \in Nat /\ s < MaxEvents
  BY BoundAssumption DEF RingInv, TypeInv, TypeOK, CursorInv
<1>1. MaxEvents \in U /\ U \in SUBSET Nat
  BY <1>0
<1>2. PICK m \in U : \A y \in U : m <= y
  BY <1>1, LeastNat
<1>3. m \in 0..MaxEvents /\ P(m)
  <2>1. \A k \in 0..(m - 1) : k \in published
    BY <1>0, <1>2
  <2>2. QED
    BY <1>2, <2>1
<1>4. Prefix = CHOOSE n \in 0..MaxEvents : P(n)
  BY DEF Prefix
<1>5. Prefix \in 0..MaxEvents /\ P(Prefix)
  BY <1>3, <1>4
<1>6. ASSUME NEW n \in Nat, P(n) PROVE n = Prefix
  <2>1. Prefix \in Nat
    BY <1>0, <1>5
  <2>2. ~(n < Prefix) /\ ~(Prefix < n)
    BY <1>5, <1>6, <2>1
  <2>3. QED
    BY <2>1, <2>2
<1>7. QED
  BY <1>0, <1>5, <1>6

Pending == Prefix - Len(delivered)
QueueSlots == [i \in 1..Pending |-> slots[Index(Len(delivered) + i - 1)]]

(* The ring holds the events after those delivered, in order. *)
QueueInOrder ==
  /\ Prefix \in Nat /\ Prefix \notin published
  /\ Len(delivered) \in Nat /\ Pending \in Nat /\ Pending <= Capacity
  /\ QueueSlots = Run(Len(delivered), Pending)

LEMMA QueueView == RingInv => QueueInOrder
<1> SUFFICES ASSUME RingInv PROVE QueueInOrder
  OBVIOUS
<1>0. /\ c_next \in Nat /\ delivered \in Seq(Int) /\ Len(delivered) \in Nat
      /\ Capacity \in Nat \ {0} /\ Taken \in Nat /\ Len(delivered) = c_next + Taken
  BY CapacityAssumption DEF RingInv, TypeInv, TypeOK, ConsumerCalls, Taken, ReadInv
<1>1. Prefix \in Nat /\ Prefix \notin published /\ 0..(Prefix - 1) \subseteq published
  BY PrefixIs
<1>2. Len(delivered) <= Prefix
  <2>1. CASE Prefix < Len(delivered)
    <3>1. CASE Prefix < c_next
      BY <1>0, <1>1, <3>1 DEF RingInv, CursorInv
    <3>2. CASE Prefix >= c_next
      <4>1. cpc = "read" /\ Taken = ccall.read /\ ccall.read <= ccall.count
            /\ ccall.count \in Nat
        BY <1>0, <1>1, <2>1, <3>2 DEF Taken, RingInv, ReadInv, TypeInv, TypeOK, ConsumerCalls
      <4>2. Prefix \in c_next..(c_next + ccall.count - 1)
        BY <1>0, <1>1, <2>1, <3>2, <4>1
      <4>3. QED
        BY <1>1, <4>1, <4>2 DEF RingInv, ReadInv
    <3>3. QED
      BY <1>0, <1>1, <3>1, <3>2
  <2>2. QED
    BY <1>0, <1>1, <2>1
<1>3. Pending \in Nat /\ Pending <= Capacity
  <2>1. Prefix = 0 \/ Prefix - 1 < c_next + Capacity
    BY <1>0, <1>1 DEF RingInv, CursorInv
  <2>2. QED
    BY <1>0, <1>1, <1>2, <2>1 DEF Pending
<1>4. ASSUME NEW i \in 1..Pending
      PROVE  slots[Index(Len(delivered) + i - 1)] = Len(delivered) + i - 1
  <2>1. Len(delivered) + i - 1 \in 0..(Prefix - 1) /\ Len(delivered) + i - 1 >= c_next
    BY <1>0, <1>1, <1>2 DEF Pending
  <2>2. QED
    BY <1>1, <2>1 DEF RingInv, SlotInv
<1>5. QED
  BY <1>0, <1>1, <1>3, <1>4 DEF QueueInOrder, QueueSlots, Run

(* How far the accepted prefix has grown is how much longer the queue is. *)
LEMMA Growth ==
  ASSUME Prefix \in Nat, Len(delivered) \in Nat, Capacity \in Nat, NEW m \in Nat,
         Prefix - Len(delivered) \in Nat, Prefix < m, m - Len(delivered) <= Capacity
  PROVE  /\ m - Len(delivered) = (Prefix - Len(delivered)) + (m - Prefix)
         /\ m - Prefix \in 1..Capacity
         /\ Prefix = Len(delivered) + (Prefix - Len(delivered)) /\ m = Prefix + (m - Prefix)
         /\ (Prefix - Len(delivered)) + (m - Prefix) <= Capacity
OBVIOUS

(* A publication that closes the gap before it is an Accept. *)
LEMMA PublishAccepts ==
  ASSUME RingInv, QueueInOrder', NEW p \in Producers, PublishWord(p),
         NEW m, m = Prefix', m # Prefix
  PROVE  \E n \in 1..Capacity : Queue!Accept(n)
<1> DEFINE n == m - Prefix
<1>0. delivered' = delivered /\ published \subseteq published' /\ Capacity \in Nat \ {0}
  BY CapacityAssumption DEF PublishWord
<1>1. QueueInOrder
  BY QueueView
<1>2. /\ m \in Nat /\ m \notin published' /\ Pending' \in Nat /\ Pending' <= Capacity
      /\ QueueSlots' = Run(Len(delivered), Pending')
  BY <1>0, Zenon DEF QueueInOrder
<1>3. Prefix \in Nat /\ 0..(Prefix - 1) \subseteq published
  BY PrefixIs
<1>4. Prefix < m
  BY <1>0, <1>2, <1>3
<1>5. /\ Pending \in Nat /\ Pending' = Pending + n /\ n \in 1..Capacity
      /\ Prefix = Len(delivered) + Pending /\ Len(delivered) \in Nat
      /\ Pending + n <= Capacity /\ m = Prefix + n
  <2>1. Pending' = m - Len(delivered)
    BY <1>0, Zenon DEF Pending
  <2>2. /\ Pending = Prefix - Len(delivered) /\ Len(delivered) \in Nat /\ Pending \in Nat
    BY <1>1 DEF QueueInOrder, Pending
  <2>3. Capacity \in Nat /\ m - Len(delivered) <= Capacity /\ Prefix - Len(delivered) \in Nat
    BY <1>0, <1>2, <2>1, <2>2, Zenon
  <2>4. /\ m - Len(delivered) = (Prefix - Len(delivered)) + (m - Prefix)
        /\ m - Prefix \in 1..Capacity
        /\ Prefix = Len(delivered) + (Prefix - Len(delivered)) /\ m = Prefix + (m - Prefix)
        /\ (Prefix - Len(delivered)) + (m - Prefix) <= Capacity
    BY <1>2, <1>3, <1>4, <2>2, <2>3, Growth, Zenon
  <2>5. QED
    BY <2>1, <2>2, <2>4, Zenon
<1>6. QueueSlots = Run(Len(delivered), Pending) /\ QueueSlots' = Run(Len(delivered), Pending + n)
  BY <1>1, <1>2, <1>5, Zenon DEF QueueInOrder
<1> HIDE DEF n
<1>7. QueueSlots' = QueueSlots \o Run(Prefix, n)
  <2>1. Len(delivered) \in Int /\ n \in Nat /\ Pending \in Nat
    BY <1>5
  <2>2. Run(Len(delivered), Pending) \o Run(Len(delivered) + Pending, n)
          = Run(Len(delivered), Pending + n)
    BY <2>1, RunConcat, Zenon
  <2>3. QED
    BY <1>5, <1>6, <2>2, Zenon
<1>8. Len(QueueSlots) + n <= Capacity
  <2>1. Len(QueueSlots) = Pending
    BY <1>5, <1>6 DEF Run
  <2>2. QED
    BY <1>5, <2>1
<1>9. Prefix' = Prefix + n
  BY <1>5, Zenon
<1>10. Queue!Accept(n)
  BY <1>0, <1>7, <1>8, <1>9, Zenon DEF Queue!Accept, QueueSlots, Pending, Run
<1>11. QED
  BY <1>5, <1>10

(* Reading a slot is a Deliver, unless it is a peek. *)
LEMMA ReadDelivers ==
  ASSUME RingInv, ReadSlot, ccall.op # "peek", QueueInOrder', Prefix' = Prefix
  PROVE  Queue!Deliver
<1>0. /\ c_next \in Nat /\ delivered \in Seq(Int) /\ ccall.read \in Nat /\ ccall.count \in Nat
      /\ cpc = "read" /\ ccall.read < ccall.count
  BY DEF RingInv, TypeInv, TypeOK, ConsumerCalls, ReadSlot
<1>1. /\ QueueInOrder /\ Len(delivered) = c_next + ccall.read
      /\ c_next..(c_next + ccall.count - 1) \subseteq published
  BY <1>0, QueueView DEF RingInv, ReadInv, Taken
<1>2. Len(delivered) \in published
  <2>1. Len(delivered) \in c_next..(c_next + ccall.count - 1)
    BY <1>0, <1>1
  <2>2. QED
    BY <1>1, <2>1
<1>3. delivered' = Append(delivered, Len(delivered))
  BY <1>0, <1>1, <1>2 DEF ReadSlot, HandOver, RingInv, SlotInv
<1>4. Len(delivered') = Len(delivered) + 1 /\ Len(delivered) \in Nat
  BY <1>0, <1>3
<1>5. Pending \in Nat /\ Pending > 0 /\ Pending' = Pending - 1
  <2>1. Prefix # Len(delivered)
    BY <1>2, PrefixIs
  <2>2. QED
    BY <1>1, <1>4, <2>1 DEF QueueInOrder, Pending
<1>6. /\ QueueSlots # <<>> /\ Head(QueueSlots) = Len(delivered)
      /\ Tail(QueueSlots) = QueueSlots'
  <2>1. /\ Run(Len(delivered), Pending) # <<>>
        /\ Head(Run(Len(delivered), Pending)) = Len(delivered)
        /\ Tail(Run(Len(delivered), Pending)) = Run(Len(delivered) + 1, Pending - 1)
    <3>1. Len(delivered) \in Int
      BY <1>4
    <3>2. QED
      BY <1>5, <3>1, RunTail, Zenon
  <2>2. QueueSlots' = Run(Len(delivered) + 1, Pending - 1)
    BY <1>4, <1>5, Zenon DEF QueueInOrder
  <2>3. QED
    BY <1>1, <2>1, <2>2, Zenon DEF QueueInOrder
<1>7. QED
  BY <1>3, <1>6 DEF Queue!Deliver, QueueSlots, Pending

(* Every other step leaves what the abstract queue sees alone. *)
LEMMA OthersStutter ==
  ASSUME [Next]_vars, \A p \in Producers : ~PublishWord(p), ~(ReadSlot /\ ccall.op # "peek")
  PROVE  published' = published /\ delivered' = delivered
<1>1. ASSUME NEW p \in Producers, ProducerStep(p) \/ ProducerCall(p)
      PROVE  published' = published /\ delivered' = delivered
  BY <1>1 DEF ProducerStep, ProducerCall, FetchAdd, WaitSpace, Recheck, TryLoad, TryCas,
     WriteSlots, BeginSend, ProducerClose, ProducerDrop, Clone, observed
<1>2. CASE ConsumerStep \/ ConsumerCall
  BY <1>2 DEF ConsumerStep, ConsumerCall, Look, ScanBegin, ScanWord, ReadSlot, HandOver, Commit,
     CheckDisconnect, FinalCheck, ConsumerClose, ConsumerDrop, observed
<1>3. CASE UNCHANGED vars
  BY <1>3 DEF vars, observed
<1>4. QED
  BY <1>1, <1>2, <1>3 DEF Next

(* The channel implements the bounded FIFO queue EventQueue: an event is   *)
(* accepted when the last gap before it is closed.                         *)
THEOREM Refinement == ASSUME RingFillsWords PROVE Spec => ImplementsQueue
<1>1. Init => Queue!Init
  <2> SUFFICES ASSUME Init PROVE Queue!Init
    OBVIOUS
  <2>1. RingInv /\ published = {} /\ delivered = <<>>
    BY RingInit DEF Init
  <2>2. 0 \in Nat /\ 0 \notin published /\ 0..(0 - 1) \subseteq published
    BY <2>1
  <2>3. Prefix = 0
    BY <2>1, <2>2, PrefixIs
  <2>4. QED
    BY <2>1, <2>3 DEF Queue!Init
<1>2. RingInv' => QueueInOrder'
  BY QueueView, PTL
<1>3. RingInv /\ RingInv' /\ [Next]_vars => [Queue!Next]_Queue!qvars
  <2> SUFFICES ASSUME RingInv, RingInv', [Next]_vars PROVE [Queue!Next]_Queue!qvars
    OBVIOUS
  <2>1. ASSUME Prefix' = Prefix, delivered' = delivered PROVE UNCHANGED Queue!qvars
    <3>1. QueueSlots' = QueueSlots
      BY <1>2, <2>1, QueueView DEF Pending, QueueInOrder
    <3>2. QED
      BY <2>1, <3>1 DEF Queue!qvars, QueueSlots, Pending
  <2>2. ASSUME NEW p \in Producers, PublishWord(p) PROVE [Queue!Next]_Queue!qvars
    <3>1. CASE Prefix' = Prefix
      BY <2>1, <2>2, <3>1 DEF PublishWord
    <3>2. CASE Prefix' # Prefix
      BY <1>2, <2>2, <3>2, PublishAccepts DEF Queue!Next
    <3>3. QED
      BY <3>1, <3>2
  <2>3. ASSUME published' = published PROVE Prefix' = Prefix
    BY <2>3 DEF Prefix
  <2>4. CASE ReadSlot /\ ccall.op # "peek"
    <3>1. Prefix' = Prefix
      BY <2>3, <2>4 DEF ReadSlot
    <3>2. QED
      BY <1>2, <2>4, <3>1, ReadDelivers DEF Queue!Next
  <2>5. CASE (\A p \in Producers : ~PublishWord(p)) /\ ~(ReadSlot /\ ccall.op # "peek")
    BY <2>1, <2>3, <2>5, OthersStutter
  <2>6. QED
    BY <2>2, <2>4, <2>5
<1>4. QED
  BY <1>1, <1>3, RingAlways, PTL DEF Spec, ImplementsQueue, Queue!Spec
=============================================================================
