------------------------- MODULE Algorithms_proofs -------------------------
(***************************************************************************)
(* Proofs about the algorithms that stand alone: the length prefix of      *)
(* variable-length data (VariableLength), the asking about credentials in  *)
(* batches (CredentialBatches), the climb to the root (TreeClimb), and the *)
(* operators on trees and their paths and hashes (RatchetTree).            *)
(***************************************************************************)
EXTENDS VariableLength, CredentialBatches, TreeClimb, RatchetTree, TreeMath_proofs

-----------------------------------------------------------------------------
(***************************************************************************)
(* The length prefix is inverted at every length that can be encoded: TLC  *)
(* tries the lengths around the changes of width, the proof covers them    *)
(* all.  (The provers write numerals out, so 2^30 stays out of every leaf  *)
(* but one, and the bytes are shifted out one at a time.)                  *)
(***************************************************************************)
\* The prefix of n begins at offset in b.
Written(b, offset, n) == \A i \in 1 .. Len(LengthEncoder(n)) : Byte(b, offset + i - 1) = LengthEncoder(n)[i]

LEMMA LastDigit ==
  ASSUME NEW n \in Nat
  PROVE  /\ n = (256 * Shift8(n)) + (n % 256)
         /\ Shift8(n) \in Nat
         /\ n % 256 \in 0 .. 255
  BY SMT DEF Shift8

LEMMA HighByte ==
  ASSUME NEW n \in Nat, n < MaxLength
  PROVE  Shift8(Shift8(Shift8(n))) \in 0 .. 63
  BY SMTT(60) DEF Shift8, MaxLength

LEMMA PrefixBits ==
  ASSUME NEW a \in 0 .. 63
  PROVE  /\ a \div 64 = 0 /\ a % 64 = a
         /\ (64 + a) \div 64 = 1 /\ (64 + a) % 64 = a
         /\ (128 + a) \div 64 = 2 /\ (128 + a) % 64 = a
  BY SMT

LEMMA OneByte ==
  ASSUME NEW n \in Nat, n < 64
  PROVE  LengthEncoder(n) = <<n>>
  BY SMT DEF LengthEncoder

LEMMA TwoBytes ==
  ASSUME NEW n \in Nat, n >= 64, n < 16384
  PROVE  LengthEncoder(n) = <<64 + Shift8(n), n % 256>> /\ Shift8(n) \in 0 .. 63
  BY SMT DEF LengthEncoder, Shift8

LEMMA MoreBytes ==
  ASSUME NEW n \in Nat, n >= 16384
  PROVE  LengthEncoder(n) = FourBytes(n)
  BY SMT DEF LengthEncoder

\* What is read for each prefix, whatever the bytes behind it.
LEMMA ReadOne ==
  ASSUME NEW b, NEW offset \in Nat, NEW end \in Nat, NEW n \in 0 .. 63,
         Byte(b, offset) = n, offset + 1 <= end
  PROVE  DetermineLength(b, offset, end) = {[length |-> n, lengthFieldSize |-> 1]}
<1>1. n \div 64 = 0 /\ n % 64 = n
  BY PrefixBits, SMT
<1>. QED
  BY <1>1, SMT DEF DetermineLength

LEMMA ReadTwo ==
  ASSUME NEW b, NEW offset \in Nat, NEW end \in Nat, Byte(b, offset) \div 64 = 1, offset + 2 <= end
  PROVE  DetermineLength(b, offset, end) =
           {[length |-> 256 * (Byte(b, offset) % 64) + Byte(b, offset + 1), lengthFieldSize |-> 2]}
<1>1. Byte(b, offset) \div 64 # 0 /\ Byte(b, offset) \div 64 # 3 /\ offset < end
  BY SMT
<1>. QED
  BY <1>1, Zenon DEF DetermineLength

LEMMA ReadFour ==
  ASSUME NEW b, NEW offset \in Nat, NEW end \in Nat, Byte(b, offset) \div 64 = 2, offset + 4 <= end
  PROVE  DetermineLength(b, offset, end) =
           {[length |-> 256 * (256 * (256 * (Byte(b, offset) % 64) + Byte(b, offset + 1))
                               + Byte(b, offset + 2)) + Byte(b, offset + 3),
             lengthFieldSize |-> 4]}
<1>1. /\ Byte(b, offset) \div 64 # 0 /\ Byte(b, offset) \div 64 # 1 /\ Byte(b, offset) \div 64 # 3
      /\ offset < end
  BY SMT
<1>. QED
  BY <1>1, Zenon DEF DetermineLength

\* A length reads back from where it was written, with the number of bytes it took, whatever
\* surrounds it: lengthEncoder and determineLength are inverse (variableLength.ts:20-83).
THEOREM LengthIsInverted ==
  ASSUME NEW n \in Nat, n < MaxLength,
         NEW b, NEW offset \in Nat, NEW end \in Nat,
         offset + Len(LengthEncoder(n)) <= end,
         Written(b, offset, n)
  PROVE  DetermineLength(b, offset, end) = {[length |-> n, lengthFieldSize |-> Len(LengthEncoder(n))]}
<1>1. CASE n < 64
  <2>1. LengthEncoder(n) = <<n>>
    BY <1>1, OneByte, SMT
  <2>2. Byte(b, offset) = n /\ offset + 1 <= end /\ Len(LengthEncoder(n)) = 1
    BY <2>1, SMT DEF Written
  <2>3. n \in 0 .. 63
    BY <1>1, SMT
  <2>. QED
    BY <2>2, <2>3, ReadOne, ZenonT(40)
<1>2. CASE n >= 64 /\ n < 16384
  <2>1. LengthEncoder(n) = <<64 + Shift8(n), n % 256>> /\ Shift8(n) \in 0 .. 63
    BY <1>2, TwoBytes, SMT
  <2>2. /\ Byte(b, offset) = 64 + Shift8(n) /\ Byte(b, offset + 1) = n % 256
        /\ offset + 2 <= end /\ Len(LengthEncoder(n)) = 2
    BY <2>1, SMT DEF Written
  <2>3. n = (256 * Shift8(n)) + (n % 256) /\ n % 256 \in 0 .. 255
    BY LastDigit, SMT
  <2>4. (64 + Shift8(n)) \div 64 = 1 /\ (64 + Shift8(n)) % 64 = Shift8(n)
    BY <2>1, PrefixBits, ZenonT(40)
  <2>5. Byte(b, offset) \div 64 = 1 /\ 256 * (Byte(b, offset) % 64) + Byte(b, offset + 1) = n
    BY <2>2, <2>3, <2>4, ZenonT(40)
  <2>. QED
    <3>1. DetermineLength(b, offset, end) =
            {[length |-> 256 * (Byte(b, offset) % 64) + Byte(b, offset + 1), lengthFieldSize |-> 2]}
      BY <2>2, <2>5, ReadTwo, SMT
    <3>. QED
      BY <2>2, <2>5, <3>1, ZenonT(40)
<1>3. CASE n >= 16384
  <2>. DEFINE n1 == Shift8(n)
              n2 == Shift8(n1)
              n3 == Shift8(n2)
  <2>1. LengthEncoder(n) = <<128 + n3, n2 % 256, n1 % 256, n % 256>>
    BY <1>3, MoreBytes, SMT DEF FourBytes
  <2>2. /\ Byte(b, offset) = 128 + n3 /\ Byte(b, offset + 1) = n2 % 256
        /\ Byte(b, offset + 2) = n1 % 256 /\ Byte(b, offset + 3) = n % 256
        /\ offset + 4 <= end /\ Len(LengthEncoder(n)) = 4
    BY <2>1, SMT DEF Written
  <2>3. n1 \in Nat /\ n = (256 * n1) + (n % 256) /\ n % 256 \in 0 .. 255
    BY LastDigit, SMT
  <2>4. n2 \in Nat /\ n1 = (256 * n2) + (n1 % 256) /\ n1 % 256 \in 0 .. 255
    BY <2>3, LastDigit, ZenonT(40)
  <2>5. n2 = (256 * n3) + (n2 % 256) /\ n2 % 256 \in 0 .. 255
    BY <2>4, LastDigit, ZenonT(40)
  <2>6. n3 \in 0 .. 63
    BY HighByte, ZenonT(40)
  <2>. HIDE DEF n1, n2, n3
  <2>7. n = 256 * (256 * (256 * n3 + (n2 % 256)) + (n1 % 256)) + (n % 256)
    <3>1. 256 * n3 + (n2 % 256) = n2 /\ 256 * n2 + (n1 % 256) = n1 /\ 256 * n1 + (n % 256) = n
      BY <2>3, <2>4, <2>5, ZenonT(40)
    <3>. QED
      BY <3>1, ZenonT(40)
  <2>8. (128 + n3) \div 64 = 2 /\ (128 + n3) % 64 = n3
    BY <2>6, PrefixBits, ZenonT(40)
  <2>9. /\ Byte(b, offset) \div 64 = 2
        /\ 256 * (256 * (256 * (Byte(b, offset) % 64) + Byte(b, offset + 1)) + Byte(b, offset + 2))
           + Byte(b, offset + 3) = n
    BY <2>2, <2>7, <2>8, ZenonT(40)
  <2>. QED
    <3>1. DetermineLength(b, offset, end) =
            {[length |-> 256 * (256 * (256 * (Byte(b, offset) % 64) + Byte(b, offset + 1))
                                + Byte(b, offset + 2)) + Byte(b, offset + 3),
              lengthFieldSize |-> 4]}
      BY <2>2, <2>9, ReadFour, SMT
    <3>. QED
      BY <2>2, <2>9, <3>1, ZenonT(40)
<1>. QED
  BY <1>1, <1>2, <1>3, SMT

\* A prefix that is cut off within its first byte or after it is refused.
THEOREM TruncatedLengthIsRefused ==
  ASSUME NEW n \in Nat, n < MaxLength,
         NEW b, NEW offset \in Nat, NEW end \in Nat,
         offset + Len(LengthEncoder(n)) > end,
         Written(b, offset, n)
  PROVE  DetermineLength(b, offset, end) = {}
<1>1. CASE n < 64
  <2>1. LengthEncoder(n) = <<n>>
    BY <1>1, OneByte, SMT
  <2>2. ~(offset < end)
    BY <2>1, SMT
  <2>. QED
    BY <2>2, SMT DEF DetermineLength
<1>2. CASE n >= 64 /\ n < 16384
  <2>1. LengthEncoder(n) = <<64 + Shift8(n), n % 256>> /\ Shift8(n) \in 0 .. 63
    BY <1>2, TwoBytes, SMT
  <2>2. Byte(b, offset) \div 64 = 1 /\ ~(offset + 2 <= end)
    BY <2>1, PrefixBits, SMT DEF Written
  <2>. QED
    BY <2>2, SMT DEF DetermineLength
<1>3. CASE n >= 16384
  <2>1. LengthEncoder(n) = FourBytes(n)
    BY <1>3, MoreBytes, SMT
  <2>2. Byte(b, offset) = 128 + Shift8(Shift8(Shift8(n))) /\ ~(offset + 4 <= end)
    BY <2>1, SMT DEF Written, FourBytes
  <2>3. Byte(b, offset) \div 64 = 2
    BY <2>2, HighByte, PrefixBits, ZenonT(40)
  <2>. QED
    BY <2>2, <2>3, SMT DEF DetermineLength
<1>. QED
  BY <1>1, <1>2, <1>3, SMT

-----------------------------------------------------------------------------
(***************************************************************************)
(* Whatever the tree, the concurrency and the size of the batches, the     *)
(* verdict on the credentials is the tree's.  First, the batches are a     *)
(* partition of the credentials.                                           *)
(***************************************************************************)
BatchSize == IF Individually THEN 1 ELSE IF batchSize < 1 THEN Len(credentials) ELSE batchSize

BatchCount == IF Len(credentials) = 0 THEN 0 ELSE ((Len(credentials) - 1) \div BatchSize) + 1

Partition ==
  /\ BatchCount \in Nat /\ DOMAIN Batches = 1 .. BatchCount /\ Len(Batches) = BatchCount
  /\ credentials # <<>> => BatchCount > 0
  /\ \A b \in DOMAIN Batches : Batches[b] \subseteq DOMAIN credentials
  /\ \A i \in DOMAIN credentials : \E b \in DOMAIN Batches : i \in Batches[b]
  /\ \A a, b \in DOMAIN Batches : Batches[a] \intersect Batches[b] # {} => a = b

SettingsOK ==
  /\ maxConcurrency \in Int /\ batchSize \in Int
  /\ credentials \in Seq(BOOLEAN)

\* Division by a positive number is monotonic and gives a natural number.
LEMMA DivMonotonic ==
  ASSUME NEW m \in Nat, NEW n \in Nat, NEW d \in Nat \ {0}, m <= n
  PROVE  m \div d \in Nat /\ n \div d \in Nat /\ m \div d <= n \div d
<1> DEFINE p == m \div d
           q == n \div d
<1>1. p \in Int /\ q \in Int
  OBVIOUS
<1>2. m = d * p + (m % d) /\ n = d * q + (n % d)
  OBVIOUS
<1>3. m % d \in 0 .. d - 1 /\ n % d \in 0 .. d - 1
  OBVIOUS
<1> HIDE DEF p, q
<1>4. p >= 0 /\ q >= 0
  <2>1. ASSUME NEW x \in Int, x < 0  PROVE d * x <= 0 - d
    BY <2>1
  <2> QED
    BY <1>1, <1>2, <1>3, <2>1
<1>5. p <= q
  <2>1. ASSUME p > q  PROVE d * p >= d * q + d
    BY <2>1, <1>1
  <2> QED
    BY <1>1, <1>2, <1>3, <2>1
<1> QED
  BY <1>1, <1>4, <1>5 DEF p, q

LEMMA BatchesPartition ==
  ASSUME SettingsOK
  PROVE  Partition
<1> DEFINE n == Len(credentials)
           s == BatchSize
           Part(b) == {i \in 1 .. n : (i - 1) \div s = b - 1}
<1>1. n \in Nat /\ DOMAIN credentials = 1 .. n
  BY DEF SettingsOK
<1>2. CASE n = 0
  <2>1. credentials = <<>> /\ BatchCount = 0
    BY <1>2 DEF SettingsOK, BatchCount
  <2>2. Batches = [b \in 1 .. 0 |-> Part(b)]
    BY <1>2 DEF Batches, BatchSize
  <2>3. Batches \in Seq({Part(b) : b \in 1 .. 0}) /\ DOMAIN Batches = 1 .. 0 /\ Len(Batches) = 0
    BY <2>2
  <2> QED
    BY <1>1, <1>2, <2>1, <2>3 DEF Partition
<1>3. CASE n # 0
  <2>1. s \in Nat \ {0}
    BY <1>1, <1>3 DEF BatchSize, SettingsOK, Individually
  <2>2. BatchCount = ((n - 1) \div s) + 1
    BY <1>3 DEF BatchCount
  <2>3. BatchCount \in Nat /\ BatchCount > 0
    BY <1>1, <1>3, <2>1, <2>2, DivMonotonic, n - 1 \in Nat
  <2>4. Batches = [b \in 1 .. BatchCount |-> Part(b)]
    BY <1>3, <2>2 DEF Batches, BatchSize
  <2> HIDE DEF s
  <2>5. DOMAIN Batches = 1 .. BatchCount /\ \A b \in 1 .. BatchCount : Batches[b] = Part(b)
    BY <2>4
  <2>6. Len(Batches) = BatchCount
    <3> HIDE DEF Part
    <3>1. Batches \in [1 .. BatchCount -> {Part(b) : b \in 1 .. BatchCount}]
      BY <2>4
    <3> QED
      BY <3>1, <2>3, FunctionIsSequence
  <2>7. ASSUME NEW i \in 1 .. n
        PROVE  \E b \in 1 .. BatchCount : i \in Part(b)
    <3>1. i - 1 \in Nat /\ n - 1 \in Nat /\ i - 1 <= n - 1
      BY <1>1
    <3>2. (i - 1) \div s \in Nat /\ (i - 1) \div s <= (n - 1) \div s /\ (n - 1) \div s \in Nat
      BY <2>1, <3>1, DivMonotonic
    <3>3. ((i - 1) \div s) + 1 \in 1 .. BatchCount
      BY <2>2, <3>2
    <3>4. i \in Part(((i - 1) \div s) + 1)
      BY <3>2
    <3> QED
      BY <3>3, <3>4
  <2>8. \A a, b \in 1 .. BatchCount : Part(a) \intersect Part(b) # {} => a = b
    BY <2>3
  <2> QED
    <3>1. \A b \in 1 .. BatchCount : Part(b) \subseteq 1 .. n
      OBVIOUS
    <3> HIDE DEF Part, n
    <3> QED
      BY <1>1, <2>3, <2>5, <2>6, <2>7, <2>8, <3>1 DEF Partition
<1> QED
  BY <1>2, <1>3

-----------------------------------------------------------------------------
(***************************************************************************)
(* The inductive invariant.  The batches below nextIndex have been taken;  *)
(* those of them that are not waiting have been answered, unless a call    *)
(* failed; a credential was asked about when its batch was taken; and the  *)
(* answers are what the service thinks of the credentials of their batch.  *)
(***************************************************************************)
Taken == 1 .. nextIndex - 1

Typed ==
  /\ SettingsOK
  /\ nextIndex \in 1 .. BatchCount + 1
  /\ waiting \subseteq Taken
  /\ results \in [1 .. BatchCount -> {"none", "ok", "error"}]
  /\ asked \in [DOMAIN credentials -> Nat]
  /\ failing \in BOOLEAN
  /\ verdict \in {"none", "valid", "invalid", "usage", "throws"}

AskedWhenTaken ==
  \A b \in 1 .. BatchCount : \A i \in Batches[b] : asked[i] = IF b < nextIndex THEN 1 ELSE 0

AnswersAreRight ==
  \A b \in 1 .. BatchCount :
    /\ results[b] # "none" => b \in Taken \ waiting
    /\ results[b] = "ok" => \A i \in Batches[b] : credentials[i]
    /\ results[b] = "error" => \E i \in Batches[b] : ~credentials[i]
    /\ b \in Taken \ waiting => results[b] # "none" \/ failing

WaitingIsBounded ==
  /\ IsFiniteSet(waiting)
  /\ Cardinality(waiting) <= IF maxConcurrency < 1 THEN 0 ELSE maxConcurrency

VerdictIsJudged ==
  /\ verdict = "usage" <=> maxConcurrency < 1
  /\ verdict \in {"usage", "valid", "invalid"} => waiting = {}
  /\ (verdict = "throws") = failing
  /\ verdict = "valid" => \A b \in 1 .. BatchCount : results[b] = "ok"
  /\ verdict = "invalid" => \E b \in 1 .. BatchCount : results[b] = "error"
  /\ verdict = "none" => credentials # <<>>
  /\ verdict = "none" /\ nextIndex > 1 => waiting # {}

IInv == Typed /\ AskedWhenTaken /\ AnswersAreRight /\ WaitingIsBounded /\ VerdictIsJudged

-----------------------------------------------------------------------------
Settings == <<maxConcurrency, batchSize, credentials>>

\* The settings do not change, and with them the batches.
LEMMA SettingsStay ==
  ASSUME Settings' = Settings
  PROVE  Batches' = Batches /\ BatchCount' = BatchCount /\ (SettingsOK => SettingsOK')
         /\ maxConcurrency' = maxConcurrency /\ batchSize' = batchSize /\ credentials' = credentials
BY DEF Settings, Batches, BatchCount, BatchSize, SettingsOK, Individually

LEMMA WorkersBounded ==
  ASSUME SettingsOK, maxConcurrency >= 1
  PROVE  /\ Workers \in 0 .. BatchCount /\ Workers <= maxConcurrency
         /\ credentials # <<>> => Workers >= 1
<1>1. Partition
  BY BatchesPartition
<1>2. maxConcurrency \in Int
  BY DEF SettingsOK
<1> QED
  BY <1>1, <1>2 DEF Partition, Workers

LEMMA IInvInit ==
  ASSUME CredentialsInit(Seq(BOOLEAN))
  PROVE  IInv
<1>1. SettingsOK
  BY SettingsAssumption DEF CredentialsInit, SettingsOK
<1>2. Partition
  BY <1>1, BatchesPartition
<1>3. Typed
  <2>1. nextIndex \in 1 .. BatchCount + 1 /\ waiting \subseteq Taken
    BY <1>2 DEF CredentialsInit, Partition, Taken
  <2>2. results \in [1 .. BatchCount -> {"none", "ok", "error"}]
    BY <1>2 DEF CredentialsInit, Partition
  <2>3. asked \in [DOMAIN credentials -> Nat] /\ failing \in BOOLEAN
    BY DEF CredentialsInit
  <2>4. verdict \in {"none", "valid", "invalid", "usage", "throws"}
    BY DEF CredentialsInit
  <2> QED
    BY <1>1, <2>1, <2>2, <2>3, <2>4 DEF Typed
<1>4. AskedWhenTaken
  BY <1>2 DEF AskedWhenTaken, CredentialsInit, Partition
<1>5. AnswersAreRight
  BY <1>2 DEF AnswersAreRight, CredentialsInit, Partition, Taken
<1>6. WaitingIsBounded
  BY <1>1, FS_EmptySet DEF WaitingIsBounded, CredentialsInit, SettingsOK
<1>7. VerdictIsJudged
  <2>1. credentials = <<>> => BatchCount = 0
    BY <1>1 DEF BatchCount, SettingsOK
  <2> QED
    <3>1. maxConcurrency \in Int /\ nextIndex = 1 /\ waiting = {} /\ failing = FALSE
      BY <1>1 DEF CredentialsInit, SettingsOK
    <3>2. verdict = IF maxConcurrency < 1 THEN "usage" ELSE IF credentials = <<>> THEN "valid" ELSE "none"
      BY DEF CredentialsInit
    <3>3. (verdict = "throws") = failing
      BY <3>1, <3>2
    <3>4. verdict = "valid" => \A b \in 1 .. BatchCount : results[b] = "ok"
      BY <2>1, <3>2
    <3>5. verdict = "usage" <=> maxConcurrency < 1
      BY <3>1, <3>2
    <3>6. verdict # "invalid" /\ (verdict = "none" => credentials # <<>>)
      BY <3>2
    <3>7. (verdict \in {"usage", "valid", "invalid"} => waiting = {})
          /\ ~(verdict = "none" /\ nextIndex > 1)
      BY <3>1
    <3> QED
      BY <3>3, <3>4, <3>5, <3>6, <3>7 DEF VerdictIsJudged
<1> QED
  BY <1>3, <1>4, <1>5, <1>6, <1>7 DEF IInv

-----------------------------------------------------------------------------
LEMMA StartWorkersKeepsIInv ==
  ASSUME IInv, StartWorkers
  PROVE  IInv'
<1> USE DEF StartWorkers
<1>1. Settings' = Settings
  BY DEF Settings
<1>2. /\ Batches' = Batches /\ BatchCount' = BatchCount /\ SettingsOK /\ SettingsOK'
      /\ maxConcurrency' = maxConcurrency /\ credentials' = credentials
  BY <1>1, SettingsStay DEF IInv, Typed
<1>3. Partition
  BY <1>2, BatchesPartition
<1>4. maxConcurrency \in Int /\ maxConcurrency >= 1 /\ credentials # <<>> /\ failing = FALSE
  BY <1>2 DEF IInv, Typed, VerdictIsJudged, SettingsOK
<1>5. Workers \in 1 .. BatchCount /\ Workers <= maxConcurrency /\ BatchCount \in Nat
  BY <1>2, <1>3, <1>4, WorkersBounded DEF Partition
<1>6. waiting' = 1 .. Workers /\ nextIndex' = 1 + Workers /\ waiting = {}
  BY <1>5 DEF TakenBy, IInv, Typed, Taken
<1>7. asked' = [i \in DOMAIN asked |-> asked[i] + IF \E b \in waiting' : i \in Batches[b] THEN 1 ELSE 0]
  BY DEF Ask
<1>8. Typed'
  <2>1. asked' \in [DOMAIN credentials -> Nat]
    BY <1>7 DEF IInv, Typed
  <2> QED
    BY <1>2, <1>5, <1>6, <2>1 DEF IInv, Typed, Taken
<1>9. AskedWhenTaken'
  <2> SUFFICES ASSUME NEW b \in 1 .. BatchCount, NEW i \in Batches[b]
               PROVE  asked'[i] = IF b < nextIndex' THEN 1 ELSE 0
    BY <1>2 DEF AskedWhenTaken
  <2>1. i \in DOMAIN asked /\ asked[i] = 0
    BY <1>3 DEF IInv, Typed, AskedWhenTaken, Partition
  <2>2. (\E a \in waiting' : i \in Batches[a]) <=> b \in waiting'
    BY <1>3, <1>5, <1>6 DEF Partition
  <2> QED
    BY <2>1, <2>2, <1>5, <1>6, <1>7
<1>10. AnswersAreRight'
  <2>1. \A b \in 1 .. BatchCount : results[b] = "none"
    BY <1>5 DEF IInv, AnswersAreRight, Taken
  <2>2. (Taken \ waiting)' = {}
    BY <1>5, <1>6 DEF Taken
  <2> QED
    BY <1>2, <2>1, <2>2 DEF AnswersAreRight
<1>11. WaitingIsBounded'
  BY <1>2, <1>4, <1>5, <1>6, FS_Interval DEF WaitingIsBounded
<1>12. VerdictIsJudged'
  BY <1>2, <1>4, <1>5, <1>6 DEF VerdictIsJudged, IInv
<1> QED
  BY <1>8, <1>9, <1>10, <1>11, <1>12 DEF IInv

LEMMA FailedKeepsIInv ==
  ASSUME IInv, NEW b \in waiting, Failed(b)
  PROVE  IInv'
<1> USE DEF Failed
<1>1. Settings' = Settings
  BY DEF Settings
<1>2. /\ Batches' = Batches /\ BatchCount' = BatchCount /\ SettingsOK /\ SettingsOK'
      /\ maxConcurrency' = maxConcurrency /\ credentials' = credentials
  BY <1>1, SettingsStay DEF IInv, Typed
<1>3. Typed'
  BY <1>2 DEF IInv, Typed, Taken
<1>4. AskedWhenTaken'
  BY <1>2 DEF IInv, AskedWhenTaken
<1>5. AnswersAreRight'
  BY <1>2 DEF IInv, AnswersAreRight, Taken
<1>6. WaitingIsBounded'
  <2>1. IsFiniteSet(waiting') /\ Cardinality(waiting') <= Cardinality(waiting)
        /\ Cardinality(waiting) \in Nat /\ Cardinality(waiting') \in Nat
    <3>1. IsFiniteSet(waiting) /\ Cardinality(waiting) \in Nat
      BY FS_CardinalityType DEF IInv, WaitingIsBounded
    <3>2. IsFiniteSet(waiting \ {b}) /\ Cardinality(waiting \ {b}) = Cardinality(waiting) - 1
      BY <3>1, FS_RemoveElement
    <3>3. Cardinality(waiting \ {b}) \in Nat
      BY <3>2, FS_CardinalityType
    <3> QED
      BY <3>1, <3>2, <3>3
  <2> QED
    <3>1. maxConcurrency \in Int
      BY <1>2 DEF SettingsOK
    <3>2. Cardinality(waiting) <= IF maxConcurrency < 1 THEN 0 ELSE maxConcurrency
      BY DEF IInv, WaitingIsBounded
    <3> QED
      BY <2>1, <1>2, <3>1, <3>2 DEF WaitingIsBounded
<1>7. VerdictIsJudged'
  BY <1>2 DEF IInv, VerdictIsJudged
<1> QED
  BY <1>3, <1>4, <1>5, <1>6, <1>7 DEF IInv

LEMMA AnsweredKeepsIInv ==
  ASSUME IInv, NEW b \in waiting, Answered(b)
  PROVE  IInv'
<1> DEFINE answer == IF \A i \in Batches[b] : credentials[i] THEN "ok" ELSE "error"
           next == IF nextIndex <= Len(Batches) /\ ~Stops(results') THEN {nextIndex} ELSE {}
<1>1. Settings' = Settings
  BY DEF Settings, Answered
<1>2. /\ Batches' = Batches /\ BatchCount' = BatchCount /\ SettingsOK /\ SettingsOK'
      /\ maxConcurrency' = maxConcurrency /\ credentials' = credentials /\ failing' = failing
  BY <1>1, SettingsStay DEF IInv, Typed, Answered
<1>3. Partition
  BY <1>2, BatchesPartition
<1>4. BatchCount \in Nat /\ nextIndex \in 1 .. BatchCount + 1 /\ waiting \subseteq 1 .. nextIndex - 1
      /\ Len(Batches) = BatchCount
  BY <1>3 DEF IInv, Typed, Taken, Partition
<1>5. b \in 1 .. BatchCount /\ b < nextIndex
  BY <1>4
<1>6. /\ results \in [1 .. BatchCount -> {"none", "ok", "error"}]
      /\ results' = [results EXCEPT ![b] = answer]
  BY DEF IInv, Typed, Answered, Record
<1>7. /\ waiting' = (waiting \ {b}) \union next
      /\ nextIndex' = IF next = {} THEN nextIndex ELSE nextIndex + 1
      /\ asked' = [i \in DOMAIN asked |-> asked[i] + IF \E a \in next : i \in Batches[a] THEN 1 ELSE 0]
  BY DEF Answered, GoOn, Ask
<1>8. verdict' = IF waiting' = {} /\ verdict = "none" THEN Judge(results') ELSE verdict
  BY DEF Answered
<1>9. next \subseteq {nextIndex} /\ (next # {} => nextIndex \in 1 .. BatchCount)
  BY <1>4
<1>10. answer \in {"ok", "error"}
  OBVIOUS
<1>11. next = {} <=> nextIndex > BatchCount \/ Stops(results')
  BY <1>4
<1>12. (answer = "ok" => \A i \in Batches[b] : credentials[i])
       /\ (answer = "error" => \E i \in Batches[b] : ~credentials[i])
  OBVIOUS
<1>13. waiting # {} /\ verdict \in {"none", "throws"} /\ maxConcurrency >= 1 /\ maxConcurrency \in Int
  BY <1>2 DEF IInv, Typed, VerdictIsJudged, SettingsOK
<1> HIDE DEF next, answer
<1>14. Typed'
  <2>1. asked' \in [DOMAIN credentials -> Nat]
    BY <1>7 DEF IInv, Typed
  <2>2. results' \in [1 .. BatchCount -> {"none", "ok", "error"}]
    BY <1>6, <1>10
  <2>3. nextIndex' \in 1 .. BatchCount + 1 /\ waiting' \subseteq 1 .. nextIndex' - 1
    BY <1>4, <1>7, <1>9
  <2>4. verdict' \in {"none", "valid", "invalid", "usage", "throws"} /\ failing' \in BOOLEAN
    BY <1>2, <1>8 DEF IInv, Typed, Judge
  <2> QED
    BY <1>2, <2>1, <2>2, <2>3, <2>4 DEF Typed, Taken
<1>15. AskedWhenTaken'
  <2> SUFFICES ASSUME NEW a \in 1 .. BatchCount, NEW i \in Batches[a]
               PROVE  asked'[i] = IF a < nextIndex' THEN 1 ELSE 0
    BY <1>2 DEF AskedWhenTaken
  <2>1. i \in DOMAIN asked /\ asked[i] = IF a < nextIndex THEN 1 ELSE 0
    BY <1>3 DEF IInv, Typed, AskedWhenTaken, Partition
  <2>2. (\E x \in next : i \in Batches[x]) <=> next = {a}
    BY <1>3, <1>9 DEF Partition
  <2> QED
    BY <2>1, <2>2, <1>4, <1>7, <1>9
<1>16. AnswersAreRight'
  <2> SUFFICES ASSUME NEW a \in 1 .. BatchCount
               PROVE  /\ results'[a] # "none" => a \in (Taken \ waiting)'
                      /\ results'[a] = "ok" => \A i \in Batches[a] : credentials[i]
                      /\ results'[a] = "error" => \E i \in Batches[a] : ~credentials[i]
                      /\ a \in (Taken \ waiting)' => results'[a] # "none" \/ failing
    BY <1>2 DEF AnswersAreRight
  <2>1. a \in (Taken \ waiting)' <=> a \in (Taken \ waiting) \union {b}
    BY <1>4, <1>5, <1>7, <1>9 DEF Taken
  <2>2. results'[a] = IF a = b THEN answer ELSE results[a]
    BY <1>5, <1>6
  <2>3. CASE a = b
    BY <2>1, <2>2, <2>3, <1>10, <1>12
  <2>4. CASE a # b
    BY <2>1, <2>2, <2>4 DEF IInv, AnswersAreRight
  <2> QED
    BY <2>3, <2>4
<1>17. WaitingIsBounded'
  <2>1. IsFiniteSet(waiting \ {b}) /\ Cardinality(waiting \ {b}) = Cardinality(waiting) - 1
        /\ Cardinality(waiting) \in Nat
    BY FS_RemoveElement, FS_CardinalityType DEF IInv, WaitingIsBounded
  <2>2. IsFiniteSet(waiting') /\ Cardinality(waiting') <= Cardinality(waiting)
        /\ Cardinality(waiting') \in Nat
    <3>1. waiting' = waiting \ {b} \/ waiting' = (waiting \ {b}) \union {nextIndex}
      BY <1>7, <1>9
    <3>2. IsFiniteSet((waiting \ {b}) \union {nextIndex})
          /\ Cardinality((waiting \ {b}) \union {nextIndex})
               \in {Cardinality(waiting \ {b}), Cardinality(waiting \ {b}) + 1}
      BY <2>1, FS_AddElement
    <3>3. IsFiniteSet(waiting')
          /\ Cardinality(waiting') \in {Cardinality(waiting \ {b}), Cardinality(waiting \ {b}) + 1}
      BY <2>1, <3>1, <3>2
    <3>4. Cardinality(waiting') \in Nat
      BY <3>3, FS_CardinalityType
    <3> QED
      BY <2>1, <3>3, <3>4
  <2>3. Cardinality(waiting) <= maxConcurrency
    BY <1>13 DEF IInv, WaitingIsBounded
  <2>4. Cardinality(waiting') <= maxConcurrency
    BY <2>1, <2>2, <2>3, <1>13
  <2>5. ~(maxConcurrency < 1)
    BY <1>13
  <2> QED
    BY <2>2, <2>4, <2>5, <1>2 DEF WaitingIsBounded
<1>18. VerdictIsJudged'
  <2>1. DOMAIN results' = 1 .. BatchCount
    BY <1>6
  <2>2. (verdict' = "throws") = failing'
    BY <1>2, <1>8 DEF IInv, VerdictIsJudged, Judge
  <2>3. verdict' \in {"valid", "invalid"} => waiting' = {} /\ verdict' = Judge(results')
    BY <1>8, <1>13
  <2>4. verdict' = "none" => waiting' # {}
    <3> SUFFICES ASSUME waiting' = {}, verdict = "none"  PROVE Judge(results') # "none"
      BY <1>8
    <3>1. next = {} /\ nextIndex' = nextIndex
      BY <1>7
    <3>2. CASE Stops(results')
      BY <3>2 DEF Stops
    <3>3. CASE nextIndex > BatchCount
      <4>1. \A a \in 1 .. BatchCount : a \in (Taken \ waiting)'
        BY <3>1, <3>3, <1>4 DEF Taken
      <4>2. failing' = FALSE
        BY <1>2 DEF IInv, Typed, VerdictIsJudged
      <4>3. \A a \in 1 .. BatchCount : results'[a] # "none"
        BY <1>2, <1>16, <4>1, <4>2 DEF AnswersAreRight
      <4>4. \A a \in 1 .. BatchCount : results'[a] \in {"ok", "error"}
        BY <4>3, <1>6, <1>10
      <4> QED
        BY <2>1, <4>4 DEF Judge
    <3> QED
      BY <3>1, <3>2, <3>3, <1>11
  <2>5. verdict' # "usage" /\ ~(maxConcurrency' < 1)
    BY <1>2, <1>8, <1>13 DEF Judge
  <2>6. credentials' # <<>>
    <3>1. BatchCount > 0
      BY <1>4, <1>5
    <3> QED
      BY <1>2, <3>1 DEF BatchCount, SettingsOK
  <2>7. (Judge(results') = "valid" => \A a \in 1 .. BatchCount : results'[a] = "ok")
        /\ (Judge(results') = "invalid" => \E a \in 1 .. BatchCount : results'[a] = "error")
    BY <2>1 DEF Judge
  <2> QED
    BY <2>2, <2>3, <2>4, <2>5, <2>6, <2>7, <1>2 DEF VerdictIsJudged
<1> QED
  BY <1>14, <1>15, <1>16, <1>17, <1>18 DEF IInv

LEMMA VerdictFollows ==
  ASSUME IInv
  PROVE  VerdictIsTheTrees
<1>1. Partition /\ SettingsOK
  BY BatchesPartition DEF IInv, Typed
<1>2. \A i \in DOMAIN credentials : \E b \in 1 .. BatchCount : i \in Batches[b]
  BY <1>1 DEF Partition
<1>3. \A b \in 1 .. BatchCount : Batches[b] \subseteq DOMAIN credentials
  BY <1>1 DEF Partition
<1>4. \A b \in 1 .. BatchCount :
         results[b] # "none" => b < nextIndex /\ \A i \in Batches[b] : asked[i] = 1
  BY <1>1 DEF IInv, AskedWhenTaken, AnswersAreRight, Taken, Typed, Partition
<1>5. verdict = "valid" => \A i \in DOMAIN credentials : credentials[i] /\ asked[i] = 1
  BY <1>2, <1>4 DEF IInv, VerdictIsJudged, AnswersAreRight
<1>6. verdict = "invalid" => \E i \in DOMAIN credentials : ~credentials[i] /\ asked[i] = 1
  BY <1>3, <1>4 DEF IInv, VerdictIsJudged, AnswersAreRight
<1>7. \A i \in DOMAIN asked : asked[i] <= 1
  BY <1>1, <1>2 DEF IInv, AskedWhenTaken, Typed
<1>8. Cardinality(waiting) <= IF maxConcurrency < 1 THEN 0 ELSE maxConcurrency
  BY DEF IInv, WaitingIsBounded
<1>9. (verdict = "throws") = failing /\ (waiting = {} /\ nextIndex > 1 => verdict # "none")
  BY DEF IInv, VerdictIsJudged
<1> QED
  BY <1>5, <1>6, <1>7, <1>8, <1>9 DEF VerdictIsTheTrees

(***************************************************************************)
(* Whatever the tree, the settings and the order of the answers: a tree is *)
(* accepted only if the service was asked about every credential, once,    *)
(* and accepted it, it is rejected only for a credential the service did   *)
(* not accept, no more calls wait than allowed, and a validation whose     *)
(* calls are all answered has a verdict (mapConcurrent of util/array.ts,   *)
(* validateRatchetTree of validation.ts).                                  *)
(***************************************************************************)
THEOREM VerdictIsRight == CredentialsSpec => []VerdictIsTheTrees
<1>1. CredentialsInit(Seq(BOOLEAN)) => IInv
  BY IInvInit
<1>2. IInv /\ [CredentialsNext]_credentialVars => IInv'
  <2> SUFFICES ASSUME IInv, [CredentialsNext]_credentialVars  PROVE IInv'
    OBVIOUS
  <2>1. CASE StartWorkers
    BY <2>1, StartWorkersKeepsIInv
  <2>2. ASSUME NEW b \in waiting, Answered(b)  PROVE IInv'
    BY <2>2, AnsweredKeepsIInv
  <2>3. ASSUME NEW b \in waiting, Failed(b)  PROVE IInv'
    BY <2>3, FailedKeepsIInv
  <2>4. CASE UNCHANGED credentialVars
    <3>1. /\ Batches' = Batches /\ BatchCount' = BatchCount /\ SettingsOK'
          /\ maxConcurrency' = maxConcurrency /\ credentials' = credentials
      BY <2>4, SettingsStay DEF Settings, credentialVars, IInv, Typed
    <3> QED
      BY <2>4, <3>1 DEF credentialVars, IInv, Typed, AskedWhenTaken, AnswersAreRight,
                        WaitingIsBounded, VerdictIsJudged, Taken
  <2> QED
    BY <2>1, <2>2, <2>3, <2>4 DEF CredentialsNext
<1>3. IInv => VerdictIsTheTrees
  BY VerdictFollows
<1> QED
  BY <1>1, <1>2, <1>3, PTL DEF CredentialsSpec

-----------------------------------------------------------------------------
(***************************************************************************)
(* The climb.  The inductive invariant: what has been climbed is the       *)
(* beginning of the direct path, and the node reached is its last.         *)
(***************************************************************************)
Climbing(h, w, x, y, climb) ==
  /\ w = 2^h /\ x \in Full(h) /\ y \in Full(h) /\ x \in Block(y)
  /\ climb \in Seq(Full(h)) /\ Level(y) = Level(x) + Len(climb)
  /\ \A i \in 1 .. Len(climb) : climb[i] = DirectPath(x, w)[i]
  /\ y = IF climb = <<>> THEN x ELSE climb[Len(climb)]

ClimbInv == \E h \in Nat : Climbing(h, climbWidth, climbStart, climbNode, climbed)

LEMMA ClimbOne ==
  ASSUME NEW h \in Nat, NEW w, NEW x, NEW y, NEW climb, Climbing(h, w, x, y, climb), y # Root(w)
  PROVE  Climbing(h, w, x, Parent(y), Append(climb, Parent(y)))
<1> DEFINE p == DirectPath(x, w)
           n == Len(climb)
           z == Parent(y)
           more == Append(climb, z)
<1>1. w = 2^h /\ x \in Full(h) /\ y \in Full(h) /\ Root(w) = Top(h) /\ climb \in Seq(Full(h))
  BY WidthBasics DEF Climbing
<1>2. PathFrom(x, h, p)
  BY <1>1, DirectPathIs
<1> HIDE DEF p
<1>3. z \in Full(h) /\ y \in Nat /\ Level(y) < h /\ x \in Nat /\ Level(x) \in Nat
  BY <1>1, NodeOfTree
<1>4. z \in Nat /\ Level(z) = Level(y) + 1 /\ Block(y) \subseteq Block(z)
  BY <1>3, ParentBasics
<1> HIDE DEF z
<1>5. /\ more \in Seq(Full(h)) /\ Len(more) = n + 1 /\ more # <<>> /\ n \in Nat
      /\ more[n + 1] = z /\ \A i \in 1 .. n : more[i] = climb[i]
  BY <1>1, <1>3, AppendIs
<1> HIDE DEF more
<1>6. Level(y) = Level(x) + n /\ n + 1 \in DOMAIN p
  BY <1>2, <1>3, <1>5 DEF Climbing, PathFrom
<1>7. p[n + 1] = z
  <2>1. p[n + 1] = Parent(IF n + 1 = 1 THEN x ELSE p[(n + 1) - 1])
    BY <1>2, <1>6 DEF PathFrom
  <2>2. CASE n = 0
    <3>1. climb = <<>>
      BY <1>1, <2>2
    <3>2. y = x
      BY <3>1 DEF Climbing
    <3> QED
      BY <2>1, <2>2, <3>2 DEF z
  <2>3. CASE n # 0
    <3>1. n \in 1 .. n /\ (n + 1) - 1 = n /\ n + 1 # 1 /\ climb # <<>>
      BY <1>1, <1>5, <2>3
    <3>2. climb[n] = p[n] /\ y = climb[n]
      BY <3>1 DEF Climbing, p
    <3> QED
      BY <2>1, <3>1, <3>2 DEF z
  <2> QED
    BY <2>2, <2>3
<1>8. \A i \in 1 .. n + 1 : more[i] = p[i]
  <2>1. \A i \in 1 .. n : climb[i] = p[i]
    BY DEF Climbing, p
  <2> QED
    BY <1>5, <1>7, <2>1
<1>9. x \in Block(z) /\ Level(z) = Level(x) + (n + 1)
  BY <1>3, <1>4, <1>5, <1>6 DEF Climbing
<1> HIDE DEF n
<1> QED
  BY <1>1, <1>3, <1>5, <1>8, <1>9 DEF Climbing, more, z, p

LEMMA ClimbInvariant == ClimbSpec => []ClimbInv
<1>1. ClimbInit({2^h : h \in Nat}) => ClimbInv
  <2> SUFFICES ASSUME ClimbInit({2^h : h \in Nat})  PROVE ClimbInv
    OBVIOUS
  <2>1. PICK h \in Nat : climbWidth = 2^h
    BY DEF ClimbInit
  <2>2. climbStart \in Full(h) /\ climbNode = climbStart /\ climbed = <<>>
    BY <2>1, WidthBasics DEF ClimbInit, Nodes
  <2>3. climbStart \in Nat /\ climbStart \in Block(climbStart) /\ Level(climbStart) \in Nat
    BY <2>2, NodeOfTree, NodeBasics
  <2>4. climbed \in Seq(Full(h)) /\ Len(climbed) = 0
    BY <2>2
  <2> QED
    BY <2>1, <2>2, <2>3, <2>4 DEF ClimbInv, Climbing
<1>2. ClimbInv /\ [Climb]_climbVars => ClimbInv'
  <2> SUFFICES ASSUME ClimbInv, [Climb]_climbVars  PROVE ClimbInv'
    OBVIOUS
  <2>1. CASE Climb
    <3>1. PICK h \in Nat : Climbing(h, climbWidth, climbStart, climbNode, climbed)
      BY DEF ClimbInv
    <3>2. Climbing(h, climbWidth, climbStart, Parent(climbNode), Append(climbed, Parent(climbNode)))
      BY <2>1, <3>1, ClimbOne DEF Climb
    <3> QED
      BY <2>1, <3>2 DEF Climb, ClimbInv
  <2>2. CASE UNCHANGED climbVars
    BY <2>2 DEF climbVars, ClimbInv
  <2> QED
    BY <2>1, <2>2
<1> QED
  BY <1>1, <1>2, PTL DEF ClimbSpec

LEMMA SpanIsBlock ==
  ASSUME NEW h \in Nat, climbWidth = 2^h
  PROVE  Nodes = Full(h) /\ \A x \in Full(h) : Span(x) = Block(x)
<1>1. Nodes = Full(h)
  BY WidthBasics DEF Nodes
<1>2. ASSUME NEW x \in Full(h)  PROVE Span(x) = Block(x)
  <2>1. x \in Nat /\ Level(x) \in Nat /\ Block(x) \subseteq Full(h) /\ 2^Level(x) \in Nat
    BY NodeOfTree, PowerOfTwo
  <2>2. Full(h) \subseteq Nat
    BY TopBasics
  <2>3. \A y \in Full(h) : y \in Block(x) <=> x - y < 2^Level(x) /\ y - x < 2^Level(x)
    BY <2>1, <2>2 DEF Block
  <2> QED
    BY <1>1, <2>1, <2>3 DEF Span
<1> QED
  BY <1>1, <1>2

(***************************************************************************)
(* In a tree of any width climbing by parent stays in the tree and, at the *)
(* root, has visited what directPath returns: exactly the proper ancestors *)
(* of the start, which isAncestor knows (treemath.ts:80-116).              *)
(***************************************************************************)
THEOREM ClimbFindsTheAncestors == ClimbSpec => []PathIsTheAncestors
<1>1. ClimbInv => PathIsTheAncestors
  <2> SUFFICES ASSUME ClimbInv  PROVE PathIsTheAncestors
    OBVIOUS
  <2>1. PICK h \in Nat : Climbing(h, climbWidth, climbStart, climbNode, climbed)
    BY DEF ClimbInv
  <2> DEFINE p == DirectPath(climbStart, climbWidth)
  <2>2. climbWidth = 2^h /\ climbStart \in Full(h) /\ climbNode \in Full(h) /\ climbed \in Seq(Full(h))
    BY <2>1 DEF Climbing
  <2>3. PathFrom(climbStart, h, p)
    BY <2>2, DirectPathIs
  <2>4. Nodes = Full(h) /\ \A x \in Full(h) : Span(x) = Block(x)
    BY <2>2, SpanIsBlock
  <2>5. {p[i] : i \in DOMAIN p} = {y \in Full(h) \ {climbStart} : climbStart \in Block(y)}
    BY <2>2, <2>3, AboveIs
  <2>6. ASSUME climbNode = Root(climbWidth)  PROVE climbed = p
    <3>1. Level(climbNode) = h /\ Level(climbStart) \in Nat
      <4>1. Level(climbStart) \in Nat
        BY <2>2, NodeOfTree
      <4>2. Root(climbWidth) = Top(h)
        BY <2>2, WidthBasics
      <4> QED
        BY <2>6, <4>1, <4>2, TopBasics
    <3>2. Len(climbed) = h - Level(climbStart) /\ Len(p) = h - Level(climbStart)
      BY <2>1, <2>2, <2>3, <3>1 DEF Climbing, PathFrom
    <3>3. p \in Seq(Full(h))
      BY <2>3 DEF PathFrom
    <3>4. \A i \in 1 .. Len(climbed) : climbed[i] = p[i]
      BY <2>1 DEF Climbing
    <3>5. \A r, s \in Seq(Full(h)) : Len(r) = Len(s) /\ (\A i \in 1 .. Len(r) : r[i] = s[i]) => r = s
      OBVIOUS
    <3> HIDE DEF p
    <3> QED
      BY <2>2, <3>2, <3>3, <3>4, <3>5
  <2>7. LeafWidthOf(NodeWidthOf(climbWidth)) = climbWidth
    BY <2>2, WidthBasics
  <2>8. \A y : IsAncestor(climbStart, y, NodeWidthOf(climbWidth)) <=> y \in ToSet(p)
    BY <2>7 DEF IsAncestor, ToSet
  <2>9. ToSet(p) = {y \in Nodes \ {climbStart} : climbStart \in Span(y)}
    BY <2>4, <2>5 DEF ToSet
  <2> HIDE DEF p
  <2> QED
    BY <2>2, <2>4, <2>6, <2>8, <2>9 DEF PathIsTheAncestors, p
<1> QED
  BY <1>1, ClimbInvariant, PTL

(***************************************************************************)
(* In a tree of any width the subtrees of a node and of its copath share   *)
(* out the leaves: none is left out and none is reached twice              *)
(* (treemath.ts:87-112).                                                   *)
(***************************************************************************)
THEOREM CopathSharesOutTheLeaves == ClimbSpec => []CopathPartitions
<1>1. ClimbInv => CopathPartitions
  <2> SUFFICES ASSUME ClimbInv  PROVE CopathPartitions
    OBVIOUS
  <2>1. PICK h \in Nat : Climbing(h, climbWidth, climbStart, climbNode, climbed)
    BY DEF ClimbInv
  <2> DEFINE x == climbStart
             p == DirectPath(x, climbWidth)
             c == Copath(x, climbWidth)
             parts == {x} \union ToSet(c)
  <2>2. climbWidth = 2^h /\ x \in Full(h)
    BY <2>1 DEF Climbing
  <2>3. PathFrom(x, h, p) /\ CopathFrom(x, h, p, c)
    BY <2>2, DirectPathIs, CopathIs
  <2>4. Nodes = Full(h) /\ \A y \in Full(h) : Span(y) = Block(y)
    BY <2>2, SpanIsBlock
  <2> HIDE DEF p, c
  <2>5. ToSet(c) = {c[i] : i \in DOMAIN c} /\ DOMAIN c = DOMAIN p /\ \A i \in DOMAIN c : c[i] \in Full(h)
    BY <2>3 DEF ToSet, CopathFrom
  <2>6. parts \subseteq Full(h) /\ \A y \in parts : LeavesUnder(y) = {z \in Block(y) : IsLeaf(z)}
    BY <2>2, <2>4, <2>5 DEF LeavesUnder
  <2>7. \A y \in parts : Block(y) \subseteq Full(h)
    BY <2>6, NodeOfTree
  <2>8. ASSUME NEW z \in Full(h), IsLeaf(z)  PROVE \E y \in parts : z \in Block(y)
    <3>1. \A i \in DOMAIN p : z # p[i]
      BY <2>3, <2>5, <2>8 DEF CopathFrom
    <3>2. z \in Block(x) \/ \E i \in DOMAIN c : z \in Block(c[i])
      BY <2>2, <2>3, <3>1, CopathCovers
    <3> QED
      BY <2>5, <3>2
  <2>9. ASSUME NEW y \in parts, NEW z \in parts, y # z  PROVE Block(y) \intersect Block(z) = {}
    <3>1. CASE y = x
      <4>1. PICK i \in DOMAIN c : z = c[i]
        BY <2>5, <2>9, <3>1
      <4> QED
        BY <2>2, <2>3, <3>1, <4>1, CopathDisjoint
    <3>2. CASE y # x
      <4>1. PICK i \in DOMAIN c : y = c[i]
        BY <2>5, <3>2
      <4>2. Block(c[i]) \intersect Block(x) = {} /\ \A j \in DOMAIN c : j # i => Block(c[i]) \intersect Block(c[j]) = {}
        BY <2>2, <2>3, CopathDisjoint
      <4>3. z = x \/ \E j \in DOMAIN c : z = c[j]
        BY <2>5
      <4> QED
        BY <2>9, <4>1, <4>2, <4>3
    <3> QED
      BY <3>1, <3>2
  <2> HIDE DEF parts
  <2>10. UNION {LeavesUnder(y) : y \in parts} = {z \in Nodes : IsLeaf(z)}
    BY <2>4, <2>6, <2>7, <2>8
  <2>11. \A y, z \in parts : y # z => LeavesUnder(y) \intersect LeavesUnder(z) = {}
    BY <2>6, <2>9
  <2> QED
    BY <2>10, <2>11 DEF CopathPartitions, parts, c
<1> QED
  BY <1>1, ClimbInvariant, PTL

(***************************************************************************)
(* Both of these, as the run checks them: directPath and copath are right  *)
(* at every node of every tree (treemath.ts:87-116).                       *)
(***************************************************************************)
THEOREM PathsFitAllTrees == ClimbSpec => []PathsFitTheTree
BY ClimbFindsTheAncestors, CopathSharesOutTheLeaves, PTL DEF PathsFitTheTree

-----------------------------------------------------------------------------
(***************************************************************************)
(* Trees.  Beyond its end a tree is blank: a node has a value in every     *)
(* tree, so that growing and cutting a tree changes none.                  *)
(***************************************************************************)
IsNode(x) ==
  /\ x = [key |-> x.key, unmergedLeaves |-> x.unmergedLeaves, client |-> x.client, parentHash |-> x.parentHash]
  /\ x.unmergedLeaves \in Seq(Nat)
  /\ x = Blank \/ x.key # NoKey

IsTreeOf(t, h) ==
  /\ h \in Nat
  /\ t = [n \in Full(h) |-> t[n]]
  /\ \A n \in Full(h) : IsNode(t[n])

At(t, x) == IF x \in DOMAIN t THEN t[x] ELSE Blank

\* What goes over the nodes of a function.
LEMMA Over ==
  ASSUME NEW f, NEW g
  PROVE  /\ f ++ g = [x \in (DOMAIN f) \union (DOMAIN g) |-> IF x \in DOMAIN f THEN f[x] ELSE g[x]]
         /\ DOMAIN (f ++ g) = (DOMAIN f) \union (DOMAIN g)
         /\ \A x \in DOMAIN f : (f ++ g)[x] = f[x]
         /\ \A x \in DOMAIN g : (f ++ g)[x] = IF x \in DOMAIN f THEN f[x] ELSE g[x]
BY DEF ++

LEMMA TreeShape ==
  ASSUME NEW t, NEW h, IsTreeOf(t, h)
  PROVE  /\ h \in Nat /\ DOMAIN t = Full(h) /\ Full(h) \subseteq Nat
         /\ \A n \in Full(h) : IsNode(t[n])
         /\ t = [n \in Full(h) |-> t[n]]
         /\ Cardinality(DOMAIN t) = 2^(h + 1) - 1 /\ 2^(h + 1) \in Nat \ {0}
         /\ WidthOf(t) = 2^h /\ RootOf(t) = Top(h) /\ Top(h) \in Full(h)
<1> DEFINE p == 2^(h + 1)
<1>1. h \in Nat /\ DOMAIN t = Full(h) /\ (\A n \in Full(h) : IsNode(t[n])) /\ t = [n \in Full(h) |-> t[n]]
  BY DEF IsTreeOf
<1>2. p \in Nat \ {0}
  BY <1>1, PowerOfTwo
<1>3. Full(h) = 0 .. p - 2 /\ Full(h) \subseteq Nat
  BY <1>1, <1>2 DEF Full
<1>4. Cardinality(DOMAIN t) = p - 1
  <2> HIDE DEF p
  <2>1. Cardinality(0 .. p - 2) = IF 0 > p - 2 THEN 0 ELSE (p - 2) - 0 + 1
    BY <1>2, FS_Interval
  <2> QED
    BY <1>1, <1>2, <1>3, <2>1
<1>5. WidthOf(t) = 2^h /\ RootOf(t) = Top(h)
  BY <1>1, <1>4, WidthBasics DEF WidthOf, RootOf
<1> QED
  BY <1>1, <1>2, <1>3, <1>4, <1>5, TopBasics

LEMMA AboveNode ==
  ASSUME NEW t, NEW h, IsTreeOf(t, h), NEW n \in Full(h)
  PROVE  /\ PathFrom(n, h, AncestorsOf(t, n))
         /\ Above(t, n) = {y \in Full(h) \ {n} : n \in Block(y)}
<1>1. h \in Nat /\ WidthOf(t) = 2^h
  BY TreeShape
<1> DEFINE p == AncestorsOf(t, n)
<1>2. PathFrom(n, h, p)
  BY <1>1, DirectPathIs DEF AncestorsOf
<1> HIDE DEF p
<1>3. {p[i] : i \in DOMAIN p} = {y \in Full(h) \ {n} : n \in Block(y)}
  BY <1>1, <1>2, AboveIs
<1>4. Above(t, n) = {p[i] : i \in DOMAIN p}
  BY DEF Above, ToSet, p
<1> QED
  BY <1>2, <1>3, <1>4 DEF p

LEMMA BlankIsNode == IsNode(Blank) /\ Blank.key = NoKey /\ Blank.unmergedLeaves = <<>> /\ Blank.client = Nobody
BY DEF IsNode, Blank, NoKey

-----------------------------------------------------------------------------
\* updateLeafNodeMutable at some leaves: their nodes, blanks above them.
LeavesSet(t, h, leafNodes, u) ==
  /\ IsTreeOf(u, h)
  /\ \A x \in Full(h) :
       u[x] = IF x \in DOMAIN leafNodes THEN leafNodes[x]
              ELSE IF \E n \in DOMAIN leafNodes : n \in Block(x) THEN Blank ELSE t[x]

LEMMA UpdateLeafNodesIs ==
  ASSUME NEW t, NEW h, IsTreeOf(t, h), NEW f, DOMAIN f \subseteq Full(h), \A n \in DOMAIN f : IsNode(f[n])
  PROVE  LeavesSet(t, h, f, UpdateLeafNodes(t, f))
<1> DEFINE above == [n \in UNION {Above(t, at) : at \in DOMAIN f} |-> Blank]
           u == UpdateLeafNodes(t, f)
<1>1. DOMAIN t = Full(h) /\ h \in Nat /\ \A n \in Full(h) : IsNode(t[n])
  BY TreeShape
<1>2. DOMAIN above = {x \in Full(h) \ DOMAIN f : \E n \in DOMAIN f : n \in Block(x)}
        \union {x \in DOMAIN f : \E n \in DOMAIN f : n # x /\ n \in Block(x)}
  <2>1. \A n \in DOMAIN f : Above(t, n) = {y \in Full(h) \ {n} : n \in Block(y)}
    BY AboveNode
  <2>2. DOMAIN above = {x \in Full(h) : \E n \in DOMAIN f : n # x /\ n \in Block(x)}
    BY <2>1
  <2> QED
    BY <2>2
<1>3. u = f ++ above ++ t
  BY DEF UpdateLeafNodes
<1> HIDE DEF u
<1>4. \A x \in DOMAIN above : above[x] = Blank
  OBVIOUS
<1> HIDE DEF above
<1>5. u = [x \in Full(h) |-> IF x \in DOMAIN f THEN f[x] ELSE IF x \in DOMAIN above THEN above[x] ELSE t[x]]
  <2>1. (DOMAIN f) \union (DOMAIN above) \union (DOMAIN t) = Full(h)
    BY <1>1, <1>2
  <2>2. u = [x \in (DOMAIN f) \union (DOMAIN above) \union (DOMAIN t) |->
               IF x \in DOMAIN f THEN f[x] ELSE IF x \in DOMAIN above THEN above[x] ELSE t[x]]
    BY <1>3 DEF ++
  <2> QED
    BY <2>1, <2>2
<1>6. ASSUME NEW x \in Full(h)
      PROVE  u[x] = IF x \in DOMAIN f THEN f[x]
                    ELSE IF \E n \in DOMAIN f : n \in Block(x) THEN Blank ELSE t[x]
  BY <1>2, <1>4, <1>5
<1>7. u = [n \in Full(h) |-> u[n]]
  BY <1>5
<1>8. \A n \in Full(h) : IsNode(u[n])
  BY <1>1, <1>6, BlankIsNode
<1> QED
  BY <1>1, <1>6, <1>7, <1>8 DEF LeavesSet, IsTreeOf, u

LEMMA Greatest ==
  ASSUME NEW b \in Nat, NEW S, S \subseteq 0 .. b, S # {}
  PROVE  Max(S) \in S /\ \A x \in S : x <= Max(S)
<1> DEFINE T == {b - x : x \in S}
<1>1. T \subseteq Nat /\ T # {}
  <2>1. \A x \in S : b - x \in Nat
    OBVIOUS
  <2> QED
    BY <2>1
<1> HIDE DEF T
<1>2. PICK y \in T : \A z \in T : y <= z
  BY <1>1, LeastNumber
<1>3. PICK x \in S : y = b - x
  BY DEF T
<1>4. \A z \in S : x >= z
  <2> TAKE z \in S
  <2>1. b - z \in T
    BY DEF T
  <2> QED
    BY <1>2, <1>3, <2>1
<1>5. Max(S) \in S /\ \A z \in S : Max(S) >= z
  BY <1>4 DEF Max
<1> QED
  BY <1>5

LEMMA Least ==
  ASSUME NEW S, S \subseteq Nat, S # {}
  PROVE  Min(S) \in S /\ \A x \in S : Min(S) <= x
<1>1. PICK y \in S : \A z \in S : y <= z
  BY LeastNumber
<1> QED
  BY <1>1 DEF Min

LEMMA LogarithmIs ==
  ASSUME NEW n \in Nat \ {0}
  PROVE  Log2(n) \in Nat /\ 2^Log2(n) <= n /\ n < 2^(Log2(n) + 1)
<1> DEFINE S == {j \in Nat : n < 2^j}
<1>1. n \in S
  BY PowerExceeds
<1> HIDE DEF S
<1>2. PICK j \in S : \A i \in S : j <= i
  BY <1>1, LeastNumber DEF S
<1>3. j \in Nat /\ n < 2^j /\ j <= n
  BY <1>1, <1>2 DEF S
<1>4. ASSUME j = 0  PROVE FALSE
  <2>1. 2^j = 1
    BY <1>4, 2^0 = 1
  <2> QED
    BY <1>3, <2>1
<1>5. j - 1 \in Nat /\ (j - 1) + 1 = j /\ j - 1 \in 0 .. n
  BY <1>3, <1>4
<1>6. 2^(j - 1) <= n
  <2>1. j - 1 \notin S
    BY <1>2, <1>5
  <2> QED
    BY <1>5, <2>1, PowerOfTwo DEF S
<1>7. \E k \in 0 .. n : 2^k <= n /\ n < 2^(k + 1)
  BY <1>3, <1>5, <1>6
<1>8. Log2(n) \in 0 .. n /\ 2^Log2(n) <= n /\ n < 2^(Log2(n) + 1)
  BY <1>7 DEF Log2
<1> QED
  BY <1>8

-----------------------------------------------------------------------------
\* Two trees with the same nodes, of whatever size.
SameNodes(t, u) == \A x \in Nat : At(t, x) = At(u, x)

Condensed(t, h, r) == \E k \in 0 .. h : IsTreeOf(r, k) /\ SameNodes(t, r)

LEMMA CondenseIs ==
  ASSUME NEW t, NEW h, IsTreeOf(t, h), NonBlank(t) # {}
  PROVE  Condensed(t, h, Condense(t))
<1> DEFINE m == Max(NonBlank(t))
           k == Log2(m + 1)
           r == Condense(t)
<1>1. h \in Nat /\ DOMAIN t = Full(h) /\ Full(h) \subseteq Nat /\ \A n \in Full(h) : IsNode(t[n])
  BY TreeShape
<1>2. 2^(h + 1) \in Nat \ {0} /\ Full(h) = 0 .. 2^(h + 1) - 2
  BY <1>1, PowerOfTwo DEF Full
<1>3. m \in NonBlank(t) /\ \A x \in NonBlank(t) : x <= m
  <2>1. NonBlank(t) \subseteq 0 .. 2^(h + 1) - 2
    BY <1>1, <1>2 DEF NonBlank
  <2>2. NonBlank(t) # {}
    OBVIOUS
  <2>3. 2^(h + 1) - 2 \in Nat
    BY <1>2, <2>1, <2>2
  <2> QED
    BY <2>1, <2>2, <2>3, Greatest
<1>4. m \in Full(h) /\ m \in Nat
  BY <1>1, <1>3 DEF NonBlank
<1> HIDE DEF m
<1>5. k \in Nat /\ 2^k <= m + 1 /\ m + 1 < 2^(k + 1)
  BY <1>4, LogarithmIs
<1> HIDE DEF k
<1>6. 2^k \in Nat /\ 2^(k + 1) \in Nat \ {0}
  BY <1>5, PowerOfTwo
<1>7. k <= h
  <2>1. CASE h < k
    <3>1. h + 1 <= k /\ h + 1 \in Nat
      BY <1>1, <1>5, <2>1
    <3>2. 2^(h + 1) <= 2^k
      <4>1. CASE h + 1 = k
        BY <1>6, <4>1
      <4>2. CASE h + 1 # k
        BY <1>2, <1>5, <1>6, <3>1, <4>2, PowersIncrease
      <4> QED
        BY <4>1, <4>2
    <3> QED
      BY <1>2, <1>4, <1>5, <1>6, <3>2
  <2> QED
    BY <1>1, <1>5, <2>1
<1>8. Full(k) \subseteq Full(h)
  <2>1. CASE k = h
    BY <2>1
  <2>2. CASE k # h
    <3>1. k + 1 \in Nat /\ h + 1 \in Nat /\ k + 1 < h + 1
      BY <1>1, <1>5, <1>7, <2>2
    <3>2. 2^(k + 1) < 2^(h + 1)
      BY <3>1, PowersIncrease
    <3> QED
      BY <1>2, <1>6, <3>2 DEF Full
  <2> QED
    BY <2>1, <2>2
<1>9. r = [n \in Full(k) |-> t[n]]
  <2>1. 0 .. (2^(k + 1) - 1) - 1 = Full(k)
    BY <1>6 DEF Full
  <2>2. r = [n \in 0 .. (2^(k + 1) - 1) - 1 |-> IF n \in DOMAIN t THEN t[n] ELSE Blank]
    BY DEF Condense, m, k
  <2>3. r = [n \in Full(k) |-> IF n \in DOMAIN t THEN t[n] ELSE Blank]
    BY <2>1, <2>2
  <2> QED
    BY <1>1, <1>8, <2>3
<1> HIDE DEF r
<1>10. IsTreeOf(r, k)
  BY <1>1, <1>5, <1>8, <1>9 DEF IsTreeOf
<1>11. SameNodes(t, r)
  <2> SUFFICES ASSUME NEW x \in Nat  PROVE At(t, x) = At(r, x)
    BY DEF SameNodes
  <2>1. CASE x \in Full(k)
    BY <1>1, <1>8, <1>9, <2>1 DEF At
  <2>2. CASE x \notin Full(k)
    <3>1. DOMAIN r = Full(k)
      BY <1>9
    <3>2. x \notin NonBlank(t)
      <4>1. \A y \in NonBlank(t) : y \in Nat /\ y <= m
        BY <1>1, <1>3 DEF NonBlank
      <4>2. ~(x <= m)
        BY <1>4, <1>5, <1>6, <2>2 DEF Full
      <4> QED
        BY <4>1, <4>2
    <3> QED
      BY <2>2, <3>1, <3>2 DEF At, NonBlank
  <2> QED
    BY <2>1, <2>2
<1> QED
  BY <1>1, <1>5, <1>7, <1>10, <1>11 DEF Condensed, r

LEMMA LeafNumbers ==
  ASSUME NEW l \in Nat
  PROVE  /\ LeafToNodeIndex(l) \in Nat /\ IsLeaf(LeafToNodeIndex(l))
         /\ NodeToLeafIndex(LeafToNodeIndex(l)) = l
         /\ Block(LeafToNodeIndex(l)) = {LeafToNodeIndex(l)}
<1>1. LeafToNodeIndex(l) \in Nat /\ IsLeaf(LeafToNodeIndex(l)) /\ NodeToLeafIndex(LeafToNodeIndex(l)) = l
  BY DEF LeafToNodeIndex, IsLeaf, NodeToLeafIndex
<1> QED
  BY <1>1, NodeBasics

LEMMA LeafNodesNumber ==
  ASSUME NEW x \in Nat, IsLeaf(x)
  PROVE  /\ NodeToLeafIndex(x) \in Nat /\ LeafToNodeIndex(NodeToLeafIndex(x)) = x
         /\ Block(x) = {x}
<1>1. NodeToLeafIndex(x) \in Nat /\ LeafToNodeIndex(NodeToLeafIndex(x)) = x
  BY DEF LeafToNodeIndex, IsLeaf, NodeToLeafIndex
<1> QED
  BY <1>1, NodeBasics

\* removeLeafNodeMutable for some leaves: blanks there and above.
LeavesRemoved(t, h, indices, r) ==
  /\ \E k \in 0 .. h : IsTreeOf(r, k)
  /\ \A x \in Nat :
       At(r, x) = IF \E l \in indices : LeafToNodeIndex(l) \in Block(x) THEN Blank ELSE At(t, x)

LEMMA RemoveLeafNodesIs ==
  ASSUME NEW t, NEW h, IsTreeOf(t, h), NEW indices, indices \subseteq Nat,
         \A l \in indices : LeafToNodeIndex(l) \in Full(h),
         \E x \in Full(h) : t[x] # Blank /\ \A l \in indices : LeafToNodeIndex(l) \notin Block(x)
  PROVE  LeavesRemoved(t, h, indices, RemoveLeafNodes(t, indices))
<1> DEFINE f == [n \in {LeafToNodeIndex(l) : l \in indices} |-> Blank]
           u == UpdateLeafNodes(t, f)
           r == RemoveLeafNodes(t, indices)
<1>1. h \in Nat /\ DOMAIN t = Full(h) /\ Full(h) \subseteq Nat /\ \A n \in Full(h) : IsNode(t[n])
  BY TreeShape
<1>2. CASE indices = {}
  <2>1. r = t
    BY <1>2 DEF RemoveLeafNodes
  <2>2. h \in 0 .. h
    BY <1>1
  <2> QED
    BY <1>2, <2>1, <2>2 DEF LeavesRemoved
<1>3. CASE indices # {}
  <2>1. DOMAIN f = {LeafToNodeIndex(l) : l \in indices} /\ \A n \in DOMAIN f : f[n] = Blank
    OBVIOUS
  <2>2. r = Condense(u)
    BY <1>3 DEF RemoveLeafNodes
  <2> HIDE DEF f, r
  <2>3. DOMAIN f \subseteq Full(h) /\ \A n \in DOMAIN f : IsNode(f[n])
    BY <2>1, BlankIsNode
  <2>4. LeavesSet(t, h, f, u)
    BY <2>3, UpdateLeafNodesIs
  <2> HIDE DEF u
  <2>5. IsTreeOf(u, h)
    BY <2>4 DEF LeavesSet
  <2>6. \A x \in Full(h) : u[x] = IF \E l \in indices : LeafToNodeIndex(l) \in Block(x) THEN Blank ELSE t[x]
    <3> TAKE x \in Full(h)
    <3>1. CASE x \in DOMAIN f
      <4>1. x \in Block(x) /\ x \in {LeafToNodeIndex(l) : l \in indices}
        BY <1>1, <2>1, <3>1, NodeBasics
      <4> QED
        BY <2>1, <2>4, <3>1, <4>1 DEF LeavesSet
    <3>2. CASE x \notin DOMAIN f
      <4>1. (\E n \in DOMAIN f : n \in Block(x)) <=> \E l \in indices : LeafToNodeIndex(l) \in Block(x)
        BY <2>1
      <4> QED
        BY <2>4, <3>2, <4>1 DEF LeavesSet
    <3> QED
      BY <3>1, <3>2
  <2>7. DOMAIN u = Full(h)
    BY <2>5, TreeShape
  <2>8. NonBlank(u) # {}
    <3>1. PICK x \in Full(h) : t[x] # Blank /\ \A l \in indices : LeafToNodeIndex(l) \notin Block(x)
      OBVIOUS
    <3>2. u[x] = t[x]
      BY <2>6, <3>1
    <3> QED
      BY <2>7, <3>1, <3>2 DEF NonBlank
  <2>9. Condensed(u, h, r)
    BY <2>2, <2>5, <2>8, CondenseIs
  <2>10. \A x \in Nat : At(r, x) = At(u, x)
    BY <2>9 DEF Condensed, SameNodes
  <2>11. \A x \in Nat \ Full(h) : At(u, x) = Blank /\ At(t, x) = Blank
    BY <1>1, <2>7 DEF At
  <2>12. \A x \in Full(h) : At(u, x) = u[x] /\ At(t, x) = t[x]
    BY <1>1, <2>7 DEF At
  <2>13. ASSUME NEW x \in Nat
         PROVE  At(r, x) = IF \E l \in indices : LeafToNodeIndex(l) \in Block(x) THEN Blank ELSE At(t, x)
    <3>1. CASE x \in Full(h)
      BY <2>6, <2>10, <2>12, <3>1
    <3>2. CASE x \notin Full(h)
      BY <2>10, <2>11, <3>2
    <3> QED
      BY <3>1, <3>2
  <2>14. \E k \in 0 .. h : IsTreeOf(r, k)
    BY <2>9 DEF Condensed
  <2> QED
    BY <2>13, <2>14 DEF LeavesRemoved, r
<1> QED
  BY <1>2, <1>3

-----------------------------------------------------------------------------
WithUnmerged(node, at) == [node EXCEPT !.unmergedLeaves = Append(@, NodeToLeafIndex(at))]

\* There is no blank leaf to the left.
FilledBefore(t, at) == \A y \in Nat : IsLeaf(y) /\ y < at => At(t, y) # Blank

\* addLeafNodeMutable at the first leaf that was blank, for a tree of height h or h + 1.
LeafAdded(t, h, leafNode, at, r) ==
  /\ at \in Nat /\ IsLeaf(at) /\ At(t, at) = Blank /\ FilledBefore(t, at)
  /\ \E k \in {h, h + 1} : IsTreeOf(r, k) /\ at \in Full(k)
  /\ \A x \in Nat :
       At(r, x) = IF x = at THEN leafNode
                  ELSE IF at \in Block(x) /\ At(t, x) # Blank THEN WithUnmerged(At(t, x), at)
                  ELSE At(t, x)

LEMMA WithUnmergedIs ==
  ASSUME NEW node, IsNode(node), node # Blank, NEW at \in Nat, IsLeaf(at)
  PROVE  /\ IsNode(WithUnmerged(node, at)) /\ WithUnmerged(node, at) # Blank
         /\ WithUnmerged(node, at) = [key |-> node.key, unmergedLeaves |-> Append(node.unmergedLeaves, NodeToLeafIndex(at)),
                                      client |-> node.client, parentHash |-> node.parentHash]
<1> DEFINE w == WithUnmerged(node, at)
           s == Append(node.unmergedLeaves, NodeToLeafIndex(at))
<1>1. node = [key |-> node.key, unmergedLeaves |-> node.unmergedLeaves, client |-> node.client,
              parentHash |-> node.parentHash]
  BY DEF IsNode
<1>2. w = [key |-> node.key, unmergedLeaves |-> s, client |-> node.client, parentHash |-> node.parentHash]
  BY <1>1 DEF WithUnmerged
<1>3. s \in Seq(Nat)
  <2>1. NodeToLeafIndex(at) \in Nat
    BY LeafNodesNumber
  <2>2. node.unmergedLeaves \in Seq(Nat)
    BY DEF IsNode
  <2> QED
    BY <2>1, <2>2, AppendIs
<1> HIDE DEF w, s
<1>4. w.key = node.key /\ w.unmergedLeaves = s /\ w.client = node.client /\ w.parentHash = node.parentHash
  BY <1>2
<1>5. w.key # NoKey
  BY <1>4 DEF IsNode
<1>6. IsNode(w)
  BY <1>2, <1>3, <1>4, <1>5 DEF IsNode
<1>7. w # Blank
  BY <1>5, BlankIsNode
<1> QED
  BY <1>2, <1>6, <1>7 DEF w, s

LEMMA AddLeafNodeIs ==
  ASSUME NEW t, NEW h, IsTreeOf(t, h), NEW leafNode, IsNode(leafNode)
  PROVE  LeafAdded(t, h, leafNode, FindBlankLeafNodeIndexOrExtend(t), AddLeafNode(t, leafNode))
<1> DEFINE blank == {n \in DOMAIN t \ NonBlank(t) : IsLeaf(n)}
           at == FindBlankLeafNodeIndexOrExtend(t)
           size == Cardinality(DOMAIN t)
           r == AddLeafNode(t, leafNode)
<1>1. h \in Nat /\ DOMAIN t = Full(h) /\ Full(h) \subseteq Nat /\ \A n \in Full(h) : IsNode(t[n])
  BY TreeShape
<1>2. size = 2^(h + 1) - 1 /\ 2^(h + 1) \in Nat \ {0} /\ 2^(h + 1 + 1) = 2 * 2^(h + 1)
  BY <1>1, TreeShape, PowerOfTwo
<1>3. Full(h) = 0 .. size - 1 /\ Full(h + 1) = 0 .. 2 * size /\ size \in Nat
  BY <1>2 DEF Full
<1>4. CASE blank = {}
  <2>1. at = size + 1 /\ at > size
    BY <1>3, <1>4 DEF FindBlankLeafNodeIndexOrExtend
  <2>2. IsLeaf(at) /\ at \in Nat
    <3>1. at = 2 * 2^h /\ 2^h \in Nat
      BY <1>1, <1>2, <2>1, PowerOfTwo
    <3> HIDE DEF at
    <3> QED
      BY <3>1 DEF IsLeaf
  <2>3. at \in Full(h + 1) /\ at \notin Full(h)
    <3>1. size >= 1
      <4>1. 0 \in Full(h)
        BY <1>1, NodeOfTree, TopBasics, <1>2 DEF Full
      <4> QED
        BY <1>3, <4>1
    <3> QED
      BY <1>3, <2>1, <3>1
  <2>4. r = [n \in {at} |-> leafNode] ++ t ++ [n \in Full(h + 1) |-> Blank]
    <3>1. r = [n \in {at} |-> leafNode] ++ t ++ [n \in 0 .. 2 * size |-> Blank]
      BY <2>1 DEF AddLeafNode
    <3> QED
      BY <1>3, <3>1
  <2> HIDE DEF at, r, size
  <2>5. Full(h) \subseteq Full(h + 1)
    BY <1>3
  <2>6. r = [x \in Full(h + 1) |-> IF x = at THEN leafNode ELSE IF x \in Full(h) THEN t[x] ELSE Blank]
    <3>1. {at} \union Full(h) \union Full(h + 1) = Full(h + 1)
      BY <2>3, <2>5
    <3>2. r = [x \in {at} \union Full(h) \union Full(h + 1) |->
                 IF x = at THEN leafNode ELSE IF x \in Full(h) THEN t[x] ELSE Blank]
      BY <1>1, <2>4 DEF ++
    <3> QED
      BY <3>1, <3>2
  <2>7. IsTreeOf(r, h + 1)
    <3>1. \A x \in Full(h + 1) : IsNode(r[x])
      BY <1>1, <2>6, BlankIsNode
    <3>2. r = [n \in Full(h + 1) |-> r[n]]
      BY <2>6
    <3> QED
      BY <1>1, <3>1, <3>2 DEF IsTreeOf
  <2>8. \A x \in Full(h) : at \notin Block(x)
    BY <1>1, <2>3, NodeOfTree
  <2>9. \A x \in Nat : At(r, x) = IF x = at THEN leafNode ELSE At(t, x)
    BY <1>1, <2>3, <2>5, <2>6 DEF At
  <2>10. \A x \in Nat : At(t, x) # Blank => x \in Full(h)
    BY <1>1 DEF At
  <2>11. At(t, at) = Blank
    BY <1>1, <2>3 DEF At
  <2>12. FilledBefore(t, at)
    <3> SUFFICES ASSUME NEW y \in Nat, IsLeaf(y), y < at  PROVE At(t, y) # Blank
      BY DEF FilledBefore
    <3>1. y < size
      BY <1>3, <2>1, <2>2 DEF IsLeaf
    <3>2. y \in Full(h)
      BY <1>3, <3>1
    <3>3. t[y] # Blank
      BY <1>1, <1>4, <3>2 DEF NonBlank
    <3> QED
      BY <1>1, <3>2, <3>3 DEF At
  <2> QED
    BY <2>2, <2>3, <2>7, <2>8, <2>9, <2>10, <2>11, <2>12 DEF LeafAdded, at, r
<1>5. CASE blank # {}
  <2>1. at = Min(blank)
    BY <1>5 DEF FindBlankLeafNodeIndexOrExtend
  <2>2. blank \subseteq Nat
    BY <1>1
  <2>3. at \in blank
    <3> HIDE DEF blank
    <3> QED
      BY <1>5, <2>1, <2>2, Least
  <2>4. at \in Full(h) /\ at \in Nat /\ IsLeaf(at) /\ t[at] = Blank
    BY <1>1, <2>3 DEF NonBlank
  <2>5. ~(at > size)
    <3> HIDE DEF at, size
    <3> QED
      BY <1>3, <2>4
  <2> DEFINE above == [n \in Above(t, at) \intersect NonBlank(t) |-> WithUnmerged(t[n], at)]
  <2>6. r = [n \in {at} |-> leafNode] ++ above ++ t
    BY <2>5 DEF AddLeafNode, WithUnmerged
  <2>7. DOMAIN above = {x \in Full(h) \ {at} : at \in Block(x) /\ t[x] # Blank}
    <3>1. Above(t, at) = {y \in Full(h) \ {at} : at \in Block(y)}
      <4> HIDE DEF at
      <4> QED
        BY <2>4, AboveNode
    <3> QED
      BY <1>1, <3>1 DEF NonBlank
  <2>8. \A x \in DOMAIN above : above[x] = WithUnmerged(t[x], at)
    OBVIOUS
  <2> HIDE DEF above, at, r, size
  <2>9. r = [x \in Full(h) |-> IF x = at THEN leafNode ELSE IF x \in DOMAIN above THEN above[x] ELSE t[x]]
    <3>1. {at} \union (DOMAIN above) \union Full(h) = Full(h)
      BY <2>4, <2>7
    <3>2. r = [x \in {at} \union (DOMAIN above) \union Full(h) |->
                 IF x = at THEN leafNode ELSE IF x \in DOMAIN above THEN above[x] ELSE t[x]]
      BY <1>1, <2>6 DEF ++
    <3> QED
      BY <3>1, <3>2
  <2>10. \A x \in Full(h) :
           r[x] = IF x = at THEN leafNode
                  ELSE IF at \in Block(x) /\ t[x] # Blank THEN WithUnmerged(t[x], at)
                  ELSE t[x]
    BY <2>7, <2>8, <2>9
  <2>11. IsTreeOf(r, h)
    <3>1. \A x \in Full(h) : IsNode(r[x])
      BY <1>1, <2>4, <2>10, WithUnmergedIs
    <3>2. r = [n \in Full(h) |-> r[n]]
      BY <2>9
    <3> QED
      BY <1>1, <3>1, <3>2 DEF IsTreeOf
  <2>12. DOMAIN r = Full(h)
    BY <2>9
  <2>13. \A x \in Nat :
           At(r, x) = IF x = at THEN leafNode
                      ELSE IF at \in Block(x) /\ At(t, x) # Blank THEN WithUnmerged(At(t, x), at)
                      ELSE At(t, x)
    BY <1>1, <2>4, <2>10, <2>12 DEF At
  <2>14. At(t, at) = Blank
    BY <1>1, <2>4 DEF At
  <2>15. FilledBefore(t, at)
    <3> SUFFICES ASSUME NEW y \in Nat, IsLeaf(y), y < at, At(t, y) = Blank  PROVE FALSE
      BY DEF FilledBefore
    <3>1. y \in Full(h)
      BY <1>3, <2>4
    <3>2. y \in blank
      BY <1>1, <3>1 DEF At, NonBlank
    <3>3. at <= y
      <4> HIDE DEF blank
      <4> QED
        BY <2>1, <2>2, <3>2, Least
    <3> QED
      BY <2>4, <3>3
  <2> QED
    BY <2>4, <2>11, <2>13, <2>14, <2>15 DEF LeafAdded, at, r
<1> QED
  BY <1>4, <1>5

LEMMA AppendedElements ==
  ASSUME NEW S, NEW s \in Seq(S), NEW e \in S
  PROVE  ToSet(Append(s, e)) = ToSet(s) \union {e}
<1> DEFINE a == Append(s, e)
<1>1. /\ a \in Seq(S) /\ Len(a) = Len(s) + 1 /\ a[Len(s) + 1] = e
      /\ \A i \in 1 .. Len(s) : a[i] = s[i]
  BY AppendIs
<1>2. Len(s) \in Nat /\ DOMAIN s = 1 .. Len(s) /\ DOMAIN a = 1 .. Len(s) + 1
  BY <1>1
<1> HIDE DEF a
<1>3. {a[i] : i \in 1 .. Len(s) + 1} = {s[i] : i \in 1 .. Len(s)} \union {e}
  <2>1. \A i \in 1 .. Len(s) + 1 : i \in 1 .. Len(s) \/ i = Len(s) + 1
    BY <1>2
  <2>2. \A i \in 1 .. Len(s) : i \in 1 .. Len(s) + 1
    BY <1>2
  <2>3. Len(s) + 1 \in 1 .. Len(s) + 1
    BY <1>2
  <2> QED
    BY <1>1, <2>1, <2>2, <2>3
<1> QED
  BY <1>2, <1>3 DEF ToSet, a

Growing(f, t, added, n) == f = [i \in 0 .. n |-> IF i = 0 THEN t ELSE AddLeafNode(f[i - 1], added[i])]

LEMMA GrowthExists ==
  ASSUME NEW t, NEW added, NEW n \in Nat
  PROVE  \E f : Growing(f, t, added, n)
<1> DEFINE Rule(f, m) == f = [i \in 0 .. m |-> IF i = 0 THEN t ELSE AddLeafNode(f[i - 1], added[i])]
           S == {m \in Nat : \E f : Rule(f, m)}
<1>1. 0 \in S
  <2>1. Rule([i \in 0 .. 0 |-> t], 0)
    OBVIOUS
  <2> QED
    BY <2>1
<1>2. ASSUME NEW m \in Nat, m \in S  PROVE m + 1 \in S
  <2>1. PICK f : Rule(f, m)
    BY <1>2
  <2> DEFINE g == [i \in 0 .. m + 1 |-> IF i = m + 1 THEN AddLeafNode(f[m], added[m + 1]) ELSE f[i]]
  <2>2. ASSUME NEW i \in 0 .. m + 1  PROVE g[i] = IF i = 0 THEN t ELSE AddLeafNode(g[i - 1], added[i])
    <3>1. \A j \in 0 .. m : f[j] = IF j = 0 THEN t ELSE AddLeafNode(f[j - 1], added[j])
      BY <2>1
    <3>2. \A j \in 0 .. m : g[j] = f[j]
      OBVIOUS
    <3>3. g[m + 1] = AddLeafNode(f[m], added[m + 1])
      OBVIOUS
    <3> HIDE DEF g
    <3>4. CASE i = m + 1
      BY <3>2, <3>3, <3>4
    <3>5. CASE i # m + 1
      BY <3>1, <3>2, <3>5
    <3> QED
      BY <3>4, <3>5
  <2>3. g = [i \in 0 .. m + 1 |-> g[i]]
    OBVIOUS
  <2> HIDE DEF g
  <2>4. Rule(g, m + 1)
    BY <2>2, <2>3
  <2> QED
    BY <2>4
<1>3. Nat \subseteq S
  <2> HIDE DEF S
  <2> QED
    BY <1>1, <1>2, InductionOnSet
<1>4. \E f : Rule(f, n)
  BY <1>3
<1> QED
  BY <1>4 DEF Growing

\* The sequence r is s with some of these numbers at the end, in their order.
Lengthened(s, r, leaves) ==
  /\ s \in Seq(Nat) /\ r \in Seq(Nat) /\ Len(s) <= Len(r)
  /\ \A i \in 1 .. Len(s) : r[i] = s[i]
  /\ \A i \in Len(s) + 1 .. Len(r) : r[i] \in leaves
  /\ \A i, j \in Len(s) + 1 .. Len(r) : i < j => r[i] < r[j]

LEMMA LengthenedOnce ==
  ASSUME NEW s, NEW r, NEW leaves, Lengthened(s, r, leaves), NEW l \in Nat, leaves \subseteq Nat, \A k \in leaves : k < l
  PROVE  Lengthened(s, Append(r, l), leaves \union {l})
<1> DEFINE a == Append(r, l)
           n == Len(s)
           m == Len(r)
<1>1. s \in Seq(Nat) /\ r \in Seq(Nat) /\ n <= m /\ n \in Nat /\ m \in Nat
  BY DEF Lengthened
<1>2. a \in Seq(Nat) /\ Len(a) = m + 1 /\ a[m + 1] = l /\ \A i \in 1 .. m : a[i] = r[i]
  BY <1>1, AppendIs
<1>3. /\ \A i \in 1 .. n : r[i] = s[i]
      /\ \A i \in n + 1 .. m : r[i] \in leaves
      /\ \A i, j \in n + 1 .. m : i < j => r[i] < r[j]
  BY DEF Lengthened
<1> HIDE DEF a, n, m
<1>4. \A i \in 1 .. n : a[i] = s[i]
  BY <1>1, <1>2, <1>3
<1>5. \A i \in n + 1 .. m + 1 : (i = m + 1 /\ a[i] = l) \/ (i \in n + 1 .. m /\ a[i] = r[i] /\ a[i] \in leaves)
  BY <1>1, <1>2, <1>3
<1>6. \A i \in n + 1 .. m + 1 : a[i] \in leaves \union {l}
  BY <1>5
<1>7. ASSUME NEW i \in n + 1 .. m + 1, NEW j \in n + 1 .. m + 1, i < j  PROVE a[i] < a[j]
  <2>1. i \in n + 1 .. m /\ a[i] = r[i] /\ a[i] \in leaves
    BY <1>1, <1>5, <1>7
  <2>2. CASE j = m + 1
    BY <1>2, <2>1, <2>2
  <2>3. CASE j # m + 1
    BY <1>3, <1>5, <1>7, <2>1, <2>3
  <2> QED
    BY <2>2, <2>3
<1>8. Lengthened(s, a, leaves \union {l})
  BY <1>1, <1>2, <1>4, <1>6, <1>7 DEF Lengthened, n, m
<1> QED
  BY <1>8 DEF a

\* A node of the tree before and after some leaves below it were added.
Unmerging(old, new, leaves) ==
  /\ new # Blank /\ new.key = old.key /\ new.client = old.client /\ new.parentHash = old.parentHash
  /\ ToSet(new.unmergedLeaves) = ToSet(old.unmergedLeaves) \union leaves
  /\ Lengthened(old.unmergedLeaves, new.unmergedLeaves, leaves)
  /\ leaves = {} => new = old

LeavesBelow(place, m, x) == {NodeToLeafIndex(place[i]) : i \in {j \in 1 .. m : place[j] \in Block(x)}}

\* Leaf nodes at these places from the left, with no blank leaf before them.
Packed(r, place, m) ==
  /\ \A i, j \in 1 .. m : i < j => place[i] < place[j]
  /\ \A i \in 1 .. m : FilledBefore(r, place[i])

\* The tree r is t with the first m leaf nodes added, at these places.
Grown(t, r, added, m, place) ==
  /\ \E k \in Nat : IsTreeOf(r, k)
  /\ \A i \in 1 .. m : /\ place[i] \in Nat /\ IsLeaf(place[i])
                       /\ At(t, place[i]) = Blank /\ At(r, place[i]) = added[i]
  /\ \A i, j \in 1 .. m : place[i] = place[j] => i = j
  /\ Packed(r, place, m)
  /\ \A x \in Nat :
       (\A i \in 1 .. m : place[i] # x)
         => IF At(t, x) = Blank THEN At(r, x) = Blank
            ELSE Unmerging(At(t, x), At(r, x), LeavesBelow(place, m, x))

LEMMA GrownOnce ==
  ASSUME NEW t, NEW r, NEW added, NEW m \in Nat, NEW place, Grown(t, r, added, m, place),
         \A i \in 1 .. m + 1 : IsNode(added[i]) /\ added[i] # Blank
  PROVE  \E q : Grown(t, AddLeafNode(r, added[m + 1]), added, m + 1, q)
<1> DEFINE s == AddLeafNode(r, added[m + 1])
           at == FindBlankLeafNodeIndexOrExtend(r)
           q == [i \in 1 .. m + 1 |-> IF i = m + 1 THEN at ELSE place[i]]
<1>1. PICK k \in Nat : IsTreeOf(r, k)
  BY DEF Grown
<1>2. LeafAdded(r, k, added[m + 1], at, s)
  BY <1>1, AddLeafNodeIs
<1> HIDE DEF s, at
<1>3. at \in Nat /\ IsLeaf(at) /\ At(r, at) = Blank /\ FilledBefore(r, at)
  BY <1>2 DEF LeafAdded
<1>4. \E j \in Nat : IsTreeOf(s, j)
  BY <1>1, <1>2 DEF LeafAdded
<1>5. \A x \in Nat :
        At(s, x) = IF x = at THEN added[m + 1]
                   ELSE IF at \in Block(x) /\ At(r, x) # Blank THEN WithUnmerged(At(r, x), at)
                   ELSE At(r, x)
  BY <1>2 DEF LeafAdded
<1>6. \A i \in 1 .. m : /\ place[i] \in Nat /\ IsLeaf(place[i])
                        /\ At(t, place[i]) = Blank /\ At(r, place[i]) = added[i]
  BY DEF Grown
<1>7. \A i, j \in 1 .. m : place[i] = place[j] => i = j
  BY DEF Grown
<1>8. \A x \in Nat :
        (\A i \in 1 .. m : place[i] # x)
          => IF At(t, x) = Blank THEN At(r, x) = Blank
             ELSE Unmerging(At(t, x), At(r, x), LeavesBelow(place, m, x))
  BY DEF Grown
<1>9. \A i \in 1 .. m : at # place[i]
  BY <1>3, <1>6
<1>10. At(t, at) = Blank
  BY <1>3, <1>8, <1>9 DEF Unmerging
<1>11. (\A i \in 1 .. m : q[i] = place[i]) /\ q[m + 1] = at
  OBVIOUS
<1> HIDE DEF q
<1>16. \A i \in 1 .. m : place[i] < at /\ NodeToLeafIndex(place[i]) \in Nat /\ NodeToLeafIndex(place[i]) < NodeToLeafIndex(at)
  <2> TAKE i \in 1 .. m
  <2>1. place[i] < at
    <3>1. FilledBefore(r, place[i])
      BY DEF Grown, Packed
    <3>2. ~(at < place[i])
      BY <1>3, <3>1 DEF FilledBefore
    <3> QED
      BY <1>3, <1>6, <1>9, <3>2
  <2>2. /\ NodeToLeafIndex(place[i]) \in Nat /\ 2 * NodeToLeafIndex(place[i]) = place[i]
        /\ NodeToLeafIndex(at) \in Nat /\ 2 * NodeToLeafIndex(at) = at
    BY <1>3, <1>6, LeafNodesNumber DEF LeafToNodeIndex
  <2> QED
    BY <2>1, <2>2
<1>17. Packed(s, q, m + 1)
  <2>1. \A y \in Nat : At(r, y) # Blank => At(s, y) # Blank
    <3> TAKE y \in Nat
    <3> HAVE At(r, y) # Blank
    <3>1. IsNode(At(r, y))
      BY <1>1, TreeShape DEF At
    <3>2. WithUnmerged(At(r, y), at) # Blank
      BY <1>3, <3>1, WithUnmergedIs
    <3>3. y # at
      BY <1>3
    <3> QED
      BY <1>5, <3>2, <3>3
  <2>2. \A i \in 1 .. m : FilledBefore(s, place[i])
    BY <2>1 DEF Grown, Packed, FilledBefore
  <2>3. FilledBefore(s, at)
    BY <1>3, <2>1 DEF FilledBefore
  <2>4. \A i, j \in 1 .. m : i < j => place[i] < place[j]
    BY DEF Grown, Packed
  <2>5. \A i \in 1 .. m + 1 : i \in 1 .. m \/ i = m + 1
    OBVIOUS
  <2>6. \A i \in 1 .. m + 1 : FilledBefore(s, q[i])
    BY <1>11, <2>2, <2>3, <2>5
  <2>7. \A i, j \in 1 .. m + 1 : i < j => i \in 1 .. m
    OBVIOUS
  <2>8. \A i, j \in 1 .. m + 1 : i < j => q[i] < q[j]
    BY <1>11, <1>16, <2>4, <2>5, <2>7
  <2> QED
    BY <2>6, <2>8 DEF Packed
<1>12. ASSUME NEW i \in 1 .. m + 1
       PROVE  q[i] \in Nat /\ IsLeaf(q[i]) /\ At(t, q[i]) = Blank /\ At(s, q[i]) = added[i]
  <2>1. CASE i = m + 1
    BY <1>3, <1>5, <1>10, <1>11, <2>1
  <2>2. CASE i # m + 1
    <3>1. i \in 1 .. m /\ q[i] = place[i]
      BY <1>11, <2>2
    <3>2. place[i] \in Nat /\ Block(place[i]) = {place[i]}
      BY <1>6, <3>1, NodeBasics
    <3>3. At(s, place[i]) = At(r, place[i])
      BY <1>5, <1>9, <3>1, <3>2
    <3> QED
      BY <1>6, <3>1, <3>3
  <2> QED
    BY <2>1, <2>2
<1>13. ASSUME NEW i \in 1 .. m + 1, NEW j \in 1 .. m + 1, q[i] = q[j]  PROVE i = j
  BY <1>7, <1>9, <1>11, <1>13
<1>14. ASSUME NEW x \in Nat, \A i \in 1 .. m + 1 : q[i] # x
       PROVE  IF At(t, x) = Blank THEN At(s, x) = Blank
              ELSE Unmerging(At(t, x), At(s, x), LeavesBelow(q, m + 1, x))
  <2>1. (\A i \in 1 .. m : place[i] # x) /\ x # at
    BY <1>11, <1>14
  <2>2. CASE At(t, x) = Blank
    BY <1>5, <1>8, <2>1, <2>2
  <2>3. CASE At(t, x) # Blank
    <3>1. Unmerging(At(t, x), At(r, x), LeavesBelow(place, m, x))
      BY <1>8, <2>1, <2>3
    <3>2. CASE at \notin Block(x)
      <4>1. At(s, x) = At(r, x)
        BY <1>5, <2>1, <3>2
      <4>2. LeavesBelow(q, m + 1, x) = LeavesBelow(place, m, x)
        <5>1. {j \in 1 .. m + 1 : q[j] \in Block(x)} = {j \in 1 .. m : place[j] \in Block(x)}
          BY <1>11, <3>2
        <5> QED
          BY <1>11, <5>1 DEF LeavesBelow
      <4> QED
        BY <2>3, <3>1, <4>1, <4>2
    <3>3. CASE at \in Block(x)
      <4> DEFINE node == At(r, x)
      <4>1. node # Blank /\ At(s, x) = WithUnmerged(node, at)
        BY <1>5, <2>1, <3>1, <3>3 DEF Unmerging
      <4>2. IsNode(node)
        BY <1>1, <4>1, TreeShape DEF At
      <4> HIDE DEF node
      <4>3. /\ WithUnmerged(node, at) # Blank
            /\ WithUnmerged(node, at) = [key |-> node.key, unmergedLeaves |-> Append(node.unmergedLeaves, NodeToLeafIndex(at)),
                                         client |-> node.client, parentHash |-> node.parentHash]
        BY <1>3, <4>1, <4>2, WithUnmergedIs
      <4>4. ToSet(Append(node.unmergedLeaves, NodeToLeafIndex(at))) = ToSet(node.unmergedLeaves) \union {NodeToLeafIndex(at)}
        <5>1. NodeToLeafIndex(at) \in Nat
          BY <1>3, LeafNodesNumber
        <5>2. node.unmergedLeaves \in Seq(Nat)
          BY <4>2 DEF IsNode
        <5> QED
          BY <5>1, <5>2, AppendedElements
      <4>5. LeavesBelow(q, m + 1, x) = LeavesBelow(place, m, x) \union {NodeToLeafIndex(at)}
        <5>1. {j \in 1 .. m + 1 : q[j] \in Block(x)} = {j \in 1 .. m : place[j] \in Block(x)} \union {m + 1}
          BY <1>11, <3>3
        <5> QED
          BY <1>11, <5>1 DEF LeavesBelow
      <4>10. Lengthened(At(t, x).unmergedLeaves, Append(node.unmergedLeaves, NodeToLeafIndex(at)), LeavesBelow(q, m + 1, x))
        <5>1. Lengthened(At(t, x).unmergedLeaves, node.unmergedLeaves, LeavesBelow(place, m, x))
          BY <3>1 DEF Unmerging, node
        <5>2. LeavesBelow(place, m, x) \subseteq Nat /\ \A a \in LeavesBelow(place, m, x) : a < NodeToLeafIndex(at)
          BY <1>16 DEF LeavesBelow
        <5>3. NodeToLeafIndex(at) \in Nat
          BY <1>3, LeafNodesNumber
        <5> QED
          BY <4>5, <5>1, <5>2, <5>3, LengthenedOnce
      <4>11. At(s, x).unmergedLeaves = Append(node.unmergedLeaves, NodeToLeafIndex(at))
        BY <4>1, <4>3
      <4>6. /\ At(s, x).key = node.key /\ At(s, x).client = node.client /\ At(s, x).parentHash = node.parentHash
            /\ ToSet(At(s, x).unmergedLeaves) = ToSet(node.unmergedLeaves) \union {NodeToLeafIndex(at)}
            /\ At(s, x) # Blank
        BY <4>1, <4>3, <4>4
      <4>7. Unmerging(At(t, x), node, LeavesBelow(place, m, x))
        BY <3>1 DEF node
      <4>8. LeavesBelow(q, m + 1, x) # {}
        BY <4>5
      <4>9. ToSet(At(s, x).unmergedLeaves) = ToSet(At(t, x).unmergedLeaves) \union LeavesBelow(q, m + 1, x)
        BY <4>5, <4>6, <4>7 DEF Unmerging
      <4> QED
        BY <2>3, <4>6, <4>7, <4>8, <4>9, <4>10, <4>11 DEF Unmerging
    <3> QED
      BY <3>2, <3>3
  <2> QED
    BY <2>2, <2>3
<1>15. Grown(t, s, added, m + 1, q)
  BY <1>4, <1>12, <1>13, <1>14, <1>17 DEF Grown
<1> QED
  BY <1>15 DEF s

-----------------------------------------------------------------------------
(***************************************************************************)
(* Some positions of a sequence in their order.                            *)
(***************************************************************************)
UpTo(P, i) == {j \in P : j <= i}

Ranked(P, n) ==
  /\ \A i \in P : Cardinality(UpTo(P, i)) \in 1 .. n
  /\ \A i, j \in P : i < j => Cardinality(UpTo(P, i)) < Cardinality(UpTo(P, j))
  /\ \A k \in 1 .. n : \E i \in P : Cardinality(UpTo(P, i)) = k

LEMMA Ranks ==
  ASSUME NEW b \in Nat, NEW P, P \subseteq 1 .. b
  PROVE  /\ IsFiniteSet(P) /\ Cardinality(P) \in Nat
         /\ Ranked(P, Cardinality(P))
<1> DEFINE S == {n \in Nat : \A Q \in SUBSET (1 .. b) : Cardinality(Q) = n => Ranked(Q, n)}
<1>1. IsFiniteSet(1 .. b)
  BY FS_Interval
<1>2. \A Q \in SUBSET (1 .. b) : IsFiniteSet(Q) /\ Cardinality(Q) \in Nat
  BY <1>1, FS_Subset, FS_CardinalityType
<1>3. 0 \in S
  <2> SUFFICES ASSUME NEW Q \in SUBSET (1 .. b), Cardinality(Q) = 0  PROVE Ranked(Q, 0)
    OBVIOUS
  <2>1. Q = {}
    BY <1>2, FS_EmptySet
  <2> QED
    BY <2>1 DEF Ranked
<1>4. ASSUME NEW n \in Nat, n \in S  PROVE n + 1 \in S
  <2> SUFFICES ASSUME NEW Q \in SUBSET (1 .. b), Cardinality(Q) = n + 1  PROVE Ranked(Q, n + 1)
    OBVIOUS
  <2>1. Q # {}
    BY FS_EmptySet
  <2> DEFINE m == Max(Q)
  <2>2. m \in Q /\ \A x \in Q : x <= m
    <3>1. Q \subseteq 0 .. b
      OBVIOUS
    <3> QED
      BY <2>1, <3>1, Greatest
  <2> HIDE DEF m
  <2> DEFINE R == Q \ {m}
  <2>3. R \in SUBSET (1 .. b) /\ Cardinality(R) = n
    <3>1. IsFiniteSet(Q)
      BY <1>2
    <3>2. Cardinality(Q \ {m}) = IF m \in Q THEN Cardinality(Q) - 1 ELSE Cardinality(Q)
      BY <3>1, FS_RemoveElement
    <3>3. Cardinality(R) = n
      BY <2>2, <3>2
    <3> QED
      BY <3>3
  <2>4. Ranked(R, n)
    BY <1>4, <2>3
  <2>5. UpTo(Q, m) = Q
    BY <2>2 DEF UpTo
  <2>6. \A i \in R : UpTo(Q, i) = UpTo(R, i)
    <3> TAKE i \in R
    <3>1. ~(m <= i)
      BY <2>2
    <3>2. {j \in Q : j <= i} = {j \in Q \ {m} : j <= i}
      BY <3>1
    <3>3. UpTo(Q, i) = {j \in Q : j <= i} /\ UpTo(Q \ {m}, i) = {j \in Q \ {m} : j <= i}
      BY DEF UpTo
    <3> QED
      BY <3>2, <3>3
  <2>7. \A i \in Q : i = m \/ (i \in R /\ i < m)
    BY <2>2
  <2> HIDE DEF R
  <2>8. \A i \in Q : IF i = m THEN Cardinality(UpTo(Q, i)) = n + 1
                     ELSE Cardinality(UpTo(Q, i)) = Cardinality(UpTo(R, i))
    BY <2>5, <2>6, <2>7
  <2>9. \A i \in Q : Cardinality(UpTo(Q, i)) \in 1 .. n + 1
    BY <2>4, <2>7, <2>8 DEF Ranked
  <2>10. ASSUME NEW i \in Q, NEW j \in Q, i < j  PROVE Cardinality(UpTo(Q, i)) < Cardinality(UpTo(Q, j))
    <3>1. i # m /\ i \in R
      BY <2>2, <2>7, <2>10
    <3>2. Cardinality(UpTo(R, i)) \in 1 .. n /\ Cardinality(UpTo(Q, i)) = Cardinality(UpTo(R, i))
      BY <2>4, <2>8, <3>1 DEF Ranked
    <3>3. CASE j = m
      BY <2>8, <3>2, <3>3
    <3>4. CASE j # m
      <4>1. j \in R /\ Cardinality(UpTo(Q, j)) = Cardinality(UpTo(R, j))
        BY <2>7, <2>8, <3>4
      <4> QED
        BY <2>4, <2>10, <3>1, <3>2, <4>1 DEF Ranked
    <3> QED
      BY <3>3, <3>4
  <2>11. ASSUME NEW k \in 1 .. n + 1  PROVE \E i \in Q : Cardinality(UpTo(Q, i)) = k
    <3>1. CASE k = n + 1
      BY <2>2, <2>8, <3>1
    <3>2. CASE k # n + 1
      <4>1. k \in 1 .. n
        BY <3>2
      <4>2. PICK i \in R : Cardinality(UpTo(R, i)) = k
        BY <2>4, <4>1 DEF Ranked
      <4>3. i \in Q /\ i # m
        BY <4>2 DEF R
      <4> QED
        BY <2>8, <4>2, <4>3
    <3> QED
      BY <3>1, <3>2
  <2> QED
    BY <2>9, <2>10, <2>11 DEF Ranked
<1>5. Nat \subseteq S
  <2> HIDE DEF S
  <2> QED
    BY <1>3, <1>4, InductionOnSet
<1> QED
  BY <1>2, <1>5

\* s is the elements of seq at the positions P: nth[k] is the kth of them.
Selected(seq, P, s, nth) ==
  /\ Cardinality(P) \in Nat /\ DOMAIN s = 1 .. Cardinality(P) /\ nth \in [DOMAIN s -> P]
  /\ \A k \in DOMAIN s : s[k] = seq[nth[k]]
  /\ \A j, k \in DOMAIN s : j < k => nth[j] < nth[k]
  /\ \A i \in P : \E k \in DOMAIN s : nth[k] = i

LEMMA AtPositionsIs ==
  ASSUME NEW b \in Nat, NEW P, P \subseteq 1 .. b, NEW seq
  PROVE  \E nth : Selected(seq, P, AtPositions(seq, P), nth)
<1> DEFINE n == Cardinality(P)
           nth == [k \in 1 .. n |-> CHOOSE i \in P : Cardinality(UpTo(P, i)) = k]
           s == AtPositions(seq, P)
<1>1. n \in Nat /\ Ranked(P, n)
  BY Ranks
<1>2. \A k \in 1 .. n : nth[k] \in P /\ Cardinality(UpTo(P, nth[k])) = k
  BY <1>1 DEF Ranked
<1>3. DOMAIN nth = 1 .. n /\ nth = [k \in 1 .. n |-> nth[k]]
  OBVIOUS
<1>4. s = [k \in 1 .. n |-> seq[nth[k]]]
  BY DEF AtPositions, UpTo
<1> HIDE DEF nth, s, n
<1>5. nth \in [1 .. n -> P]
  BY <1>2, <1>3
<1>6. DOMAIN s = 1 .. n /\ \A k \in 1 .. n : s[k] = seq[nth[k]]
  BY <1>4
<1>7. \A i \in P : i \in Nat
  OBVIOUS
<1>8. ASSUME NEW j \in 1 .. n, NEW k \in 1 .. n, j < k  PROVE nth[j] < nth[k]
  <2>1. nth[j] \in P /\ nth[k] \in P /\ nth[j] \in Nat /\ nth[k] \in Nat
    BY <1>2, <1>7
  <2>2. CASE nth[j] = nth[k]
    BY <1>2, <1>8, <2>2
  <2>3. CASE nth[k] < nth[j]
    <3>1. Cardinality(UpTo(P, nth[k])) < Cardinality(UpTo(P, nth[j]))
      BY <1>1, <2>1, <2>3 DEF Ranked
    <3> QED
      BY <1>1, <1>2, <1>8, <3>1
  <2> QED
    BY <2>1, <2>2, <2>3
<1>9. ASSUME NEW i \in P  PROVE \E k \in 1 .. n : nth[k] = i
  <2> DEFINE k == Cardinality(UpTo(P, i))
  <2>1. k \in 1 .. n
    BY <1>1 DEF Ranked
  <2>2. nth[k] \in P /\ Cardinality(UpTo(P, nth[k])) = k
    BY <1>2, <2>1
  <2> HIDE DEF k
  <2>3. Cardinality(UpTo(P, i)) = k
    BY DEF k
  <2>4. CASE nth[k] < i
    <3>1. Cardinality(UpTo(P, nth[k])) < Cardinality(UpTo(P, i))
      BY <1>1, <2>2, <2>4 DEF Ranked
    <3> QED
      BY <1>1, <2>1, <2>2, <2>3, <3>1
  <2>5. CASE i < nth[k]
    <3>1. Cardinality(UpTo(P, i)) < Cardinality(UpTo(P, nth[k]))
      BY <1>1, <2>2, <2>5 DEF Ranked
    <3> QED
      BY <1>1, <2>1, <2>2, <2>3, <3>1
  <2>6. i \in Nat /\ nth[k] \in Nat
    BY <1>7, <2>2
  <2>7. nth[k] < i \/ i < nth[k] \/ nth[k] = i
    BY <2>6
  <2> QED
    BY <2>1, <2>4, <2>5, <2>7
<1>10. Selected(seq, P, s, nth)
  BY <1>1, <1>5, <1>6, <1>8, <1>9 DEF Selected, n
<1> QED
  BY <1>10 DEF s

-----------------------------------------------------------------------------
(***************************************************************************)
(* Resolutions.  The resolution of a node is settled by the nodes below it. *)
(***************************************************************************)
OwnResolution(t, n) ==
  <<n>> \o [i \in DOMAIN t[n].unmergedLeaves |-> LeafToNodeIndex(t[n].unmergedLeaves[i])]

Resolves(t, r, D) ==
  r = [n \in D |-> IF t[n] # Blank THEN OwnResolution(t, n)
                   ELSE IF IsLeaf(n) THEN <<>> ELSE r[Left(n)] \o r[Right(n)]]

LEMMA ChildrenInTree ==
  ASSUME NEW h \in Nat, NEW n \in Full(h), ~IsLeaf(n)
  PROVE  /\ Left(n) \in Full(h) /\ Right(n) \in Full(h)
         /\ Level(Left(n)) = Level(n) - 1 /\ Level(Right(n)) = Level(n) - 1
         /\ Level(n) \in Nat \ {0}
         /\ Block(n) = Block(Left(n)) \union {n} \union Block(Right(n))
<1>1. n \in Nat /\ Level(n) \in Nat /\ Block(n) \subseteq Full(h)
  BY NodeOfTree, NodeBasics
<1>2. Level(n) # 0
  BY <1>1, NodeBasics
<1>3. /\ Left(n) \in Nat /\ Right(n) \in Nat
      /\ Level(Left(n)) = Level(n) - 1 /\ Level(Right(n)) = Level(n) - 1
      /\ Block(n) = Block(Left(n)) \union {n} \union Block(Right(n))
  BY <1>1, ChildBasics
<1>4. Left(n) \in Block(Left(n)) /\ Right(n) \in Block(Right(n))
  BY <1>3, NodeBasics
<1> QED
  BY <1>1, <1>2, <1>3, <1>4

LEMMA ResolutionExists ==
  ASSUME NEW t, NEW h, IsTreeOf(t, h)
  PROVE  \E r : Resolves(t, r, Full(h))
<1> DEFINE D(k) == {n \in Full(h) : Level(n) <= k}
           S == {k \in Nat : \E r : Resolves(t, r, D(k))}
<1>1. h \in Nat /\ \A n \in Full(h) : n \in Nat /\ Level(n) \in 0 .. h
  BY TreeShape, NodeOfTree
<1>2. 0 \in S
  <2> DEFINE r == [n \in D(0) |-> IF t[n] # Blank THEN OwnResolution(t, n) ELSE <<>>]
  <2>1. \A n \in D(0) : IsLeaf(n)
    BY <1>1, NodeBasics
  <2>2. \A n \in D(0) : r[n] = IF t[n] # Blank THEN OwnResolution(t, n)
                               ELSE IF IsLeaf(n) THEN <<>> ELSE r[Left(n)] \o r[Right(n)]
    BY <2>1
  <2>3. r = [n \in D(0) |-> r[n]]
    OBVIOUS
  <2> HIDE DEF r, D
  <2>4. Resolves(t, r, D(0))
    BY <2>2, <2>3 DEF Resolves
  <2> QED
    BY <2>4
<1>3. ASSUME NEW k \in Nat, k \in S  PROVE k + 1 \in S
  <2>1. PICK r : Resolves(t, r, D(k))
    BY <1>3
  <2> DEFINE Rule(n) == IF t[n] # Blank THEN OwnResolution(t, n)
                        ELSE IF IsLeaf(n) THEN <<>> ELSE r[Left(n)] \o r[Right(n)]
             g == [n \in D(k + 1) |-> IF n \in D(k) THEN r[n] ELSE Rule(n)]
  <2>2. \A n \in D(k) : r[n] = Rule(n) /\ n \in D(k + 1)
    <3>1. \A n \in D(k) : n \in D(k + 1)
      BY <1>1
    <3> HIDE DEF D
    <3>2. \A n \in D(k) : r[n] = Rule(n)
      BY <2>1 DEF Resolves
    <3> QED
      BY <3>1, <3>2
  <2>3. \A n \in D(k) : g[n] = r[n]
    BY <2>2
  <2>4. \A n \in D(k + 1) : ~IsLeaf(n) => Left(n) \in D(k) /\ Right(n) \in D(k)
    BY <1>1, ChildrenInTree
  <2>5. \A n \in D(k + 1) : g[n] = Rule(n)
    BY <2>2, <2>3
  <2>6. g = [n \in D(k + 1) |-> g[n]]
    OBVIOUS
  <2> HIDE DEF g, D
  <2>7. \A n \in D(k + 1) : g[n] = IF t[n] # Blank THEN OwnResolution(t, n)
                                   ELSE IF IsLeaf(n) THEN <<>> ELSE g[Left(n)] \o g[Right(n)]
    BY <2>3, <2>4, <2>5
  <2>8. Resolves(t, g, D(k + 1))
    BY <2>6, <2>7 DEF Resolves
  <2> QED
    BY <2>8
<1>4. Nat \subseteq S
  <2> HIDE DEF S
  <2> QED
    BY <1>2, <1>3, InductionOnSet
<1>5. D(h) = Full(h)
  BY <1>1
<1>6. \E r : Resolves(t, r, D(h))
  BY <1>1, <1>4
<1> QED
  BY <1>5, <1>6

LEMMA ResolutionIs ==
  ASSUME NEW t, NEW h, IsTreeOf(t, h)
  PROVE  Resolves(t, Resolution(t), Full(h))
<1> DEFINE UnmergedNodes(n) == [i \in DOMAIN t[n].unmergedLeaves |-> LeafToNodeIndex(t[n].unmergedLeaves[i])]
           resolution[n \in DOMAIN t] ==
             IF t[n] # Blank THEN <<n>> \o UnmergedNodes(n)
             ELSE IF IsLeaf(n) THEN <<>> ELSE resolution[Left(n)] \o resolution[Right(n)]
<1>1. DOMAIN t = Full(h)
  BY TreeShape
<1>2. resolution = [n \in DOMAIN t |-> IF t[n] # Blank THEN <<n>> \o UnmergedNodes(n)
                                       ELSE IF IsLeaf(n) THEN <<>> ELSE resolution[Left(n)] \o resolution[Right(n)]]
  <2>1. \E r : Resolves(t, r, Full(h))
    BY ResolutionExists
  <2>2. \E r : Resolves(t, r, DOMAIN t)
    BY <1>1, <2>1
  <2>3. \E r : r = [n \in DOMAIN t |-> IF t[n] # Blank THEN <<n>> \o UnmergedNodes(n)
                                       ELSE IF IsLeaf(n) THEN <<>> ELSE r[Left(n)] \o r[Right(n)]]
    BY <2>2 DEF Resolves, OwnResolution
  <2> QED
    BY <2>3
<1>3. Resolution(t) = resolution
  BY DEF Resolution
<1> HIDE DEF resolution
<1>4. Resolves(t, resolution, DOMAIN t)
  BY <1>2 DEF Resolves, OwnResolution
<1> QED
  BY <1>1, <1>3, <1>4

LEMMA ResolutionLocal ==
  ASSUME NEW t, NEW u, NEW h, IsTreeOf(t, h), IsTreeOf(u, h),
         NEW x \in Full(h), \A y \in Block(x) : t[y] = u[y]
  PROVE  Resolution(t)[x] = Resolution(u)[x]
<1> DEFINE r == Resolution(t)
           q == Resolution(u)
           Same(n) == \A y \in Block(n) : t[y] = u[y]
           S == {k \in Nat : \A n \in Full(h) : Level(n) <= k /\ Same(n) => r[n] = q[n]}
<1>1. h \in Nat /\ \A n \in Full(h) : n \in Nat /\ Level(n) \in 0 .. h /\ n \in Block(n)
  BY TreeShape, NodeOfTree, NodeBasics
<1>2. Resolves(t, r, Full(h)) /\ Resolves(u, q, Full(h))
  BY ResolutionIs
<1> HIDE DEF r, q
<1>3. \A n \in Full(h) : /\ r[n] = IF t[n] # Blank THEN OwnResolution(t, n)
                                   ELSE IF IsLeaf(n) THEN <<>> ELSE r[Left(n)] \o r[Right(n)]
                         /\ q[n] = IF u[n] # Blank THEN OwnResolution(u, n)
                                   ELSE IF IsLeaf(n) THEN <<>> ELSE q[Left(n)] \o q[Right(n)]
  BY <1>2 DEF Resolves
<1>4. \A n \in Full(h) : t[n] = u[n] => OwnResolution(t, n) = OwnResolution(u, n)
  BY DEF OwnResolution
<1>5. 0 \in S
  <2>1. \A n \in Full(h) : Level(n) <= 0 => IsLeaf(n)
    BY <1>1, NodeBasics
  <2> QED
    BY <1>1, <1>3, <1>4, <2>1
<1>6. ASSUME NEW k \in Nat, k \in S  PROVE k + 1 \in S
  <2> SUFFICES ASSUME NEW n \in Full(h), Level(n) <= k + 1, Same(n)  PROVE r[n] = q[n]
    OBVIOUS
  <2>1. t[n] = u[n]
    BY <1>1
  <2>2. CASE IsLeaf(n) \/ t[n] # Blank
    BY <1>3, <1>4, <2>1, <2>2
  <2>3. CASE ~IsLeaf(n) /\ t[n] = Blank
    <3>1. /\ Left(n) \in Full(h) /\ Right(n) \in Full(h)
          /\ Level(Left(n)) <= k /\ Level(Right(n)) <= k
          /\ Block(Left(n)) \subseteq Block(n) /\ Block(Right(n)) \subseteq Block(n)
      BY <1>1, <2>3, ChildrenInTree
    <3>2. r[Left(n)] = q[Left(n)] /\ r[Right(n)] = q[Right(n)]
      BY <1>6, <3>1
    <3> QED
      BY <1>3, <2>1, <2>3, <3>2
  <2> QED
    BY <2>2, <2>3
<1>7. Nat \subseteq S
  <2> HIDE DEF S
  <2> QED
    BY <1>5, <1>6, InductionOnSet
<1>8. Level(x) \in S /\ Level(x) <= Level(x)
  BY <1>1, <1>7
<1>9. r[x] = q[x]
  BY <1>8
<1> QED
  BY <1>9 DEF r, q

-----------------------------------------------------------------------------
(***************************************************************************)
(* Tree hashes.  With a cache that has no stale hash, treeHash computes    *)
(* what it would without.                                                  *)
(***************************************************************************)
Coherent(t, cache) ==
  DOMAIN cache \subseteq DOMAIN t /\ \A n \in DOMAIN cache : cache[n] = FreshHash(t, n)

LEMMA SubtreeIs ==
  ASSUME NEW n
  PROVE  Subtree(n) = Block(n)
BY DEF Subtree, Block

LEMMA FreshHashIs ==
  ASSUME NEW t, NEW n
  PROVE  FreshHash(t, n) = [x \in Block(n) |-> Content(t[x])]
<1>1. FreshHash(t, n) = [x \in Subtree(n) |-> Content(t[x])]
  BY DEF FreshHash
<1> QED
  BY <1>1, SubtreeIs

LEMMA FreshHashJoins ==
  ASSUME NEW t, NEW h \in Nat, NEW n \in Full(h)
  PROVE  FreshHash(t, n) = IF IsLeaf(n) THEN [x \in {n} |-> Content(t[x])]
                           ELSE FreshHash(t, Left(n)) ++ FreshHash(t, Right(n)) ++ [x \in {n} |-> Content(t[x])]
<1>1. n \in Nat
  BY NodeOfTree
<1>2. CASE IsLeaf(n)
  <2>1. Block(n) = {n}
    BY <1>1, <1>2, NodeBasics
  <2>2. FreshHash(t, n) = [x \in Block(n) |-> Content(t[x])]
    BY FreshHashIs
  <2>3. FreshHash(t, n) = [x \in {n} |-> Content(t[x])]
    BY <2>1, <2>2
  <2> QED
    BY <1>2, <2>3
<1>3. CASE ~IsLeaf(n)
  <2> DEFINE a == Block(Left(n))
             b == Block(Right(n))
             l == FreshHash(t, Left(n))
             r == FreshHash(t, Right(n))
             f == [x \in {n} |-> Content(t[x])]
  <2>1. a \union b \union {n} = Block(n)
    BY <1>3, ChildrenInTree
  <2>2. l = [x \in a |-> Content(t[x])] /\ r = [x \in b |-> Content(t[x])]
    BY FreshHashIs
  <2> HIDE DEF a, b, l, r
  <2>3. l ++ r ++ f = [x \in a \union b \union {n} |-> Content(t[x])]
    <3>1. l ++ r ++ f = [x \in (DOMAIN l) \union (DOMAIN r) \union (DOMAIN f) |->
                           IF x \in DOMAIN l THEN l[x] ELSE IF x \in DOMAIN r THEN r[x] ELSE f[x]]
      BY DEF ++
    <3>2. DOMAIN l = a /\ DOMAIN r = b /\ DOMAIN f = {n}
      BY <2>2
    <3>3. \A x \in a \union b \union {n} :
            Content(t[x]) = IF x \in a THEN l[x] ELSE IF x \in b THEN r[x] ELSE f[x]
      BY <2>2
    <3> HIDE DEF f
    <3> QED
      BY <3>1, <3>2, <3>3
  <2>4. FreshHash(t, n) = [x \in Block(n) |-> Content(t[x])]
    BY FreshHashIs
  <2>5. FreshHash(t, n) = l ++ r ++ f
    BY <2>1, <2>3, <2>4
  <2> QED
    BY <1>3, <2>5 DEF l, r
<1> QED
  BY <1>2, <1>3

Hashing(f, t, cache) ==
  f = [n \in DOMAIN t |->
         IF n \in DOMAIN cache THEN cache[n]
         ELSE IF IsLeaf(n) THEN [x \in {n} |-> Content(t[x])]
         ELSE f[Left(n)] ++ f[Right(n)] ++ [x \in {n} |-> Content(t[x])]]

LEMMA HashingExists ==
  ASSUME NEW t, NEW h, IsTreeOf(t, h), NEW cache, Coherent(t, cache)
  PROVE  \E f : Hashing(f, t, cache)
<1> DEFINE f == [n \in Full(h) |-> FreshHash(t, n)]
<1>1. DOMAIN t = Full(h) /\ h \in Nat
  BY TreeShape
<1>2. \A n \in Full(h) : f[n] = FreshHash(t, n)
  OBVIOUS
<1>3. f = [n \in Full(h) |-> f[n]]
  OBVIOUS
<1> HIDE DEF f
<1>4. ASSUME NEW n \in Full(h)
      PROVE  f[n] = IF n \in DOMAIN cache THEN cache[n]
                    ELSE IF IsLeaf(n) THEN [x \in {n} |-> Content(t[x])]
                    ELSE f[Left(n)] ++ f[Right(n)] ++ [x \in {n} |-> Content(t[x])]
  <2>1. CASE n \in DOMAIN cache
    BY <1>2, <2>1 DEF Coherent
  <2>2. CASE n \notin DOMAIN cache
    <3>1. FreshHash(t, n) = IF IsLeaf(n) THEN [x \in {n} |-> Content(t[x])]
                            ELSE FreshHash(t, Left(n)) ++ FreshHash(t, Right(n)) ++ [x \in {n} |-> Content(t[x])]
      BY <1>1, FreshHashJoins
    <3>2. ~IsLeaf(n) => f[Left(n)] = FreshHash(t, Left(n)) /\ f[Right(n)] = FreshHash(t, Right(n))
      BY <1>1, <1>2, ChildrenInTree
    <3> QED
      BY <1>2, <2>2, <3>1, <3>2
  <2> QED
    BY <2>1, <2>2
<1>5. Hashing(f, t, cache)
  BY <1>1, <1>3, <1>4 DEF Hashing
<1> QED
  BY <1>5

LEMMA HashingIsFresh ==
  ASSUME NEW t, NEW h, IsTreeOf(t, h), NEW cache, Coherent(t, cache), NEW f, Hashing(f, t, cache)
  PROVE  \A n \in Full(h) : f[n] = FreshHash(t, n)
<1> DEFINE S == {k \in Nat : \A n \in Full(h) : Level(n) <= k => f[n] = FreshHash(t, n)}
<1>1. DOMAIN t = Full(h) /\ h \in Nat /\ \A n \in Full(h) : n \in Nat /\ Level(n) \in 0 .. h
  BY TreeShape, NodeOfTree
<1>2. \A n \in Full(h) : f[n] = IF n \in DOMAIN cache THEN cache[n]
                                ELSE IF IsLeaf(n) THEN [x \in {n} |-> Content(t[x])]
                                ELSE f[Left(n)] ++ f[Right(n)] ++ [x \in {n} |-> Content(t[x])]
  BY <1>1 DEF Hashing
<1>3. \A n \in Full(h) : n \in DOMAIN cache => f[n] = FreshHash(t, n)
  BY <1>2 DEF Coherent
<1>4. \A n \in Full(h) : IsLeaf(n) => f[n] = FreshHash(t, n)
  <2> TAKE n \in Full(h)
  <2>1. FreshHash(t, n) = IF IsLeaf(n) THEN [x \in {n} |-> Content(t[x])]
                          ELSE FreshHash(t, Left(n)) ++ FreshHash(t, Right(n)) ++ [x \in {n} |-> Content(t[x])]
    BY <1>1, FreshHashJoins
  <2> QED
    BY <1>2, <1>3, <2>1
<1>5. 0 \in S
  <2>1. \A n \in Full(h) : Level(n) <= 0 => IsLeaf(n)
    BY <1>1, NodeBasics
  <2> QED
    BY <1>4, <2>1
<1>6. ASSUME NEW k \in Nat, k \in S  PROVE k + 1 \in S
  <2> SUFFICES ASSUME NEW n \in Full(h), Level(n) <= k + 1  PROVE f[n] = FreshHash(t, n)
    OBVIOUS
  <2>1. CASE IsLeaf(n) \/ n \in DOMAIN cache
    BY <1>3, <1>4, <2>1
  <2>2. CASE ~IsLeaf(n) /\ n \notin DOMAIN cache
    <3>1. /\ Left(n) \in Full(h) /\ Right(n) \in Full(h)
          /\ Level(Left(n)) <= k /\ Level(Right(n)) <= k
      BY <1>1, <2>2, ChildrenInTree
    <3>2. f[Left(n)] = FreshHash(t, Left(n)) /\ f[Right(n)] = FreshHash(t, Right(n))
      BY <1>6, <3>1
    <3>3. FreshHash(t, n) = IF IsLeaf(n) THEN [x \in {n} |-> Content(t[x])]
                            ELSE FreshHash(t, Left(n)) ++ FreshHash(t, Right(n)) ++ [x \in {n} |-> Content(t[x])]
      BY <1>1, FreshHashJoins
    <3> HIDE DEF S
    <3>4. f[n] = f[Left(n)] ++ f[Right(n)] ++ [x \in {n} |-> Content(t[x])]
      BY <1>2, <2>2
    <3> QED
      BY <2>2, <3>2, <3>3, <3>4
  <2> QED
    BY <2>1, <2>2
<1>7. Nat \subseteq S
  <2> HIDE DEF S
  <2> QED
    BY <1>5, <1>6, InductionOnSet
<1>8. h \in S
  BY <1>1, <1>7
<1>9. ASSUME NEW n \in Full(h)  PROVE f[n] = FreshHash(t, n)
  <2>1. Level(n) <= h
    BY <1>1
  <2> QED
    BY <1>8, <2>1
<1> QED
  BY <1>9

AllHashes(t) == [n \in DOMAIN t |-> FreshHash(t, n)]

LEMMA TreeHashesAre ==
  ASSUME NEW t, NEW h, IsTreeOf(t, h), NEW cache, Coherent(t, cache)
  PROVE  /\ TreeHashes(t, cache) = AllHashes(t)
         /\ DOMAIN TreeHashes(t, cache) = Full(h)
         /\ \A n \in Full(h) : TreeHashes(t, cache)[n] = FreshHash(t, n)
         /\ Coherent(t, TreeHashes(t, cache))
<1> DEFINE hash[n \in DOMAIN t] ==
             IF n \in DOMAIN cache THEN cache[n]
             ELSE IF IsLeaf(n) THEN [x \in {n} |-> Content(t[x])]
             ELSE hash[Left(n)] ++ hash[Right(n)] ++ [x \in {n} |-> Content(t[x])]
           rest == [n \in DOMAIN t \ DOMAIN cache |-> hash[n]]
<1>1. DOMAIN t = Full(h)
  BY TreeShape
<1>2. hash = [n \in DOMAIN t |->
                IF n \in DOMAIN cache THEN cache[n]
                ELSE IF IsLeaf(n) THEN [x \in {n} |-> Content(t[x])]
                ELSE hash[Left(n)] ++ hash[Right(n)] ++ [x \in {n} |-> Content(t[x])]]
  <2>1. \E f : Hashing(f, t, cache)
    BY HashingExists
  <2> QED
    BY <2>1 DEF Hashing
<1>3. TreeHashes(t, cache) = cache ++ rest
  BY DEF TreeHashes
<1> HIDE DEF hash
<1>4. Hashing(hash, t, cache)
  BY <1>2 DEF Hashing
<1>5. \A n \in Full(h) : hash[n] = FreshHash(t, n)
  BY <1>4, HashingIsFresh
<1>6. DOMAIN rest = Full(h) \ DOMAIN cache /\ \A n \in DOMAIN rest : rest[n] = FreshHash(t, n)
  BY <1>1, <1>5
<1> HIDE DEF rest
<1>7. DOMAIN cache \subseteq Full(h) /\ \A n \in DOMAIN cache : cache[n] = FreshHash(t, n)
  BY <1>1 DEF Coherent
<1>8. DOMAIN (cache ++ rest) = Full(h)
  BY <1>6, <1>7 DEF ++
<1>9. \A n \in Full(h) : (cache ++ rest)[n] = FreshHash(t, n)
  BY <1>6, <1>7 DEF ++
<1>10. cache ++ rest = [n \in Full(h) |-> (cache ++ rest)[n]]
  BY <1>8 DEF ++
<1>11. cache ++ rest = AllHashes(t)
  BY <1>1, <1>9, <1>10 DEF AllHashes
<1> QED
  BY <1>1, <1>3, <1>8, <1>9, <1>11 DEF Coherent

-----------------------------------------------------------------------------
(***************************************************************************)
(* The filtered direct path.  It is settled by the nodes off the path.     *)
(***************************************************************************)
\* Nodes going up from a leaf node.
Ascending(h, s, nodes) ==
  /\ Len(nodes) \in Nat /\ DOMAIN nodes = 1 .. Len(nodes)
  /\ \A i \in DOMAIN nodes : nodes[i] \in Full(h) /\ nodes[i] # s /\ s \in Block(nodes[i]) /\ ~IsLeaf(nodes[i])
  /\ \A i, j \in DOMAIN nodes : i < j => Level(nodes[i]) < Level(nodes[j])

LEMMA FilteredPathIs ==
  ASSUME NEW t, NEW h, IsTreeOf(t, h), NEW l \in Nat, LeafToNodeIndex(l) \in Full(h)
  PROVE  Ascending(h, LeafToNodeIndex(l), NodesOf(FilteredDirectPath(l, t)))
<1> DEFINE s == LeafToNodeIndex(l)
           path == DirectPath(s, WidthOf(t))
           copath == Copath(s, WidthOf(t))
           all == Resolution(t)
           seq == [i \in DOMAIN path |-> [nodeIndex |-> path[i], resolution |-> all[copath[i]]]]
           P == {i \in DOMAIN path : all[copath[i]] # <<>>}
           fdp == FilteredDirectPath(l, t)
           nodes == NodesOf(fdp)
<1>1. h \in Nat /\ WidthOf(t) = 2^h
  BY TreeShape
<1>2. s \in Nat /\ s \in Full(h) /\ Level(s) = 0
  BY LeafNumbers, NodeBasics
<1>3. fdp = AtPositions(seq, P)
  BY DEF FilteredDirectPath
<1>4. PathFrom(s, h, path)
  BY <1>1, <1>2, DirectPathIs
<1> HIDE DEF s, path, copath, all, fdp
<1>5. DOMAIN path = 1 .. h /\ \A i \in 1 .. h : path[i] \in Full(h) /\ Level(path[i]) = i /\ s \in Block(path[i])
  BY <1>1, <1>2, <1>4 DEF PathFrom
<1>6. P \subseteq 1 .. h
  BY <1>5
<1>7. \A i \in P : seq[i].nodeIndex = path[i]
  OBVIOUS
<1> HIDE DEF P, seq
<1>8. PICK nth : Selected(seq, P, fdp, nth)
  BY <1>1, <1>3, <1>6, AtPositionsIs
<1> DEFINE n == Cardinality(P)
<1>9. n \in Nat /\ DOMAIN fdp = 1 .. n /\ \A k \in 1 .. n : nth[k] \in P /\ fdp[k] = seq[nth[k]]
  BY <1>8 DEF Selected
<1>10. \A j, k \in 1 .. n : j < k => nth[j] < nth[k]
  BY <1>8 DEF Selected
<1> HIDE DEF n
<1>11. nodes = [k \in 1 .. n |-> fdp[k].nodeIndex] /\ \A k \in 1 .. n : fdp[k].nodeIndex = path[nth[k]]
  BY <1>7, <1>9 DEF NodesOf
<1> HIDE DEF nodes
<1>12. DOMAIN nodes = 1 .. n /\ \A k \in 1 .. n : nodes[k] = path[nth[k]] /\ nth[k] \in 1 .. h
  BY <1>6, <1>9, <1>11
<1>13. \A k \in 1 .. n : nodes[k] \in Full(h) /\ Level(nodes[k]) = nth[k] /\ s \in Block(nodes[k]) /\ nth[k] \in Nat \ {0}
  BY <1>5, <1>12
<1>14. Len(nodes) = n
  <2>1. nodes = [k \in 1 .. n |-> nodes[k]]
    BY <1>11
  <2>2. nodes \in [1 .. n -> Full(h)]
    BY <1>13, <2>1
  <2> QED
    BY <1>9, <2>2, FunctionIsSequence
<1>15. \A k \in 1 .. n : nodes[k] # s /\ ~IsLeaf(nodes[k])
  <2> TAKE k \in 1 .. n
  <2>1. nodes[k] \in Nat
    BY <1>1, <1>13, NodeOfTree
  <2> QED
    BY <1>2, <1>13, <2>1, NodeBasics
<1>16. \A i, j \in 1 .. n : i < j => Level(nodes[i]) < Level(nodes[j])
  BY <1>10, <1>13
<1> QED
  BY <1>9, <1>12, <1>13, <1>14, <1>15, <1>16 DEF Ascending, nodes, fdp, s

\* The same tree but for a leaf and what is above it.
OffPath(h, s, t, u) == \A x \in Full(h) : s \notin Block(x) => t[x] = u[x]

LEMMA FilteredPathLocal ==
  ASSUME NEW t, NEW u, NEW h, IsTreeOf(t, h), IsTreeOf(u, h),
         NEW l \in Nat, LeafToNodeIndex(l) \in Full(h), OffPath(h, LeafToNodeIndex(l), t, u)
  PROVE  FilteredDirectPath(l, t) = FilteredDirectPath(l, u)
<1> DEFINE s == LeafToNodeIndex(l)
           path == DirectPath(s, 2^h)
           copath == Copath(s, 2^h)
           a == Resolution(t)
           b == Resolution(u)
<1>1. h \in Nat /\ WidthOf(t) = 2^h /\ WidthOf(u) = 2^h
  BY TreeShape
<1>2. s \in Nat /\ s \in Full(h) /\ Level(s) = 0 /\ s \in Block(s)
  BY LeafNumbers, NodeBasics
<1>3. FilteredDirectPath(l, t) = AtPositions([i \in DOMAIN path |-> [nodeIndex |-> path[i], resolution |-> a[copath[i]]]],
                                             {i \in DOMAIN path : a[copath[i]] # <<>>})
  BY <1>1 DEF FilteredDirectPath
<1>4. FilteredDirectPath(l, u) = AtPositions([i \in DOMAIN path |-> [nodeIndex |-> path[i], resolution |-> b[copath[i]]]],
                                             {i \in DOMAIN path : b[copath[i]] # <<>>})
  BY <1>1 DEF FilteredDirectPath
<1> HIDE DEF s
<1>5. PathFrom(s, h, path) /\ CopathFrom(s, h, path, copath)
  BY <1>1, <1>2, DirectPathIs, CopathIs
<1> HIDE DEF path, copath, a, b
<1>6. ASSUME NEW i \in DOMAIN path  PROVE a[copath[i]] = b[copath[i]]
  <2>1. i \in DOMAIN copath /\ copath[i] \in Full(h)
    BY <1>5 DEF CopathFrom
  <2>2. Block(copath[i]) \intersect Block(s) = {}
    BY <1>1, <1>2, <1>5, <2>1, CopathDisjoint
  <2>3. \A y \in Block(copath[i]) : y \in Full(h) /\ y \in Nat /\ Block(y) \subseteq Block(copath[i])
    <3>1. copath[i] \in Nat /\ Block(copath[i]) \subseteq Full(h)
      BY <1>1, <2>1, NodeOfTree
    <3> QED
      BY <1>1, <3>1, NodeOfTree, BlocksNest
  <2>4. \A y \in Block(copath[i]) : t[y] = u[y]
    BY <1>2, <2>2, <2>3 DEF OffPath, s
  <2> QED
    BY <2>1, <2>4, ResolutionLocal DEF a, b
<1>7. [i \in DOMAIN path |-> [nodeIndex |-> path[i], resolution |-> a[copath[i]]]]
        = [i \in DOMAIN path |-> [nodeIndex |-> path[i], resolution |-> b[copath[i]]]]
  BY <1>6
<1>8. {i \in DOMAIN path : a[copath[i]] # <<>>} = {i \in DOMAIN path : b[copath[i]] # <<>>}
  BY <1>6
<1> QED
  BY <1>3, <1>4, <1>7, <1>8

-----------------------------------------------------------------------------
(***************************************************************************)
(* Parent hashes along the path of a leaf: the leaf's own content does not *)
(* matter for them, nor do the hashes of the path.                         *)
(***************************************************************************)
LEMMA BelowAreSides ==
  ASSUME NEW x \in Nat, ~IsLeaf(x)
  PROVE  /\ \A y \in Block(Left(x)) : y < x
         /\ \A y \in Block(Right(x)) : x < y
<1> DEFINE k == Level(x) - 1
           d == 2^k
<1>1. /\ Left(x) \in Nat /\ Right(x) \in Nat /\ Level(x) \in Nat
      /\ Level(Left(x)) = k /\ Level(Right(x)) = k
  BY ChildBasics, NodeBasics
<1>2. Level(x) # 0
  BY NodeBasics
<1>3. d \in Nat \ {0}
  BY <1>1, <1>2, PowerOfTwo
<1>4. Left(x) = x - d /\ Right(x) = x + d
  BY DEF Left, Right
<1>5. Block(Left(x)) = Left(x) - (d - 1) .. Left(x) + (d - 1) /\ Block(Right(x)) = Right(x) - (d - 1) .. Right(x) + (d - 1)
  BY <1>1 DEF Block
<1> HIDE DEF d
<1> QED
  BY <1>1, <1>3, <1>4, <1>5

LEMMA AncestorIs ==
  ASSUME NEW t, NEW h, IsTreeOf(t, h), NEW n \in Full(h)
  PROVE  LET p == FindFirstNonBlankAncestor(t, n)
         IN  p = RootOf(t) \/ (p \in Full(h) /\ p # n /\ n \in Block(p) /\ t[p] # Blank)
<1> DEFINE path == AncestorsOf(t, n)
           known == {i \in DOMAIN path : t[path[i]] # Blank}
           p == FindFirstNonBlankAncestor(t, n)
<1>1. p = IF known = {} THEN RootOf(t) ELSE path[Min(known)]
  BY DEF FindFirstNonBlankAncestor
<1>2. PathFrom(n, h, path) /\ Above(t, n) = {y \in Full(h) \ {n} : n \in Block(y)}
  BY AboveNode
<1>3. Above(t, n) = {path[i] : i \in DOMAIN path}
  BY DEF Above, ToSet
<1> HIDE DEF path
<1>4. CASE known # {}
  <2>1. known \subseteq Nat
    BY <1>2 DEF PathFrom
  <2>2. Min(known) \in known
    BY <1>4, <2>1, Least
  <2>3. p = path[Min(known)]
    BY <1>1, <1>4
  <2> HIDE DEF p
  <2>4. p \in Above(t, n) /\ t[p] # Blank
    BY <1>3, <2>2, <2>3
  <2> QED
    BY <1>2, <2>4 DEF p
<1> QED
  BY <1>1, <1>4

\* Two nodes a parent hash does not tell apart.
Alike(a, b) == a.key = b.key /\ a.unmergedLeaves = b.unmergedLeaves /\ (a = Blank <=> b = Blank)

LEMMA ParentHashLocal ==
  ASSUME NEW t, NEW u, NEW h, IsTreeOf(t, h), IsTreeOf(u, h), NEW s \in Full(h), IsLeaf(s),
         \A x \in Full(h) : x # s => Alike(t[x], u[x]),
         NEW a, NEW b, \A x \in Full(h) : s \notin Block(x) => a[x] = b[x],
         NEW n \in Full(h), s \in Block(n)
  PROVE  CalculateParentHash(t, a, n) = CalculateParentHash(u, b, n)
<1> DEFINE path == DirectPath(n, 2^h)
           p == FindFirstNonBlankAncestor(t, n)
           sibling == IF n < p THEN Right(p) ELSE Left(p)
<1>1. h \in Nat /\ WidthOf(t) = 2^h /\ WidthOf(u) = 2^h /\ RootOf(t) = Top(h) /\ RootOf(u) = Top(h) /\ Top(h) \in Full(h)
  BY TreeShape
<1>2. n \in Nat /\ s \in Nat
  BY <1>1, NodeOfTree
<1>3. FindFirstNonBlankAncestor(u, n) = p
  <2>1. PathFrom(n, h, path)
    BY <1>1, DirectPathIs
  <2> HIDE DEF path
  <2>2. \A i \in DOMAIN path : path[i] \in Full(h) /\ path[i] # s
    <3> TAKE i \in DOMAIN path
    <3>1. path[i] \in Full(h) /\ Level(path[i]) = Level(n) + i /\ i >= 1 /\ i \in Nat /\ Level(n) \in Nat
      BY <1>1, <1>2, <2>1, NodeBasics DEF PathFrom
    <3>2. Level(s) = 0
      BY <1>2, NodeBasics
    <3> QED
      BY <3>1, <3>2
  <2>3. {i \in DOMAIN path : t[path[i]] # Blank} = {i \in DOMAIN path : u[path[i]] # Blank}
    BY <2>2 DEF Alike
  <2>4. AncestorsOf(t, n) = path /\ AncestorsOf(u, n) = path
    BY <1>1 DEF AncestorsOf, path
  <2> QED
    BY <1>1, <2>3, <2>4 DEF FindFirstNonBlankAncestor
<1>4. p = Top(h) \/ (p \in Full(h) /\ p # n /\ n \in Block(p) /\ t[p] # Blank)
  BY <1>1, AncestorIs
<1> HIDE DEF p
<1>5. CASE n = Top(h)
  BY <1>1, <1>5 DEF CalculateParentHash
<1>6. CASE n # Top(h)
  <2>1. p \in Full(h) /\ p # n /\ n \in Block(p) /\ p \in Nat
    <3>1. CASE p = Top(h)
      BY <1>1, <1>6, <3>1, TopBasics, NodeOfTree
    <3> QED
      BY <1>1, <1>4, <3>1, NodeOfTree
  <2>2. ~IsLeaf(p)
    BY <1>2, <2>1, NodeBasics
  <2>3. p # s
    BY <2>1, <2>2
  <2>4. Alike(t[p], u[p])
    BY <2>1, <2>3
  <2>5. sibling \in Full(h) /\ sibling \in Nat /\ s \notin Block(sibling)
    <3>1. Left(p) \in Full(h) /\ Right(p) \in Full(h) /\ Block(p) = Block(Left(p)) \union {p} \union Block(Right(p))
      BY <1>1, <2>1, <2>2, ChildrenInTree
    <3>2. (\A y \in Block(Left(p)) : y < p) /\ (\A y \in Block(Right(p)) : p < y)
      BY <2>1, <2>2, BelowAreSides
    <3>3. Block(Left(p)) \intersect Block(Right(p)) = {}
      BY <2>1, <2>2, ChildBasics
    <3>4. Left(p) \in Nat /\ Right(p) \in Nat
      BY <1>1, <3>1, NodeOfTree
    <3>5. CASE n < p
      <4>1. n \in Block(Left(p))
        BY <1>2, <2>1, <3>1, <3>2, <3>5
      <4>2. s \in Block(Left(p))
        BY <1>2, <3>4, <4>1, BlocksNest
      <4> QED
        BY <3>1, <3>3, <3>4, <3>5, <4>2
    <3>6. CASE ~(n < p)
      <4>1. n \in Block(Right(p))
        BY <1>2, <2>1, <3>1, <3>2, <3>6
      <4>2. s \in Block(Right(p))
        BY <1>2, <3>4, <4>1, BlocksNest
      <4> QED
        BY <3>1, <3>3, <3>4, <3>6, <4>2
    <3> QED
      BY <3>5, <3>6
  <2> HIDE DEF sibling
  <2>6. a[sibling] = b[sibling]
    BY <2>5
  <2>7. \A leaves : HashWithout(t, leaves, sibling) = HashWithout(u, leaves, sibling)
    <3> TAKE leaves
    <3>1. \A x \in Block(sibling) : x \in Full(h) /\ x # s
      BY <1>1, <2>5, NodeOfTree
    <3>2. \A x \in Block(sibling) : t[x].key = u[x].key /\ t[x].unmergedLeaves = u[x].unmergedLeaves
      BY <3>1 DEF Alike
    <3>3. Subtree(sibling) = Block(sibling)
      BY SubtreeIs
    <3>4. HashWithout(t, leaves, sibling) =
            [x \in Block(sibling) |->
               IF IsLeaf(x) /\ NodeToLeafIndex(x) \in leaves THEN Content(Blank)
               ELSE [key |-> t[x].key, unmergedLeaves |-> Excluding(t[x].unmergedLeaves, leaves)]]
      BY <3>3 DEF HashWithout
    <3>5. HashWithout(u, leaves, sibling) =
            [x \in Block(sibling) |->
               IF IsLeaf(x) /\ NodeToLeafIndex(x) \in leaves THEN Content(Blank)
               ELSE [key |-> u[x].key, unmergedLeaves |-> Excluding(u[x].unmergedLeaves, leaves)]]
      BY <3>3 DEF HashWithout
    <3> QED
      BY <3>2, <3>4, <3>5
  <2> QED
    BY <1>1, <1>3, <2>4, <2>6, <2>7 DEF CalculateParentHash, Alike, p, sibling
<1> QED
  BY <1>5, <1>6

-----------------------------------------------------------------------------
(***************************************************************************)
(* Where a leaf meets a filtered path.                                     *)
(***************************************************************************)
MeetsAt(P, y, w) ==
  IF w = 0 THEN \A i \in DOMAIN P : y \notin Block(P[i])
  ELSE w \in DOMAIN P /\ \A i \in DOMAIN P : y \in Block(P[i]) <=> i >= w

LEMMA FirstMatchIs ==
  ASSUME NEW t, NEW h, IsTreeOf(t, h), NEW s \in Full(h), NEW fdp, Ascending(h, s, NodesOf(fdp)),
         NEW q \in Nat, LeafToNodeIndex(q) \in Full(h)
  PROVE  MeetsAt(NodesOf(fdp), LeafToNodeIndex(q), FirstMatch(t, fdp, q))
<1> DEFINE P == NodesOf(fdp)
           y == LeafToNodeIndex(q)
           above == {i \in DOMAIN fdp : fdp[i].nodeIndex \in Above(t, y)}
<1>1. h \in Nat /\ y \in Nat /\ IsLeaf(y)
  BY LeafNumbers DEF IsTreeOf
<1>2. DOMAIN P = DOMAIN fdp /\ \A i \in DOMAIN P : P[i] = fdp[i].nodeIndex
  BY DEF NodesOf
<1>3. /\ DOMAIN P = 1 .. Len(P) /\ Len(P) \in Nat
      /\ \A i \in DOMAIN P : P[i] \in Full(h) /\ P[i] \in Nat /\ s \in Block(P[i]) /\ P[i] # y /\ Level(P[i]) \in Nat
      /\ \A i, j \in DOMAIN P : i < j => Level(P[i]) < Level(P[j])
  BY <1>1, NodeOfTree, NodeBasics DEF Ascending
<1>4. Above(t, y) = {z \in Full(h) \ {y} : y \in Block(z)}
  BY AboveNode
<1>5. above = {i \in DOMAIN P : y \in Block(P[i])}
  BY <1>2, <1>3, <1>4
<1>6. FirstMatch(t, fdp, q) = IF above = {} THEN 0 ELSE Min(above)
  BY DEF FirstMatch
<1> HIDE DEF P, y, above
<1>7. CASE above = {}
  BY <1>5, <1>6, <1>7 DEF MeetsAt, P, y
<1>8. CASE above # {}
  <2>1. above \subseteq Nat
    BY <1>3, <1>5
  <2>2. Min(above) \in above /\ \A i \in above : Min(above) <= i
    BY <1>8, <2>1, Least
  <2>3. ASSUME NEW i \in DOMAIN P, i >= Min(above)  PROVE y \in Block(P[i])
    <3> DEFINE w == Min(above)
    <3>1. w \in DOMAIN P /\ y \in Block(P[w])
      BY <1>5, <2>2
    <3>2. Level(P[w]) <= Level(P[i])
      <4>1. w = i \/ w < i
        BY <1>3, <2>3, <3>1
      <4> QED
        BY <1>3, <3>1, <4>1
    <3>3. s \in Nat
      BY <1>1, NodeOfTree
    <3> HIDE DEF w
    <3>4. P[w] \in Block(P[i])
      BY <1>3, <3>1, <3>2, <3>3, BlocksMeet
    <3>5. Block(P[w]) \subseteq Block(P[i])
      BY <1>3, <3>1, <3>4, BlocksNest
    <3> QED
      BY <3>1, <3>5
  <2>4. Min(above) # 0 /\ Min(above) \in DOMAIN P
    BY <1>3, <1>5, <2>2
  <2>5. \A i \in DOMAIN P : y \in Block(P[i]) <=> i >= Min(above)
    BY <1>3, <1>5, <2>1, <2>2, <2>3
  <2> QED
    BY <1>6, <1>8, <2>4, <2>5 DEF MeetsAt, P, y
<1> QED
  BY <1>7, <1>8

LEMMA MeetsOnce ==
  ASSUME NEW P, DOMAIN P \subseteq Nat, NEW y, NEW v, NEW w, MeetsAt(P, y, v), MeetsAt(P, y, w), w # 0
  PROVE  v = w
<1>1. w \in DOMAIN P /\ \A i \in DOMAIN P : y \in Block(P[i]) <=> i >= w
  BY DEF MeetsAt
<1>2. y \in Block(P[w])
  BY <1>1
<1>3. v # 0
  BY <1>1, <1>2 DEF MeetsAt
<1>4. v \in DOMAIN P /\ \A i \in DOMAIN P : y \in Block(P[i]) <=> i >= v
  BY <1>3 DEF MeetsAt
<1>5. w >= v
  BY <1>1, <1>2, <1>4
<1>6. v >= w
  BY <1>1, <1>4
<1> QED
  BY <1>1, <1>4, <1>5, <1>6

\* What is left of a sequence are its elements that are not excluded.
LEMMA ExcludingElements ==
  ASSUME NEW S, NEW seq \in Seq(S), NEW excluded
  PROVE  /\ DOMAIN Excluding(seq, excluded) \subseteq Nat
         /\ \A k \in DOMAIN Excluding(seq, excluded) :
              \E i \in DOMAIN seq : Excluding(seq, excluded)[k] = seq[i] /\ seq[i] \notin excluded
         /\ \A i \in DOMAIN seq : seq[i] \notin excluded =>
              \E k \in DOMAIN Excluding(seq, excluded) : Excluding(seq, excluded)[k] = seq[i]
<1> DEFINE P == {i \in DOMAIN seq : seq[i] \notin excluded}
           r == Excluding(seq, excluded)
<1>1. Len(seq) \in Nat /\ P \subseteq 1 .. Len(seq)
  OBVIOUS
<1>2. r = AtPositions(seq, P)
  BY DEF Excluding
<1> HIDE DEF P, r
<1>3. PICK nth : Selected(seq, P, r, nth)
  BY <1>1, <1>2, AtPositionsIs
<1>4. /\ Cardinality(P) \in Nat /\ DOMAIN r = 1 .. Cardinality(P) /\ nth \in [DOMAIN r -> P]
      /\ \A k \in DOMAIN r : r[k] = seq[nth[k]]
      /\ \A i \in P : \E k \in DOMAIN r : nth[k] = i
  BY <1>3 DEF Selected
<1>5. DOMAIN r \subseteq Nat
  BY <1>4
<1>6. \A k \in DOMAIN r : \E i \in DOMAIN seq : r[k] = seq[i] /\ seq[i] \notin excluded
  BY <1>4 DEF P
<1>7. \A i \in DOMAIN seq : seq[i] \notin excluded => \E k \in DOMAIN r : r[k] = seq[i]
  BY <1>4 DEF P
<1> QED
  BY <1>5, <1>6, <1>7 DEF r

\* Sets that differ at most in s.
AlikeBut(A, B, s) == \A y : y # s => (y \in A <=> y \in B)

LEMMA ExcludingAlike ==
  ASSUME NEW seq, NEW A, NEW B, NEW s, AlikeBut(A, B, s), \A i \in DOMAIN seq : seq[i] # s
  PROVE  Excluding(seq, A) = Excluding(seq, B)
<1>1. {i \in DOMAIN seq : seq[i] \notin A} = {i \in DOMAIN seq : seq[i] \notin B}
  BY DEF AlikeBut
<1> QED
  BY <1>1 DEF Excluding

-----------------------------------------------------------------------------
(***************************************************************************)
(* Parent hash coverage.  When one node below each parent node, of those   *)
(* whose next node up it is, has its parent hash, each is covered once.    *)
(***************************************************************************)
SumOf(f, S) == MapThenSumSet(LAMBDA x : f[x], S)

Summing(f, S, iter) ==
  iter = [s \in SUBSET S |->
            IF s = {} THEN 0 ELSE f[CHOOSE x \in s : TRUE] + iter[s \ {CHOOSE x \in s : TRUE}]]

LEMMA SumOfIs ==
  ASSUME NEW f, NEW S
  PROVE  SumOf(f, S) = (CHOOSE iter : Summing(f, S, iter))[S]
BY DEF SumOf, MapThenSumSet, MapThenFoldSet, Summing

LEMMA SumOfSame ==
  ASSUME NEW f, NEW g, NEW S, \A x \in S : f[x] = g[x]
  PROVE  SumOf(f, S) = SumOf(g, S)
<1>1. \A s \in SUBSET S : s # {} => f[CHOOSE x \in s : TRUE] = g[CHOOSE x \in s : TRUE]
  <2> SUFFICES ASSUME NEW s \in SUBSET S, s # {}  PROVE f[CHOOSE x \in s : TRUE] = g[CHOOSE x \in s : TRUE]
    OBVIOUS
  <2>1. (CHOOSE x \in s : TRUE) \in s
    OBVIOUS
  <2> QED
    BY <2>1
<1>2. \A iter : Summing(f, S, iter) <=> Summing(g, S, iter)
  <2> TAKE iter
  <2>1. [s \in SUBSET S |-> IF s = {} THEN 0 ELSE f[CHOOSE x \in s : TRUE] + iter[s \ {CHOOSE x \in s : TRUE}]]
          = [s \in SUBSET S |-> IF s = {} THEN 0 ELSE g[CHOOSE x \in s : TRUE] + iter[s \ {CHOOSE x \in s : TRUE}]]
    BY <1>1
  <2> QED
    BY <2>1 DEF Summing
<1>3. (CHOOSE iter : Summing(f, S, iter)) = (CHOOSE iter : Summing(g, S, iter))
  BY <1>2
<1> QED
  BY <1>3, SumOfIs

LEMMA SumOfOne ==
  ASSUME NEW f, NEW x, f[x] \in Nat
  PROVE  SumOf(f, {x}) = f[x]
<1> DEFINE F == [s \in SUBSET {x} |-> IF s = {} THEN 0 ELSE f[x]]
           G == CHOOSE iter : Summing(f, {x}, iter)
<1>1. \A s \in SUBSET {x} : s # {} => s = {x} /\ (CHOOSE y \in s : TRUE) = x /\ s \ {x} = {}
  OBVIOUS
<1>2. Summing(f, {x}, F)
  <2>1. F[{}] = 0 /\ {} \in SUBSET {x}
    OBVIOUS
  <2>2. ASSUME NEW s \in SUBSET {x}
        PROVE  F[s] = IF s = {} THEN 0 ELSE f[CHOOSE y \in s : TRUE] + F[s \ {CHOOSE y \in s : TRUE}]
    <3>1. CASE s = {}
      BY <2>1, <3>1
    <3>2. CASE s # {}
      <4>1. s = {x} /\ (CHOOSE y \in s : TRUE) = x /\ s \ {CHOOSE y \in s : TRUE} = {}
        BY <1>1, <3>2
      <4>2. F[s] = f[x]
        BY <3>2
      <4> HIDE DEF F
      <4> QED
        BY <2>1, <3>2, <4>1, <4>2
    <3> QED
      BY <3>1, <3>2
  <2>3. F = [s \in SUBSET {x} |-> F[s]]
    OBVIOUS
  <2> HIDE DEF F
  <2> QED
    BY <2>2, <2>3 DEF Summing
<1>3. Summing(f, {x}, G)
  BY <1>2
<1> HIDE DEF F, G
<1>4. G[{}] = 0
  BY <1>3 DEF Summing
<1>5. G[{x}] = f[x] + G[{}]
  <2>1. {x} # {} /\ {x} \in SUBSET {x} /\ (CHOOSE y \in {x} : TRUE) = x /\ {x} \ {x} = {}
    BY <1>1
  <2> QED
    BY <1>3, <2>1 DEF Summing
<1>6. G[{x}] = f[x]
  BY <1>4, <1>5
<1> QED
  BY <1>6, SumOfIs DEF G

\* The linked nodes that cover a node.
CoveredFrom(t, L, n) == {x \in L \intersect (Subtree(n) \ {n}) : FindFirstNonBlankAncestor(t, x) = n}

CoveredAt(t, L, c, n) == IF IsLeaf(n) THEN 1 ELSE SumOf(c, CoveredFrom(t, L, n))

Covering(t, L, c) == c = [n \in DOMAIN t |-> CoveredAt(t, L, c, n)]

LEMMA CoveredFromBelow ==
  ASSUME NEW t, NEW h, IsTreeOf(t, h), NEW L, L \subseteq DOMAIN t, NEW n \in Full(h)
  PROVE  \A x \in CoveredFrom(t, L, n) : x \in L /\ x \in Full(h) /\ x \in Nat /\ Level(x) \in Nat /\ Level(x) < Level(n)
<1> SUFFICES ASSUME NEW x \in CoveredFrom(t, L, n)
             PROVE  x \in L /\ x \in Full(h) /\ x \in Nat /\ Level(x) \in Nat /\ Level(x) < Level(n)
  OBVIOUS
<1>1. x \in L /\ x \in Subtree(n) /\ x # n
  BY DEF CoveredFrom
<1>2. x \in Full(h) /\ n \in Full(h) /\ Full(h) \subseteq Nat
  BY <1>1, TreeShape
<1>3. x \in Block(n)
  BY <1>1, SubtreeIs
<1>4. x \in Nat /\ n \in Nat
  BY <1>2
<1>5. Level(x) < Level(n)
  BY <1>1, <1>3, <1>4, BelowHasLowerLevel
<1>6. Level(x) \in Nat
  BY <1>4, NodeBasics
<1> QED
  BY <1>1, <1>2, <1>4, <1>5, <1>6

LEMMA CoveringExists ==
  ASSUME NEW t, NEW h, IsTreeOf(t, h), NEW L, L \subseteq DOMAIN t
  PROVE  \E c : Covering(t, L, c)
<1> DEFINE Upto(c, k) == /\ c = [n \in Full(h) |-> c[n]]
                         /\ \A n \in Full(h) : Level(n) <= k => c[n] = CoveredAt(t, L, c, n)
           S == {k \in Nat : \E c : Upto(c, k)}
<1>1. h \in Nat /\ DOMAIN t = Full(h) /\ \A n \in Full(h) : n \in Nat /\ Level(n) \in Nat /\ (IsLeaf(n) <=> Level(n) = 0)
  BY TreeShape, NodeBasics
<1>2. 0 \in S
  <2> DEFINE c == [n \in Full(h) |-> 1]
  <2>1. \A n \in Full(h) : Level(n) <= 0 => IsLeaf(n) /\ c[n] = 1
    BY <1>1
  <2>2. c = [n \in Full(h) |-> c[n]]
    OBVIOUS
  <2>3. \A n \in Full(h) : Level(n) <= 0 => c[n] = CoveredAt(t, L, c, n)
    <3> HIDE DEF c
    <3> QED
      BY <2>1 DEF CoveredAt
  <2>4. Upto(c, 0)
    <3> HIDE DEF c
    <3> QED
      BY <2>2, <2>3
  <2> QED
    BY <2>4
<1>3. ASSUME NEW k \in Nat, k \in S  PROVE k + 1 \in S
  <2> DEFINE j == k + 1
  <2>1. PICK c : Upto(c, k)
    BY <1>3
  <2> DEFINE d == [n \in Full(h) |-> IF Level(n) = j THEN CoveredAt(t, L, c, n) ELSE c[n]]
  <2>2. \A n \in Full(h) : d[n] = IF Level(n) = j THEN CoveredAt(t, L, c, n) ELSE c[n]
    OBVIOUS
  <2>3. d = [n \in Full(h) |-> d[n]]
    OBVIOUS
  <2>4. j \in Nat
    OBVIOUS
  <2> HIDE DEF d
  <2>5. ASSUME NEW n \in Full(h), Level(n) <= j  PROVE d[n] = CoveredAt(t, L, d, n)
    <3>1. ASSUME NEW x \in CoveredFrom(t, L, n)  PROVE c[x] = d[x]
      <4>1. x \in Full(h) /\ Level(x) \in Nat /\ Level(x) < Level(n)
        BY CoveredFromBelow
      <4>2. Level(x) # j
        BY <1>1, <2>4, <2>5, <4>1
      <4> QED
        BY <2>2, <4>1, <4>2
    <3>2. CoveredAt(t, L, c, n) = CoveredAt(t, L, d, n)
      BY <3>1, SumOfSame DEF CoveredAt
    <3>3. CASE Level(n) = j
      BY <2>2, <3>2, <3>3
    <3>4. CASE Level(n) # j
      <4>1. Level(n) <= k
        BY <1>1, <2>5, <3>4
      <4> QED
        BY <2>1, <2>2, <3>2, <3>4, <4>1
    <3> QED
      BY <3>3, <3>4
  <2>6. Upto(d, j)
    BY <2>3, <2>5
  <2>7. j \in S
    BY <2>4, <2>6
  <2> QED
    BY <2>7
<1>4. Nat \subseteq S
  <2> HIDE DEF S
  <2> QED
    BY <1>2, <1>3, InductionOnSet
<1>5. PICK c : Upto(c, h)
  BY <1>1, <1>4
<1>6. \A n \in Full(h) : c[n] = CoveredAt(t, L, c, n)
  BY <1>5, NodeOfTree, <1>1
<1>7. [n \in Full(h) |-> c[n]] = [n \in Full(h) |-> CoveredAt(t, L, c, n)]
  BY <1>6
<1>8. c = [n \in Full(h) |-> CoveredAt(t, L, c, n)]
  BY <1>5, <1>7
<1> QED
  BY <1>1, <1>8 DEF Covering

LEMMA CoverageIs ==
  ASSUME NEW t, NEW h, IsTreeOf(t, h)
  PROVE  Covering(t, Linked(t), Coverage(t))
<1>1. Coverage(t) = CHOOSE c : Covering(t, Linked(t), c)
  BY DEF Coverage, Covering, CoveredAt, CoveredFrom, SumOf
<1>2. Linked(t) \subseteq DOMAIN t
  BY DEF Linked, NonBlank
<1>3. \E c : Covering(t, Linked(t), c)
  BY <1>2, CoveringExists
<1> QED
  BY <1>1, <1>3

\* A node p one linked node covers.
CoveredByOne(t, p) == \E x : CoveredFrom(t, Linked(t), p) = {x}

LEMMA ParentHashesVerify ==
  ASSUME NEW t, NEW h, IsTreeOf(t, h), \A p \in Parents(t) : CoveredByOne(t, p)
  PROVE  VerifyParentHashes(t)
<1> DEFINE c == Coverage(t)
           L == Linked(t)
           S == {k \in Nat : \A p \in Parents(t) : Level(p) <= k => c[p] = 1}
<1>1. Covering(t, L, c)
  BY CoverageIs
<1>2. /\ h \in Nat /\ DOMAIN t = Full(h) /\ L \subseteq NonBlank(t) /\ NonBlank(t) \subseteq DOMAIN t
      /\ \A n \in Full(h) : n \in Nat /\ Level(n) \in Nat /\ Level(n) <= h /\ (IsLeaf(n) <=> Level(n) = 0)
  <2>1. h \in Nat /\ DOMAIN t = Full(h)
    BY TreeShape
  <2>2. L \subseteq NonBlank(t) /\ NonBlank(t) \subseteq DOMAIN t
    BY DEF Linked, NonBlank
  <2>3. \A n \in Full(h) : n \in Nat /\ Level(n) \in Nat /\ Level(n) <= h /\ (IsLeaf(n) <=> Level(n) = 0)
    BY <2>1, NodeOfTree, NodeBasics
  <2> QED
    BY <2>1, <2>2, <2>3
<1>3. \A n \in DOMAIN t : c[n] = CoveredAt(t, L, c, n)
  <2> HIDE DEF c, L
  <2> QED
    BY <1>1 DEF Covering
<1> HIDE DEF c, L
<1>4. 0 \in S
  BY <1>2 DEF Parents
<1>5. ASSUME NEW k \in Nat, k \in S  PROVE k + 1 \in S
  <2> SUFFICES ASSUME NEW p \in Parents(t), Level(p) <= k + 1  PROVE c[p] = 1
    OBVIOUS
  <2>1. p \in Full(h) /\ ~IsLeaf(p) /\ Level(p) \in Nat
    BY <1>2 DEF Parents
  <2>2. PICK x : CoveredFrom(t, L, p) = {x}
    BY DEF CoveredByOne, L
  <2>3. x \in L /\ x \in Full(h) /\ Level(x) \in Nat /\ Level(x) < Level(p)
    BY <1>2, <2>1, <2>2, CoveredFromBelow
  <2>4. c[x] = 1
    <3>1. CASE IsLeaf(x)
      BY <1>2, <1>3, <2>3, <3>1 DEF CoveredAt
    <3>2. CASE ~IsLeaf(x)
      <4>1. x \in Parents(t)
        BY <1>2, <2>3, <3>2 DEF Parents
      <4>2. Level(x) <= k
        BY <2>1, <2>3
      <4> QED
        BY <1>5, <4>1, <4>2
    <3> QED
      BY <3>1, <3>2
  <2>5. c[p] = SumOf(c, {x})
    BY <1>2, <1>3, <2>1, <2>2 DEF CoveredAt
  <2>6. c[x] \in Nat
    BY <2>4
  <2> QED
    BY <2>4, <2>5, <2>6, SumOfOne
<1>6. Nat \subseteq S
  <2> HIDE DEF S
  <2> QED
    BY <1>4, <1>5, InductionOnSet
<1>7. \A p \in Parents(t) : c[p] = 1
  <2> TAKE p \in Parents(t)
  <2>1. p \in Full(h)
    BY <1>2 DEF Parents
  <2>2. h \in S /\ Level(p) <= h
    BY <1>2, <1>6, <2>1
  <2> QED
    BY <2>2
<1> QED
  BY <1>7 DEF VerifyParentHashes, c

-----------------------------------------------------------------------------
(***************************************************************************)
(* The next node up with a key, and the parent hash it gives.              *)
(***************************************************************************)
NextUp(t, x, p) ==
  /\ x \in Nat /\ p \in Nat /\ x \in Block(p) /\ x # p /\ At(t, p) # Blank
  /\ \A z \in Nat : x \in Block(z) /\ z \in Block(p) /\ z # x /\ z # p => At(t, z) = Blank

LEMMA NextUpIs ==
  ASSUME NEW t, NEW h, IsTreeOf(t, h), NEW x, NEW p, NextUp(t, x, p)
  PROVE  /\ FindFirstNonBlankAncestor(t, x) = p /\ p \in Full(h) /\ x \in Full(h)
         /\ x # RootOf(t) /\ ~IsLeaf(p) /\ At(t, p) = t[p]
<1> DEFINE path == AncestorsOf(t, x)
           known == {i \in DOMAIN path : t[path[i]] # Blank}
<1>1. h \in Nat /\ DOMAIN t = Full(h) /\ Full(h) \subseteq Nat /\ RootOf(t) = Top(h)
  BY TreeShape
<1>2. x \in Nat /\ p \in Nat /\ x \in Block(p) /\ x # p /\ At(t, p) # Blank
  BY DEF NextUp
<1>3. p \in Full(h) /\ At(t, p) = t[p] /\ t[p] # Blank
  BY <1>1, <1>2 DEF At
<1>4. x \in Full(h) /\ ~IsLeaf(p) /\ Level(x) < Level(p)
  BY <1>1, <1>2, <1>3, NodeOfTree, NodeBasics, BelowHasLowerLevel
<1>5. x # Top(h)
  BY <1>1, <1>2, <1>3, <1>4, NodeOfTree, TopBasics
<1>6. FindFirstNonBlankAncestor(t, x) = IF known = {} THEN RootOf(t) ELSE path[Min(known)]
  BY DEF FindFirstNonBlankAncestor
<1>7. PathFrom(x, h, path) /\ Above(t, x) = {y \in Full(h) \ {x} : x \in Block(y)}
  BY <1>4, AboveNode
<1>8. Above(t, x) = {path[i] : i \in DOMAIN path}
  BY DEF Above, ToSet
<1> HIDE DEF path
<1>9. PICK i \in DOMAIN path : path[i] = p
  BY <1>2, <1>3, <1>7, <1>8
<1>10. DOMAIN path \subseteq Nat /\ \A j \in DOMAIN path : path[j] \in Full(h) /\ Level(path[j]) = Level(x) + j /\ x \in Block(path[j])
  <2>1. Level(x) \in Nat
    BY <1>2, NodeBasics
  <2>2. DOMAIN path = 1 .. h - Level(x)
    BY <1>7 DEF PathFrom
  <2>3. \A j \in DOMAIN path : path[j] \in Full(h) /\ Level(path[j]) = Level(x) + j /\ x \in Block(path[j])
    BY <1>7 DEF PathFrom
  <2>4. DOMAIN path \subseteq Nat
    BY <1>1, <2>1, <2>2
  <2> QED
    BY <2>3, <2>4
<1>11. i \in known /\ known \subseteq Nat
  BY <1>3, <1>9, <1>10
<1>12. Min(known) \in known /\ Min(known) <= i
  <2>1. known # {}
    BY <1>11
  <2> HIDE DEF known
  <2> QED
    BY <1>11, <2>1, Least
<1> DEFINE m == Min(known)
<1>13. m \in DOMAIN path /\ t[path[m]] # Blank
  BY <1>12
<1>14. FindFirstNonBlankAncestor(t, x) = path[m]
  BY <1>6, <1>11
<1> HIDE DEF m
<1>15. m = i
  <2> SUFFICES ASSUME m # i  PROVE FALSE
    OBVIOUS
  <2>1. m \in Nat /\ i \in Nat /\ m <= i
    BY <1>9, <1>10, <1>12, <1>13 DEF m
  <2>2. path[m] \in Block(p)
    BY <1>1, <1>4, <1>7, <1>9, <1>13, <2>1, PathGrows
  <2>3. path[m] # x /\ path[m] # p
    <3>1. Level(x) \in Nat /\ Level(path[m]) = Level(x) + m /\ Level(p) = Level(x) + i
      BY <1>2, <1>9, <1>10, <1>13, NodeBasics
    <3>2. m # 0
      BY <1>13, <1>7 DEF PathFrom
    <3> QED
      BY <2>1, <3>1, <3>2
  <2>4. path[m] \in Nat /\ x \in Block(path[m]) /\ path[m] \in DOMAIN t
    BY <1>1, <1>10, <1>13
  <2>5. At(t, path[m]) = Blank
    BY <2>2, <2>3, <2>4 DEF NextUp
  <2> QED
    BY <1>13, <2>4, <2>5 DEF At
<1> QED
  BY <1>1, <1>3, <1>4, <1>5, <1>9, <1>14, <1>15

LEMMA NothingUp ==
  ASSUME NEW t, NEW h, IsTreeOf(t, h), NEW x \in Full(h), NEW hashes,
         \A z \in Nat : x \in Block(z) /\ z # x => At(t, z) = Blank
  PROVE  CalculateParentHash(t, hashes, x) = NoHash
<1> DEFINE p == FindFirstNonBlankAncestor(t, x)
<1>1. h \in Nat /\ DOMAIN t = Full(h) /\ Full(h) \subseteq Nat /\ RootOf(t) = Top(h) /\ Top(h) \in Full(h)
  BY TreeShape
<1>2. p = RootOf(t) \/ (p \in Full(h) /\ p # x /\ x \in Block(p) /\ t[p] # Blank)
  BY AncestorIs
<1> HIDE DEF p
<1>3. \A z \in Full(h) : x \in Block(z) /\ z # x => t[z] = Blank
  BY <1>1 DEF At
<1>4. p = Top(h)
  BY <1>1, <1>2, <1>3
<1>5. x = Top(h) \/ t[p] = Blank
  BY <1>1, <1>3, <1>4, TopBasics
<1> QED
  BY <1>1, <1>5 DEF CalculateParentHash, p

-----------------------------------------------------------------------------
(***************************************************************************)
(* Hashes without some leaves.                                             *)
(***************************************************************************)
LEMMA ExcludingNobody ==
  ASSUME NEW S, NEW seq \in Seq(S)
  PROVE  Excluding(seq, {}) = seq
<1> DEFINE n == Len(seq)
<1>1. n \in Nat /\ DOMAIN seq = 1 .. n /\ seq = [k \in 1 .. n |-> seq[k]]
  OBVIOUS
<1>2. {i \in DOMAIN seq : seq[i] \notin {}} = 1 .. n
  BY <1>1
<1>3. Cardinality(1 .. n) = n
  BY <1>1, FS_Interval
<1>4. \A i \in 1 .. n : {j \in 1 .. n : j <= i} = 1 .. i /\ Cardinality(1 .. i) = i
  <2> TAKE i \in 1 .. n
  <2>1. {j \in 1 .. n : j <= i} = 1 .. i
    BY <1>1
  <2> QED
    BY <1>1, <2>1, FS_Interval
<1> HIDE DEF n
<1>5. \A k \in 1 .. n : (CHOOSE i \in 1 .. n : Cardinality({j \in 1 .. n : j <= i}) = k) = k
  BY <1>4
<1>6. AtPositions(seq, 1 .. n) = [k \in 1 .. n |-> seq[k]]
  <2>1. AtPositions(seq, 1 .. n) =
          [k \in 1 .. Cardinality(1 .. n) |->
             seq[CHOOSE i \in 1 .. n : Cardinality({j \in 1 .. n : j <= i}) = k]]
    BY DEF AtPositions
  <2>2. \A k \in 1 .. n : seq[CHOOSE i \in 1 .. n : Cardinality({j \in 1 .. n : j <= i}) = k] = seq[k]
    BY <1>5
  <2> QED
    BY <1>3, <2>1, <2>2
<1>7. Excluding(seq, {}) = AtPositions(seq, 1 .. n)
  BY <1>2 DEF Excluding
<1> QED
  BY <1>1, <1>6, <1>7

LEMMA ExcludingLonger ==
  ASSUME NEW s, NEW r, NEW W, Lengthened(s, r, W), NEW U, NEW V, W \subseteq V,
         \A l \in ToSet(s) : l \in U <=> l \in V
  PROVE  Excluding(r, V) = Excluding(s, U)
<1> DEFINE P == {i \in DOMAIN s : s[i] \notin U}
<1>1. /\ s \in Seq(Nat) /\ r \in Seq(Nat) /\ Len(s) \in Nat /\ Len(r) \in Nat /\ Len(s) <= Len(r)
      /\ DOMAIN s = 1 .. Len(s) /\ DOMAIN r = 1 .. Len(r)
      /\ \A i \in 1 .. Len(s) : r[i] = s[i]
      /\ \A i \in Len(s) + 1 .. Len(r) : r[i] \in W
  BY DEF Lengthened
<1>2. \A i \in DOMAIN s : s[i] \in U <=> s[i] \in V
  BY DEF ToSet
<1>3. {i \in DOMAIN r : r[i] \notin V} = P
  <2>1. ASSUME NEW i \in DOMAIN r, r[i] \notin V  PROVE i \in P
    <3>1. i \in 1 .. Len(s)
      BY <1>1, <2>1
    <3> QED
      BY <1>1, <1>2, <2>1, <3>1
  <2>2. ASSUME NEW i \in P  PROVE i \in DOMAIN r /\ r[i] \notin V
    BY <1>1, <1>2
  <2> QED
    BY <2>1, <2>2
<1>4. P \subseteq 1 .. Len(s) /\ \A i \in P : r[i] = s[i]
  BY <1>1
<1>5. Excluding(r, V) = AtPositions(r, P) /\ Excluding(s, U) = AtPositions(s, P)
  <2>1. Excluding(r, V) = AtPositions(r, {i \in DOMAIN r : r[i] \notin V}) /\ Excluding(s, U) = AtPositions(s, {i \in DOMAIN s : s[i] \notin U})
    BY DEF Excluding
  <2> QED
    BY <1>3, <2>1
<1> HIDE DEF P
<1>6. Ranked(P, Cardinality(P))
  BY <1>1, <1>4, Ranks
<1> DEFINE at(k) == CHOOSE i \in P : Cardinality({j \in P : j <= i}) = k
<1>7. \A k \in 1 .. Cardinality(P) : r[at(k)] = s[at(k)]
  <2> TAKE k \in 1 .. Cardinality(P)
  <2>1. \E i \in P : Cardinality({j \in P : j <= i}) = k
    BY <1>6 DEF Ranked, UpTo
  <2>2. at(k) \in P
    BY <2>1
  <2> QED
    BY <1>4, <2>2
<1>8. [k \in 1 .. Cardinality(P) |-> r[at(k)]] = [k \in 1 .. Cardinality(P) |-> s[at(k)]]
  BY <1>7
<1>9. AtPositions(r, P) = [k \in 1 .. Cardinality(P) |-> r[at(k)]] /\ AtPositions(s, P) = [k \in 1 .. Cardinality(P) |-> s[at(k)]]
  BY DEF AtPositions
<1> QED
  BY <1>5, <1>8, <1>9

\* What a hash without these leaves says of node x.
ContentWithout(t, leafIndices, x) ==
  IF IsLeaf(x) /\ NodeToLeafIndex(x) \in leafIndices THEN Content(Blank)
  ELSE [key |-> t[x].key, unmergedLeaves |-> Excluding(t[x].unmergedLeaves, leafIndices)]

LEMMA HashWithoutIs ==
  ASSUME NEW t, NEW U, NEW n
  PROVE  HashWithout(t, U, n) = [x \in Block(n) |-> ContentWithout(t, U, x)]
<1>1. Subtree(n) = Block(n)
  BY SubtreeIs
<1> QED
  BY <1>1 DEF HashWithout, ContentWithout

LEMMA HashWithoutNobody ==
  ASSUME NEW t, NEW h, IsTreeOf(t, h), NEW n \in Full(h)
  PROVE  HashWithout(t, {}, n) = FreshHash(t, n)
<1>1. h \in Nat /\ Block(n) \subseteq Full(h) /\ \A x \in Full(h) : t[x].unmergedLeaves \in Seq(Nat)
  BY TreeShape, NodeOfTree DEF IsNode
<1>2. \A x \in Block(n) : ContentWithout(t, {}, x) = Content(t[x])
  BY <1>1, ExcludingNobody DEF ContentWithout, Content
<1>3. HashWithout(t, {}, n) = [x \in Block(n) |-> ContentWithout(t, {}, x)]
  BY HashWithoutIs
<1>4. FreshHash(t, n) = [x \in Block(n) |-> Content(t[x])]
  BY FreshHashIs
<1> QED
  BY <1>2, <1>3, <1>4

Other(p, x) == IF x < p THEN Right(p) ELSE Left(p)

HashUnder(t, p, x) ==
  [key |-> At(t, p).key, sibling |-> HashWithout(t, ToSet(At(t, p).unmergedLeaves), Other(p, x))]

LEMMA ParentHashIs ==
  ASSUME NEW t, NEW h, IsTreeOf(t, h), NEW x, NEW p, NextUp(t, x, p)
  PROVE  CalculateParentHash(t, AllHashes(t), x) = HashUnder(t, p, x)
<1>1. /\ FindFirstNonBlankAncestor(t, x) = p /\ p \in Full(h) /\ x \in Full(h)
      /\ x # RootOf(t) /\ ~IsLeaf(p) /\ At(t, p) = t[p]
  BY NextUpIs
<1>2. h \in Nat /\ DOMAIN t = Full(h)
  BY TreeShape
<1>3. Left(p) \in Full(h) /\ Right(p) \in Full(h)
  BY <1>1, <1>2, ChildrenInTree
<1> DEFINE sib == Other(p, x)
           U == ToSet(t[p].unmergedLeaves)
<1>4. sib \in Full(h)
  BY <1>3 DEF Other
<1>5. AllHashes(t)[sib] = FreshHash(t, sib)
  BY <1>2, <1>4 DEF AllHashes
<1>6. U = {} => AllHashes(t)[sib] = HashWithout(t, U, sib)
  BY <1>4, <1>5, HashWithoutNobody
<1>7. t[p] # Blank
  BY <1>1 DEF NextUp
<1>8. CalculateParentHash(t, AllHashes(t), x) =
        [key |-> t[p].key, sibling |-> IF U = {} THEN AllHashes(t)[sib] ELSE HashWithout(t, U, sib)]
  BY <1>1, <1>7 DEF CalculateParentHash, Other
<1> QED
  BY <1>1, <1>6, <1>8 DEF HashUnder
=============================================================================
