------------------------- MODULE FileTransferProofs -------------------------
(***************************************************************************)
(* What repeated calls of read_forward, read_backward and write_forward    *)
(* transfer, for every file, device, block size and number of calls.       *)
(***************************************************************************)
EXTENDS FileTransfer, TLAPS

-----------------------------------------------------------------------------
(* The larger and the smaller of two numbers. *)

LEMMA TwoNumbers ==
    ASSUME NEW x \in Int, NEW y \in Int
    PROVE  /\ Min({x, y}) = IF x <= y THEN x ELSE y
           /\ Max({x, y}) = IF x >= y THEN x ELSE y
<1>1. Min({x, y}) = IF x <= y THEN x ELSE y
  <2>1. \E m \in {x, y} : \A n \in {x, y} : m <= n
    OBVIOUS
  <2>2. Min({x, y}) \in {x, y} /\ \A n \in {x, y} : Min({x, y}) <= n
    BY <2>1 DEF Min
  <2> QED
    BY <2>2
<1>2. Max({x, y}) = IF x >= y THEN x ELSE y
  <2>1. \E m \in {x, y} : \A n \in {x, y} : m >= n
    OBVIOUS
  <2>2. Max({x, y}) \in {x, y} /\ \A n \in {x, y} : Max({x, y}) >= n
    BY <2>1 DEF Max
  <2> QED
    BY <2>2
<1> QED
  BY <1>1, <1>2

-----------------------------------------------------------------------------
(***************************************************************************)
(* The inductive invariants.  What the calls have asked for so far is what *)
(* a descriptor's offset would be in a file without end.                   *)
(***************************************************************************)
Asked == calls * fileLength - (IF running THEN fileSize ELSE 0)
Limit == IF fptr = "read_forward" THEN size ELSE Capacity

ForwardInv ==
    fptr # "read_backward" =>
        /\ touched \cap earlier = {}
        /\ touched \cup earlier = 0 .. offset - 1
        /\ offset <= size
        /\ offset = IF opened THEN Min({Limit, Asked}) ELSE 0

\* The chunks before the last one are whole.
BackwardInv ==
    fptr = "read_backward" /\ opened /\ fileLength \in 1 .. size =>
        /\ running =>
               /\ fileSize > 0
               /\ touched = fileSize .. fileLength - 1
               /\ \E k \in 0 .. fileLength :
                      fileLength - fileSize = k * blockSize
        /\ ~ running /\ calls > 0 => BackwardSkipsFirstChunk

TransferInv == TypeOK /\ ForwardInv /\ BackwardInv

-----------------------------------------------------------------------------
(* The steps: a call ends, or transfers some bytes of a chunk. *)

LEMMA Facts ==
    ASSUME TypeOK
    PROVE  /\ fileLength \in Nat /\ blockSize \in Nat /\ blockSize > 0
           /\ Capacity \in Nat /\ MaxCalls \in Nat
           /\ size \in 0 .. Capacity /\ calls \in 0 .. MaxCalls
           /\ offset \in Nat
           /\ offset <= size \/ offset <= fileLength
           /\ fileSize \in 0 .. fileLength
           /\ chunk = IF blockSize > fileSize THEN fileSize ELSE blockSize
           /\ chunk \in 0 .. fileSize
           /\ fileSize > 0 => chunk > 0
<1>1. fileLength \in Nat /\ blockSize \in Nat /\ blockSize > 0 /\ Capacity \in Nat
      /\ MaxCalls \in Nat
  BY TransferAssumption DEF TypeOK
<1>2. size \in 0 .. Capacity /\ calls \in 0 .. MaxCalls
  BY DEF TypeOK
<1>3. offset \in Nat /\ (offset <= size \/ offset <= fileLength)
  <2>1. Max({size, fileLength}) \in {size, fileLength}
    BY <1>1, <1>2, TwoNumbers
  <2> QED
    BY <1>1, <1>2, <2>1 DEF TypeOK
<1> QED
  BY <1>1, <1>2, <1>3 DEF TypeOK, chunk

\* The bytes from position to the limit, or as many of them as are asked for.
Transfers(position, limit) ==
    \E n \in 1 .. chunk :
        /\ n = IF chunk <= limit - position THEN chunk ELSE limit - position
        /\ offset' = position + n
        /\ touched' = touched \cup (position .. position + n - 1)
        /\ fileSize' = fileSize - chunk
        /\ UNCHANGED <<setUp, running, calls, earlier>>

LEMMA ReadKinds ==
    ASSUME TypeOK, fileSize > 0, NEW position \in Nat, ReadAt(position)
    PROVE  \/ Return /\ offset' = position /\ (opened => size <= position)
           \/ opened /\ Transfers(position, size) /\ UNCHANGED size
<1> DEFINE n == IF opened THEN Min({chunk, size - position}) ELSE -1
<1>1. opened => n = IF chunk <= size - position THEN chunk
                                                ELSE size - position
  <2>1. chunk \in Int /\ size - position \in Int
    BY Facts
  <2> QED
    BY <2>1, TwoNumbers
<1>2. CASE n <= 0
  <2>1. Return /\ offset' = position
    BY <1>2 DEF ReadAt
  <2>2. opened => size <= position
    BY <1>1, <1>2, Facts
  <2> QED
    BY <2>1, <2>2
<1>3. CASE ~ (n <= 0)
  <2>1. /\ offset' = position + n
        /\ touched' = touched \cup (position .. position + n - 1)
        /\ fileSize' = fileSize - chunk
        /\ UNCHANGED <<setUp, size, running, calls, earlier>>
    BY <1>3 DEF ReadAt
  <2>2. opened
    BY <1>3
  <2>3. n \in 1 .. chunk
    BY <1>1, <1>3, <2>2, Facts
  <2> HIDE DEF n
  <2> QED
    BY <1>1, <2>1, <2>2, <2>3 DEF Transfers
<1> QED
  BY <1>2, <1>3

LEMMA WriteKinds ==
    ASSUME TypeOK, WriteForward
    PROVE  \/ Return /\ UNCHANGED offset /\ (opened => Capacity <= offset)
           \/ /\ opened /\ Transfers(offset, Capacity)
              /\ size' = IF size >= offset' THEN size ELSE offset'
<1> DEFINE n == IF opened THEN Min({chunk, Capacity - offset}) ELSE -1
<1>1. opened => n = IF chunk <= Capacity - offset THEN chunk
                                                  ELSE Capacity - offset
  <2>1. chunk \in Int /\ Capacity - offset \in Int
    BY Facts
  <2> QED
    BY <2>1, TwoNumbers
<1>2. CASE n <= 0
  <2>1. Return /\ UNCHANGED offset
    BY <1>2 DEF WriteForward
  <2>2. opened => Capacity <= offset
    BY <1>1, <1>2, Facts DEF WriteForward
  <2> QED
    BY <2>1, <2>2
<1>3. CASE ~ (n <= 0)
  <2>1. /\ offset' = offset + n
        /\ size' = Max({size, offset + n})
        /\ touched' = touched \cup (offset .. offset + n - 1)
        /\ fileSize' = fileSize - chunk
        /\ UNCHANGED <<setUp, running, calls, earlier>>
    BY <1>3 DEF WriteForward
  <2>2. opened
    BY <1>3
  <2>3. n \in 1 .. chunk
    BY <1>1, <1>3, <2>2, Facts
  <2> HIDE DEF n
  <2>4. size' = IF size >= offset' THEN size ELSE offset'
    <3>1. size \in Int /\ offset + n \in Int
      BY <2>3, Facts
    <3>2. Max({size, offset + n}) = IF size >= offset + n THEN size
                                                          ELSE offset + n
      BY <3>1, TwoNumbers
    <3> QED
      BY <2>1, <3>2
  <2> QED
    BY <1>1, <2>1, <2>2, <2>3, <2>4 DEF Transfers
<1> QED
  BY <1>2, <1>3

LEMMA TypesStep == TypeOK /\ [Next]_vars => TypeOK'
<1> SUFFICES ASSUME TypeOK, [Next]_vars PROVE TypeOK'
  OBVIOUS
<1> DEFINE Highest(s) == IF s >= fileLength THEN s ELSE fileLength
<1>0. ASSUME NEW s \in Int PROVE Max({s, fileLength}) = Highest(s)
  <2>1. fileLength \in Int
    BY Facts
  <2> QED
    BY <2>1, TwoNumbers
<1>1. ASSUME Return, UNCHANGED offset \/ offset' \in 0 .. fileLength
                     \/ offset' \in 0 .. size
      PROVE  TypeOK'
  <2>1. Max({size, fileLength}) = Highest(size)
    BY <1>0, Facts
  <2>2. running' \in BOOLEAN
    BY <1>1, Zenon DEF Return
  <2>3. UNCHANGED <<setUp, size, fileSize, calls, touched, earlier>>
    BY <1>1 DEF Return
  <2>4. offset' \in 0 .. Highest(size)
    BY <1>1, <2>1, Facts DEF TypeOK
  <2> QED
    BY <2>1, <2>2, <2>3, <2>4 DEF setUp, TypeOK
<1>2. ASSUME NEW p \in Nat, NEW limit \in Nat, Transfers(p, limit),
             limit <= Capacity,
             size' = IF size >= offset' THEN size ELSE offset'
      PROVE  TypeOK'
  <2>1. PICK n \in 1 .. chunk :
            /\ n = IF chunk <= limit - p THEN chunk ELSE limit - p
            /\ offset' = p + n
            /\ touched' = touched \cup (p .. p + n - 1)
            /\ fileSize' = fileSize - chunk
            /\ UNCHANGED <<setUp, running, calls, earlier>>
    BY <1>2 DEF Transfers
  <2>2. p + n <= Capacity /\ offset' \in Nat
    BY <1>2, <2>1, Facts
  <2>3. size' \in 0 .. Capacity /\ offset' <= size'
    BY <1>2, <2>1, <2>2, Facts
  <2>4. touched' \subseteq 0 .. Capacity - 1
    BY <2>1, <2>2, Facts DEF TypeOK
  <2>5. offset' \in 0 .. Max({size', fileLength'})
    <3>1. Max({size', fileLength}) = Highest(size')
      BY <1>0, <2>3
    <3> QED
      BY <2>1, <2>2, <2>3, <3>1, Facts DEF setUp
  <2> QED
    BY <2>1, <2>3, <2>4, <2>5, Facts DEF setUp, TypeOK
<1>3. CASE Call
  BY <1>3, Facts DEF Call, setUp, TypeOK
<1>4. ASSUME NEW p \in Nat, ReadAt(p), fileSize > 0, p <= size \/ p <= fileLength
      PROVE  TypeOK'
  <2>1. CASE Return /\ offset' = p
    BY <1>1, <1>4, <2>1, Facts
  <2>2. CASE opened /\ Transfers(p, size) /\ UNCHANGED size
    <3>1. size >= offset'
      BY <1>4, <2>2, Facts DEF Transfers
    <3> QED
      BY <1>2, <2>2, <3>1, Facts
  <2> QED
    BY <1>4, <2>1, <2>2, ReadKinds
<1>5. CASE ReadForward
  BY <1>4, <1>5, Facts DEF ReadForward
<1>6. CASE ReadBackward
  <2>1. CASE opened /\ fileSize > chunk
    BY <1>4, <1>6, <2>1, Facts DEF ReadBackward
  <2>2. CASE ~ (opened /\ fileSize > chunk)
    <3>1. fileSize - chunk \in 0 .. fileLength
      BY Facts
    <3> QED
      BY <1>1, <1>6, <2>2, <3>1 DEF ReadBackward
  <2> QED
    BY <2>1, <2>2
<1>7. CASE WriteForward
  BY <1>1, <1>2, <1>7, WriteKinds, Facts
<1>8. CASE EndOfLoop
  BY <1>1, <1>8 DEF EndOfLoop
<1>9. CASE UNCHANGED vars
  BY <1>9 DEF vars, setUp, TypeOK
<1> QED
  BY <1>3, <1>5, <1>6, <1>7, <1>8, <1>9 DEF Next, AllDone

-----------------------------------------------------------------------------
(* Forward: every call goes on where the last one has stopped. *)

LEMMA AskedFacts ==
    ASSUME TypeOK
    PROVE  /\ Asked \in Int
           /\ running => Asked + fileSize = calls * fileLength
           /\ ~ running => Asked = calls * fileLength
           /\ Limit \in 0 .. Capacity
BY Facts DEF Asked, Limit

LEMMA AskedNext == TypeOK' => (Limit \in Int /\ Asked \in Int)'
<1>1. TypeOK => Limit \in Int /\ Asked \in Int
  BY AskedFacts, Facts
<1> QED
  BY <1>1, PTL

LEMMA ForwardInvStep ==
    ASSUME TypeOK, ForwardInv, [Next]_vars
    PROVE  ForwardInv'
<1> SUFFICES ASSUME fptr' # "read_backward" PROVE ForwardInv'
  BY DEF ForwardInv
<1>0. UNCHANGED <<setUp, Capacity>>
  BY DEF Next, Call, ReadForward, ReadBackward, ReadAt, WriteForward,
         EndOfLoop, Return, AllDone, vars
<1>1. fptr # "read_backward" /\ TypeOK'
  BY <1>0, TypesStep DEF setUp
<1> DEFINE Least(x, y) == IF x <= y THEN x ELSE y
<1>2. /\ touched \cap earlier = {}
      /\ touched \cup earlier = 0 .. offset - 1
      /\ offset <= size
      /\ offset = IF opened THEN Least(Limit, Asked) ELSE 0
  <2>1. Min({Limit, Asked}) = Least(Limit, Asked)
    BY AskedFacts, TwoNumbers
  <2> QED
    BY <1>1, <2>1 DEF ForwardInv
<1>3. ASSUME touched' \cap earlier' = {},
             touched' \cup earlier' = 0 .. offset' - 1,
             offset' <= size',
             offset' = IF opened THEN Least(Limit', Asked') ELSE 0
      PROVE  ForwardInv'
  <2>1. Min({Limit', Asked'}) = Least(Limit', Asked')
    BY <1>1, AskedNext, TwoNumbers
  <2> QED
    BY <1>0, <1>3, <2>1 DEF ForwardInv, setUp
<1>4. CASE Call
  <2>1. /\ touched' \cup earlier' = touched \cup earlier
        /\ touched' \cap earlier' = {}
        /\ UNCHANGED <<offset, size, Limit>>
    BY <1>0, <1>4 DEF Call, setUp, Limit
  <2>2. Asked' = Asked
    BY <1>4, Facts DEF Call, Asked, setUp
  <2> QED
    BY <1>2, <1>3, <2>1, <2>2
<1>5. ASSUME Return, UNCHANGED offset, running,
             opened => Limit <= offset \/ fileSize = 0
      PROVE  ForwardInv'
  <2>1. UNCHANGED <<touched, earlier, offset, size, Limit>>
    BY <1>0, <1>5 DEF Return, setUp, Limit
  <2>2. Asked' = Asked + fileSize
    BY <1>0, <1>5, AskedFacts, Facts DEF Return, Asked, setUp
  <2> QED
    BY <1>2, <1>3, <1>5, <2>1, <2>2, AskedFacts, Facts
<1>6. ASSUME running, opened, Transfers(offset, Limit), UNCHANGED Limit,
             size' >= offset'
      PROVE  ForwardInv'
  <2>1. PICK n \in 1 .. chunk :
            /\ n = IF chunk <= Limit - offset THEN chunk ELSE Limit - offset
            /\ offset' = offset + n
            /\ touched' = touched \cup (offset .. offset + n - 1)
            /\ fileSize' = fileSize - chunk
            /\ UNCHANGED <<setUp, running, calls, earlier>>
    BY <1>6 DEF Transfers
  <2>2. /\ touched' \cap earlier' = {}
        /\ touched' \cup earlier' = 0 .. offset' - 1
    BY <1>2, <2>1, Facts
  <2>3. Asked' = Asked + chunk
    BY <1>6, <2>1, Facts DEF Asked, setUp
  <2>4. offset' = Least(Limit', Asked')
    BY <1>2, <1>6, <2>1, <2>3, AskedFacts, Facts
  <2> QED
    BY <1>3, <1>6, <2>2, <2>4
<1>7. CASE ReadForward
  <2>1. CASE Return /\ offset' = offset /\ (opened => size <= offset)
    BY <1>5, <1>7, <2>1 DEF ReadForward, Limit
  <2>2. CASE opened /\ Transfers(offset, size) /\ UNCHANGED size
    <3>1. Limit = size /\ UNCHANGED Limit
      BY <1>0, <1>7, <2>2 DEF ReadForward, Limit, setUp
    <3>2. size' >= offset'
      BY <1>2, <2>2, Facts DEF Transfers
    <3> QED
      BY <1>6, <1>7, <2>2, <3>1, <3>2 DEF ReadForward
  <2> QED
    BY <1>7, <2>1, <2>2, ReadKinds, Facts DEF ReadForward
<1>8. CASE WriteForward
  <2>1. CASE Return /\ UNCHANGED offset /\ (opened => Capacity <= offset)
    BY <1>5, <1>8, <2>1 DEF WriteForward, Limit
  <2>2. CASE /\ opened /\ Transfers(offset, Capacity)
             /\ size' = IF size >= offset' THEN size ELSE offset'
    <3>1. Limit = Capacity /\ UNCHANGED Limit
      BY <1>0, <1>8, <2>2 DEF WriteForward, Limit, setUp
    <3>2. size' >= offset'
      BY <2>2, Facts DEF Transfers
    <3> QED
      BY <1>6, <1>8, <2>2, <3>1, <3>2 DEF WriteForward
  <2> QED
    BY <1>8, <2>1, <2>2, WriteKinds
<1>9. CASE EndOfLoop
  BY <1>5, <1>9, Facts DEF EndOfLoop
<1>10. CASE UNCHANGED vars
  BY <1>2, <1>3, <1>10 DEF vars, setUp, Asked, Limit
<1>11. ~ ReadBackward
  BY <1>1 DEF ReadBackward
<1> QED
  BY <1>4, <1>7, <1>8, <1>9, <1>10, <1>11 DEF Next, AllDone

-----------------------------------------------------------------------------
(* Backward: all the chunks but the one at the start of the file. *)

LEMMA Remainder ==
    ASSUME NEW b \in Nat \ {0}, NEW q \in Nat, NEW r \in 0 .. b - 1
    PROVE  (q * b + r) % b = r
OBVIOUS

LEMMA BackwardInvStep ==
    ASSUME TypeOK, BackwardInv, [Next]_vars
    PROVE  BackwardInv'
<1>0. UNCHANGED setUp
  BY DEF Next, Call, ReadForward, ReadBackward, ReadAt, WriteForward,
         EndOfLoop, Return, AllDone, vars
<1>1. CASE fptr # "read_backward" \/ ~ opened
  BY <1>0, <1>1 DEF BackwardInv, setUp
<1>2. CASE fptr = "read_backward" /\ opened
  <2>0. UNCHANGED <<fptr, fileLength, blockSize, opened, size>>
    BY <1>0, <1>2
       DEF setUp, Next, Call, ReadForward, ReadBackward, ReadAt, WriteForward,
           EndOfLoop, Return, AllDone, vars
  <2> SUFFICES ASSUME fileLength \in 1 .. size PROVE BackwardInv'
    BY <2>0 DEF BackwardInv
  <2>1. CASE Call
    <3>1. /\ running' = TRUE /\ fileSize' = fileLength /\ touched' = {}
      BY <2>1 DEF Call
    <3>2. fileLength > 0 /\ fileLength .. fileLength - 1 = {}
      BY Facts
    <3>3. 0 \in 0 .. fileLength /\ fileLength - fileLength = 0 * blockSize
      BY Facts
    <3> QED
      BY <2>0, <3>1, <3>2, <3>3 DEF BackwardInv
  <2>2. CASE ReadBackward
    <3>1. /\ running /\ fileSize > 0
          /\ touched = fileSize .. fileLength - 1
      BY <1>2, <2>2 DEF ReadBackward, BackwardInv
    <3>2. PICK k \in 0 .. fileLength :
              fileLength - fileSize = k * blockSize
      BY <1>2, <3>1 DEF BackwardInv
    <3>3. CASE fileSize > chunk
      <4> DEFINE position == fileSize - chunk
      <4>1. chunk = blockSize /\ position \in Nat /\ position < size
        BY <3>3, Facts
      <4>2. Transfers(position, size)
        <5>1. ReadAt(position)
          BY <1>2, <2>2, <3>3 DEF ReadBackward
        <5> HIDE DEF position
        <5> QED
          BY <1>2, <3>1, <4>1, <5>1, ReadKinds, Facts
      <4>3. /\ touched' = touched \cup (position .. fileSize - 1)
            /\ fileSize' = position /\ running'
        BY <3>1, <4>1, <4>2, Facts, SMTT(30) DEF Transfers
      <4>4. touched' = fileSize' .. fileLength - 1
        BY <3>1, <4>1, <4>3, Facts
      <4>5. \E m \in 0 .. fileLength :
                fileLength - fileSize' = m * blockSize
        <5>1. fileLength - fileSize' = (k + 1) * blockSize
          BY <3>2, <4>1, <4>3, Facts
        <5>2. k + 1 <= (k + 1) * blockSize
          BY Facts
        <5>3. k + 1 \in 0 .. fileLength
          BY <4>1, <4>3, <5>1, <5>2, Facts
        <5> QED
          BY <5>1, <5>3
      <4> QED
        BY <2>0, <3>3, <4>3, <4>4, <4>5, Facts, SMTT(30) DEF BackwardInv
    <3>4. CASE ~ (fileSize > chunk)
      <4>1. Return
        BY <2>2, <3>4 DEF ReadBackward
      <4>2. fileSize - 1 \in 0 .. blockSize - 1
        BY <3>1, <3>4, Facts
      <4>3. (fileLength - 1) % blockSize = fileSize - 1
        <5>1. fileLength - 1 = k * blockSize + (fileSize - 1)
          BY <3>2, Facts
        <5>2. k \in Nat /\ blockSize \in Nat \ {0}
          BY Facts
        <5> QED
          BY <4>2, <5>1, <5>2, Remainder
      <4>4. touched = {j \in 0 .. fileLength - 1 :
                           j > (fileLength - 1) % blockSize}
        BY <3>1, <4>3, Facts
      <4>5. running' = FALSE /\ touched' = touched
        BY <4>1 DEF Return
      <4> QED
        BY <2>0, <4>4, <4>5 DEF BackwardInv, BackwardSkipsFirstChunk
    <3> QED
      BY <3>3, <3>4
  <2>3. ~ EndOfLoop
    BY <1>2, Facts DEF EndOfLoop, BackwardInv
  <2>4. CASE UNCHANGED vars
    BY <2>0, <2>4 DEF vars, BackwardInv, BackwardSkipsFirstChunk, HasReturned
  <2>5. ~ ReadForward /\ ~ WriteForward
    BY <1>2 DEF ReadForward, WriteForward
  <2> QED
    BY <2>1, <2>2, <2>3, <2>4, <2>5 DEF Next, AllDone
<1> QED
  BY <1>1, <1>2

-----------------------------------------------------------------------------
(* The theorems. *)

LEMMA TransferInvInit == Init => TransferInv
<1> SUFFICES ASSUME Init PROVE TransferInv
  OBVIOUS
<1> USE TransferAssumption DEF Init
<1>1. /\ fileLength \in Nat /\ size \in 0 .. Capacity
      /\ Max({size, fileLength}) \in Nat
  <2>1. fileLength \in Nat /\ size \in 0 .. Capacity
    OBVIOUS
  <2>2. Max({size, fileLength}) \in {size, fileLength}
    BY <2>1, TwoNumbers
  <2> QED
    BY <2>1, <2>2
<1>2. TypeOK
  <2>1. running \in BOOLEAN
    BY Zenon
  <2> QED
    BY <1>1, <2>1 DEF TypeOK
<1>3. ForwardInv
  <2>1. Asked = 0 /\ Limit \in Nat
    BY <1>1 DEF Asked, Limit
  <2>2. Min({Limit, Asked}) = 0
    BY <2>1, TwoNumbers
  <2> QED
    BY <1>1, <2>2 DEF ForwardInv
<1>4. BackwardInv
  BY DEF BackwardInv
<1> QED
  BY <1>2, <1>3, <1>4 DEF TransferInv

\* The inductive invariant of the functions under test of file_rd.cpp and
\* file_wr.cpp: an offset goes on from call to call (file_rd.cpp:88), or a
\* call works its way down from the end of the file (file_rd.cpp:111).
THEOREM TransferInvariant == Spec => []TransferInv
<1>1. TransferInv /\ [Next]_vars => TransferInv'
  BY TypesStep, ForwardInvStep, BackwardInvStep DEF TransferInv
<1> QED
  BY <1>1, TransferInvInit, PTL DEF Spec

\* No call transfers a byte beyond the end of the device, and fileSize, which
\* is unsigned, does not wrap below zero (file_rd.cpp:105), whatever read and
\* write return.
THEOREM TransferTypeCorrect == Spec => []TypeOK
<1>1. TransferInv => TypeOK
  BY DEF TransferInv
<1> QED
  BY <1>1, TransferInvariant, PTL

\* Calls of read_forward read the file once between them, from its start
\* (file_rd.cpp:88).
THEOREM ForwardReads == Spec => []ForwardReadsOnce
<1>1. TransferInv => ForwardReadsOnce
  <2> SUFFICES ASSUME TransferInv, fptr = "read_forward"
               PROVE  /\ touched \cap earlier = {}
                      /\ HasReturned =>
                             touched \cup earlier =
                                 0 .. Min({calls * fileLength, size}) - 1
    BY DEF ForwardReadsOnce
  <2>1. TypeOK /\ ForwardInv
    BY DEF TransferInv
  <2>2. ASSUME HasReturned PROVE offset = Min({calls * fileLength, size})
    <3>1. Asked = calls * fileLength /\ Limit = size
      BY <2>1, <2>2, AskedFacts DEF HasReturned, Limit
    <3>2. {Limit, Asked} = {calls * fileLength, size}
      BY <3>1
    <3> QED
      BY <2>1, <2>2, <3>2 DEF ForwardInv, HasReturned
  <2> QED
    BY <2>1, <2>2 DEF ForwardInv
<1> QED
  BY <1>1, TransferInvariant, PTL

\* Calls of write_forward write one chunk after the other, none twice
\* (file_wr.cpp:77).
THEOREM ForwardWrites == Spec => []WritesAreAppended
<1>1. TransferInv => WritesAreAppended
  <2> SUFFICES ASSUME TransferInv, fptr = "write_forward"
               PROVE  /\ touched \cap earlier = {}
                      /\ HasReturned =>
                           /\ touched \cup earlier =
                                0 .. Min({calls * fileLength, Capacity}) - 1
                           /\ touched \cup earlier \subseteq 0 .. size - 1
    BY DEF WritesAreAppended
  <2>1. TypeOK /\ ForwardInv
    BY DEF TransferInv
  <2>2. ASSUME HasReturned PROVE offset = Min({calls * fileLength, Capacity})
    <3>1. Asked = calls * fileLength /\ Limit = Capacity
      BY <2>1, <2>2, AskedFacts DEF HasReturned, Limit
    <3>2. {Limit, Asked} = {calls * fileLength, Capacity}
      BY <3>1
    <3> QED
      BY <2>1, <2>2, <3>2 DEF ForwardInv, HasReturned
  <2>3. 0 .. offset - 1 \subseteq 0 .. size - 1
    BY <2>1, Facts DEF ForwardInv
  <2> QED
    BY <2>1, <2>2, <2>3 DEF ForwardInv
<1> QED
  BY <1>1, TransferInvariant, PTL

\* A call of read_backward reads the file but for the chunk at its start,
\* for every length and every block size (file_rd.cpp:111).
THEOREM BackwardReads == Spec => []BackwardSkipsFirstChunk
<1>1. TransferInv => BackwardSkipsFirstChunk
  BY DEF TransferInv, BackwardInv, BackwardSkipsFirstChunk, HasReturned
<1> QED
  BY <1>1, TransferInvariant, PTL
=============================================================================
