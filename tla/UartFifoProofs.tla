--------------------------- MODULE UartFifoProofs ---------------------------
(***************************************************************************)
(* The serial port of UartFifo, for buffers of any size: its indices and   *)
(* counters stay consistent, it never stalls, and each direction is a      *)
(* queue that neither loses, repeats nor reorders an accepted byte.        *)
(***************************************************************************)
EXTENDS UartFifo, SequenceTheorems, TLAPS

\* The inductive invariant.  To the ring invariants it adds what the
\* foreground's masking guarantees.  A count of one seen by PutCharSend means
\* that nobody is sending the byte: UartIRQ, masked since before the test for
\* a full buffer, cannot have counted a finished byte off in between.
IInv ==
    /\ TypeOK
    /\ TxRingConsistent
    /\ RxRingConsistent
    /\ NeverStalled
    /\ pc \in {"put_check", "put_send", "put_enable"} => tcIE = "DISABLE"
    /\ pc \in {"get_take", "get_enable"} <=> rxneIE = "DISABLE"
    /\ pc = "put_send" => usTxCount > 0 /\ (usTxCount = 1 <=> ~ Sending)

\* A port just initialised satisfies the invariant: both rings are empty.
LEMMA InitIInv == Init => IInv
<1> SUFFICES ASSUME Init PROVE IInv
    OBVIOUS
<1>0. TxBufSize \in Nat \ {0} /\ RxBufSize \in Nat \ {0}
      BY SizeAssumption
<1>1. TypeOK
      BY <1>0, BlankAssumption DEF Init, TypeOK, ForegroundSteps
<1>2. TxRingConsistent /\ RxRingConsistent /\ NeverStalled
      BY <1>0, BlankAssumption DEF Init, TxRingConsistent, RxRingConsistent, NeverStalled,
                          Sending, Waiting, TxSlot, RxSlot
<1> QED BY <1>1, <1>2 DEF IInv, Init

\* No step of the foreground, the interrupt or the USART breaks the invariant.
LEMMA NextIInv == IInv /\ [Next]_vars => IInv'
<1> SUFFICES ASSUME IInv, [Next]_vars PROVE IInv'
    OBVIOUS
<1> USE BlankAssumption, SizeAssumption
<1>0. TxBufSize \in Nat \ {0} /\ RxBufSize \in Nat \ {0}
      BY SizeAssumption
<1> USE DEF IInv, TypeOK, TxRingConsistent, RxRingConsistent, NeverStalled, Sending,
            Waiting, TxSlot, RxSlot, ForegroundSteps, TxStep, RxStep, DecUShort,
            txVars, rxVars, RxPending, TxPending
<1>1. ASSUME NEW b \in Byte, PutCharBegin(b) PROVE IInv'
      BY <1>1 DEF PutCharBegin
<1>2. CASE PutCharFull
      BY <1>2 DEF PutCharFull
<1>3. CASE PutCharStore
      BY <1>3, SMTT(30) DEF PutCharStore
<1>4. CASE PutCharSend
  <2> USE DEF PutCharSend
  <2>1. CASE usTxCount = 1
    <3>1. shift = None /\ tc = "RESET" /\ usTxRead = IF usTxWrite = 0 THEN TxBufSize - 1 ELSE usTxWrite - 1
          BY <1>4, <1>0, <2>1
    <3>2. pTxBuf[usTxRead] \in Byte /\ shift' = pTxBuf[usTxRead] /\ shift' # None
          BY <1>4, <1>0, <2>1, <3>1
    <3> QED BY <1>4, <1>0, <2>1, <3>1, <3>2
  <2>2. CASE usTxCount # 1
        BY <1>4, <1>0, <2>2
  <2> QED BY <2>1, <2>2
<1>5. CASE PutCharEnd
      BY <1>5 DEF PutCharEnd
<1>6. CASE GetCharBegin
      BY <1>6 DEF GetCharBegin
<1>7. CASE GetCharTake
      BY <1>7 DEF GetCharTake
<1>8. CASE GetCharEnd
      BY <1>8 DEF GetCharEnd
<1>9. CASE UartIRQ
  <2> USE <1>0, <1>9 DEF UartIRQ
  <2>1. /\ pRxBuf' \in [0..RxBufSize-1 -> Byte]
        /\ usRxWrite' \in 0..RxBufSize-1 /\ usRxCount' \in 0..RxBufSize
        /\ rxne' \in {"SET", "RESET"}
        /\ usRxWrite' = RxSlot(usRxRead, usRxCount')
    <3> HIDE DEF TxRingConsistent, NeverStalled, Sending, Waiting, TxSlot, TxPending
    <3>1. CASE RxPending /\ usRxCount < RxBufSize
          BY <3>1, SMTT(30) DEF IrqReceive
    <3>2. CASE ~ (RxPending /\ usRxCount < RxBufSize)
          BY <3>2, SMTT(30) DEF IrqReceive
    <3> QED BY <3>1, <3>2
  <2>2. CASE ~ TxPending
    <3> HIDE DEF RxSlot, TxStep, RxStep
    <3>1. UNCHANGED <<usTxCount, tc, shift, usTxRead>>
          BY <2>2 DEF IrqTransmit
    <3> QED BY <2>1, <3>1
  <2>3. CASE TxPending
    <3>1. /\ shift = None /\ usTxCount \in 1..TxBufSize /\ usTxCount' = usTxCount - 1
          /\ tc' = "RESET" /\ pc \notin {"put_check", "put_send", "put_enable"}
          /\ usTxWrite = TxSlot(usTxRead, usTxCount')
          BY <2>3 DEF IrqTransmit
    <3>2. CASE usTxCount' = 0
      <4>1. shift' = None /\ usTxRead' = usTxRead
            BY <2>3, <3>1, <3>2 DEF IrqTransmit
      <4> HIDE DEF RxSlot, TxStep, RxStep
      <4> QED BY <2>1, <3>1, <3>2, <4>1
    <3>3. CASE usTxCount' # 0
      <4>1. shift' \in Byte /\ shift' # None /\ usTxRead' = TxStep(usTxRead)
            BY <2>3, <3>1, <3>3 DEF IrqTransmit
      <4>2. TxSlot(usTxRead', usTxCount' - 1) = usTxWrite /\ usTxRead' \in 0..TxBufSize-1
            BY <3>1, <3>3, <4>1
      <4> HIDE DEF RxSlot, TxSlot, TxStep, RxStep
      <4> QED BY <2>1, <3>1, <3>3, <4>1, <4>2, SMTT(30)
    <3> QED BY <3>2, <3>3, <3>1
  <2> QED BY <2>2, <2>3
<1>10. CASE ShiftDone
      BY <1>10 DEF ShiftDone
<1>11. ASSUME NEW b \in Byte, ByteArrives(b) PROVE IInv'
      BY <1>11 DEF ByteArrives
<1>12. CASE UNCHANGED vars
      BY <1>12 DEF vars
<1> QED BY <1>1, <1>2, <1>3, <1>4, <1>5, <1>6, <1>7, <1>8, <1>9, <1>10, <1>11, <1>12
        DEF Next, Foreground

\* Counters and indices stay in range and usTxCount-- never wraps around,
\* whatever the sizes of the two buffers.
THEOREM TypeCorrect == Spec => []TypeOK
<1>1. IInv => TypeOK
      BY DEF IInv
<1> QED BY InitIInv, NextIInv, <1>1, PTL DEF Spec

\* Foreground and interrupt agree on which bytes wait in either ring.
THEOREM RingsConsistent == Spec => []RingsAgree
<1>1. IInv => RingsAgree
      BY DEF IInv, RingsAgree
<1> QED BY InitIInv, NextIInv, <1>1, PTL DEF Spec

\* No accepted byte is ever left behind with the transmitter at rest.
THEOREM TransmitterNeverStalls == Spec => []NeverStalled
<1>1. IInv => NeverStalled
      BY DEF IInv
<1> QED BY InitIInv, NextIInv, <1>1, PTL DEF Spec

-----------------------------------------------------------------------------
(* Each direction implements ByteFifo.                                     *)

\* A sequence that extends another by one element is an Append.
LEMMA IsAppend ==
    ASSUME NEW S, NEW s \in Seq(S), NEW t \in Seq(S), NEW e \in S,
           Len(t) = Len(s) + 1, t[Len(t)] = e, \A i \in 1..Len(s) : t[i] = s[i]
    PROVE  t = Append(s, e)
<1>1. Append(s, e) \in Seq(S) /\ Len(Append(s, e)) = Len(s) + 1
      OBVIOUS
<1>2. \A i \in 1..Len(t) : t[i] = Append(s, e)[i]
      OBVIOUS
<1> QED BY <1>1, <1>2, SeqEqual

\* A sequence that another extends by one element in front is its Tail.
LEMMA IsTail ==
    ASSUME NEW S, NEW s \in Seq(S), NEW t \in Seq(S), s # <<>>,
           Len(t) = Len(s) - 1, \A i \in 1..Len(t) : t[i] = s[i + 1]
    PROVE  t = Tail(s)
<1>1. Tail(s) \in Seq(S) /\ Len(Tail(s)) = Len(s) - 1
      OBVIOUS
<1>2. \A i \in 1..Len(t) : t[i] = Tail(s)[i]
      OBVIOUS
<1> QED BY <1>1, <1>2, SeqEqual

\* The places of at most as many bytes as a ring has are places of the ring,
\* and the next free place is not one of them.
LEMMA SlotRange ==
    /\ \A r \in 0..RxBufSize-1, c \in 0..RxBufSize : \A i \in 1..c :
           RxSlot(r, i - 1) \in 0..RxBufSize-1
    /\ \A r \in 0..TxBufSize-1, c \in 0..TxBufSize : \A i \in 1..c :
           TxSlot(r, i - 1) \in 0..TxBufSize-1
    /\ \A r \in 0..RxBufSize-1, c \in 0..RxBufSize-1 : \A i \in 1..c :
           RxSlot(r, i - 1) # RxSlot(r, c)
    /\ \A r \in 0..TxBufSize-1, c \in 0..TxBufSize-1 : \A i \in 1..c :
           TxSlot(r, i - 1) # TxSlot(r, c)
<1>1. TxBufSize \in Nat \ {0} /\ RxBufSize \in Nat \ {0}
      BY SizeAssumption
<1> QED BY <1>1 DEF RxSlot, TxSlot

\* Counting a byte off a count that is not zero does not wrap around, and the
\* index that follows it leads to the same places.
LEMMA TxStepFacts ==
    /\ \A n \in 1..TxBufSize : DecUShort(n) = n - 1
    /\ \A r \in 0..TxBufSize-1, n \in 1..TxBufSize :
           TxSlot(TxStep(r), n - 1) = TxSlot(r, n)
<1>1. TxBufSize \in Nat \ {0} /\ TxBufSize < 65536
      BY SizeAssumption
<1>2. \A n \in 1..TxBufSize : DecUShort(n) = n - 1
      BY <1>1 DEF DecUShort
<1>3. \A r \in 0..TxBufSize-1, n \in 1..TxBufSize : TxSlot(TxStep(r), n - 1) = TxSlot(r, n)
      BY <1>1 DEF TxSlot, TxStep
<1> QED BY <1>2, <1>3

\* The receive queue read as a sequence.
LEMMA RxQueueShape ==
    ASSUME IInv
    PROVE  /\ RxQueue \in Seq(Byte)
           /\ Len(RxQueue) = usRxCount
           /\ \A i \in 1..usRxCount : RxQueue[i] = pRxBuf[RxSlot(usRxRead, i - 1)]
<1>1. TxBufSize \in Nat \ {0} /\ RxBufSize \in Nat \ {0}
      BY SizeAssumption
<1>2. \A i \in 1..usRxCount : RxSlot(usRxRead, i - 1) \in 0..RxBufSize-1
      BY SlotRange DEF IInv, TypeOK
<1> QED BY <1>1, <1>2 DEF IInv, TypeOK, RxQueue

\* Every step of the port is a step of the receive queue or leaves it alone:
\* UartIRQ appends the byte it stores, UartGetChar takes the oldest.
LEMMA RxSimulation ==
    ASSUME IInv, IInv', [Next]_vars
    PROVE  [RxFifo!Next]_(RxFifo!vars)
<1> USE DEF RxFifo!vars
<1>0. TxBufSize \in Nat \ {0} /\ RxBufSize \in Nat \ {0}
      BY SizeAssumption
<1>1. SUFFICES ASSUME <<rxVars, got>>' # <<rxVars, got>>
               PROVE  RxFifo!Next
      <2>1. CASE <<rxVars, got>>' = <<rxVars, got>>
            BY <2>1 DEF RxQueue, RxSlot, rxVars
      <2> QED BY <2>1
<1>2. DEFINE Q1 == RxQueue
             Q2 == RxQueue'
<1>3. /\ Q1 \in Seq(Byte) /\ Len(Q1) = usRxCount
      /\ \A i \in 1..usRxCount : Q1[i] = pRxBuf[RxSlot(usRxRead, i - 1)]
      BY RxQueueShape
<1>4. /\ Q2 \in Seq(Byte) /\ Len(Q2) = usRxCount'
      /\ \A i \in 1..usRxCount' : Q2[i] = pRxBuf'[RxSlot(usRxRead', i - 1)]
  <2>1. \A i \in 1..usRxCount' : RxSlot(usRxRead', i - 1) \in 0..RxBufSize-1
    <3>1. usRxCount' \in 0..RxBufSize /\ usRxRead' \in 0..RxBufSize-1
          BY DEF IInv, TypeOK
    <3> QED BY <3>1, SlotRange
  <2>2. usRxCount' \in Nat /\ pRxBuf' \in [0..RxBufSize-1 -> Byte]
        BY <1>0 DEF IInv, TypeOK
  <2> QED BY <1>0, <2>1, <2>2 DEF RxQueue
<1> HIDE DEF Q1, Q2
<1>5. CASE GetCharTake
  <2>1. usRxCount > 0 /\ usRxCount' = usRxCount - 1 /\ usRxRead' = RxStep(usRxRead)
        /\ pRxBuf' = pRxBuf /\ got' = pRxBuf[usRxRead]
        BY <1>1, <1>5, SMTT(30) DEF GetCharTake, rxVars, IInv, TypeOK
  <2>2. \A i \in 1..usRxCount' : RxSlot(usRxRead', i - 1) = RxSlot(usRxRead, i)
        BY <2>1, <1>0 DEF RxSlot, RxStep, IInv, TypeOK
  <2>3. \A i \in 1..Len(Q2) : Q2[i] = Q1[i + 1]
    <3> SUFFICES ASSUME NEW i \in 1..usRxCount' PROVE Q2[i] = Q1[i + 1]
        BY <1>4
    <3>1. i + 1 \in 1..usRxCount /\ (i + 1) - 1 = i
          BY <2>1 DEF IInv, TypeOK
    <3>2. Q1[i + 1] = pRxBuf[RxSlot(usRxRead, i)]
          BY <3>1, <1>3
    <3> QED BY <2>1, <2>2, <3>2, <1>4
  <2>4. Q1 # <<>> /\ Len(Q2) = Len(Q1) - 1
        BY <2>1, <1>3, <1>4 DEF IInv, TypeOK
  <2>5. Q2 = Tail(Q1)
        BY <2>3, <2>4, <1>3, <1>4, IsTail
  <2>6. got' = Head(Q1)
    <3>1. RxSlot(usRxRead, 0) = usRxRead
          BY <1>0 DEF RxSlot, IInv, TypeOK
    <3> QED BY <3>1, <2>1, <2>4, <1>3 DEF IInv, TypeOK
  <2> QED BY <2>4, <2>5, <2>6 DEF RxFifo!Next, RxFifo!Get, Q1, Q2
<1>6. CASE UartIRQ
  <2>1. /\ usRxCount < RxBufSize /\ usRxCount' = usRxCount + 1
        /\ pRxBuf' = [pRxBuf EXCEPT ![usRxWrite] = rdr]
        /\ usRxRead' = usRxRead /\ got' = got
        BY <1>1, <1>6 DEF UartIRQ, IrqReceive, rxVars
  <2>2. /\ usRxWrite = RxSlot(usRxRead, usRxCount)
        /\ \A i \in 1..usRxCount : RxSlot(usRxRead, i - 1) \in (0..RxBufSize-1) \ {usRxWrite}
        BY <2>1, <1>0 DEF RxSlot, IInv, TypeOK, RxRingConsistent
  <2>3. rdr \in Byte /\ usRxWrite \in 0..RxBufSize-1 /\ pRxBuf \in [0..RxBufSize-1 -> Byte]
        /\ usRxCount \in Nat
        BY <1>0 DEF IInv, TypeOK
  <2>4. \A i \in 1..Len(Q1) : Q2[i] = Q1[i]
        BY <2>1, <2>2, <2>3, <1>3, <1>4
  <2>5. Len(Q2) = Len(Q1) + 1 /\ Q2[Len(Q2)] = rdr
        BY <2>1, <2>2, <2>3, <1>3, <1>4
  <2>6. Q2 = Append(Q1, rdr)
        BY <2>3, <2>4, <2>5, <1>3, <1>4, IsAppend
  <2> QED BY <2>1, <2>3, <2>6, <1>3 DEF RxFifo!Next, RxFifo!Put, Q1, Q2
<1>7. ASSUME ~ GetCharTake, ~ UartIRQ PROVE FALSE
      BY <1>7, <1>1 DEF Next, Foreground, vars, txVars, rxVars, PutCharBegin, PutCharFull,
         PutCharStore, PutCharSend, PutCharEnd, GetCharBegin, GetCharEnd, ShiftDone, ByteArrives
<1> QED BY <1>5, <1>6, <1>7

\* For buffers of any size, UartGetChar reads the bytes that UartIRQ accepted
\* from the line once each and in the order in which they came.
THEOREM ReceiveIsFifo == Spec => RxIsFifo
<1>1. Init => RxFifo!Init
      BY DEF Init, RxFifo!Init, RxQueue
<1>2. IInv /\ IInv' /\ [Next]_vars => [RxFifo!Next]_(RxFifo!vars)
      BY RxSimulation
<1> QED BY InitIInv, NextIInv, <1>1, <1>2, PTL DEF Spec, RxIsFifo, RxFifo!Spec

\* Putting an element in front of a sequence is undone by Tail, and commutes with
\* appending one.
LEMMA SeqInFront ==
    ASSUME NEW S, NEW s \in Seq(S), NEW e \in S, NEW x \in S
    PROVE  /\ <<e>> \o s \in Seq(S) /\ Len(<<e>> \o s) = Len(s) + 1
           /\ <<e>> \o s # <<>> /\ Head(<<e>> \o s) = e /\ Tail(<<e>> \o s) = s
           /\ <<e>> \o Append(s, x) = Append(<<e>> \o s, x)
           /\ s # <<>> => <<Head(s)>> \o Tail(s) = s
<1>1. /\ <<e>> \o s \in Seq(S) /\ Len(<<e>> \o s) = Len(s) + 1
      /\ <<e>> \o s # <<>> /\ Head(<<e>> \o s) = e
      OBVIOUS
<1>2. s = Tail(<<e>> \o s)
      BY <1>1, IsTail
<1>3. <<e>> \o Append(s, x) = Append(<<e>> \o s, x)
  <2>1. <<e>> \o Append(s, x) \in Seq(S)
        OBVIOUS
  <2>2. Len(<<e>> \o Append(s, x)) = Len(<<e>> \o s) + 1
        OBVIOUS
  <2>3. (<<e>> \o Append(s, x))[Len(<<e>> \o Append(s, x))] = x
        OBVIOUS
  <2>4. \A i \in 1..Len(<<e>> \o s) : (<<e>> \o Append(s, x))[i] = (<<e>> \o s)[i]
        OBVIOUS
  <2> QED BY <1>1, <2>1, <2>2, <2>3, <2>4, IsAppend
<1>4. ASSUME s # <<>> PROVE <<Head(s)>> \o Tail(s) = s
  <2>1. Tail(s) \in Seq(S) /\ Len(Tail(s)) = Len(s) - 1 /\ Head(s) \in S
        BY <1>4
  <2>2. <<Head(s)>> \o Tail(s) \in Seq(S) /\ Len(<<Head(s)>> \o Tail(s)) = Len(s)
        BY <2>1
  <2>3. \A i \in 1..Len(s) : (<<Head(s)>> \o Tail(s))[i] = s[i]
        BY <1>4, <2>1
  <2> QED BY <2>2, <2>3, SeqEqual
<1> QED BY <1>1, <1>2, <1>3, <1>4

\* What the steps of a proof about the transmit queue need of the state.
LEMMA TxFacts ==
    ASSUME IInv
    PROVE  /\ TxBufSize \in Nat \ {0}
           /\ Waiting \in 0..TxBufSize
           /\ usTxRead \in 0..TxBufSize-1 /\ usTxWrite \in 0..TxBufSize-1
           /\ usTxWrite = TxSlot(usTxRead, Waiting)
           /\ pTxBuf \in [0..TxBufSize-1 -> Byte]
           /\ TxWaiting \in Seq(Byte) /\ Len(TxWaiting) = Waiting
           /\ \A i \in 1..Waiting : TxWaiting[i] = pTxBuf[TxSlot(usTxRead, i - 1)]
           /\ TxSlot(usTxRead, 0) = usTxRead
<1>1. TxBufSize \in Nat \ {0}
      BY SizeAssumption
<1>2. /\ Waiting \in 0..TxBufSize
      /\ usTxRead \in 0..TxBufSize-1 /\ usTxWrite \in 0..TxBufSize-1
      /\ usTxWrite = TxSlot(usTxRead, Waiting)
      /\ pTxBuf \in [0..TxBufSize-1 -> Byte]
      BY <1>1 DEF IInv, TypeOK, TxRingConsistent, Waiting
<1>3. \A i \in 1..Waiting : TxSlot(usTxRead, i - 1) \in 0..TxBufSize-1
      BY <1>2, SlotRange
<1>4. /\ TxWaiting \in Seq(Byte) /\ Len(TxWaiting) = Waiting
      /\ \A i \in 1..Waiting : TxWaiting[i] = pTxBuf[TxSlot(usTxRead, i - 1)]
      BY <1>1, <1>2, <1>3 DEF TxWaiting
<1>5. TxSlot(usTxRead, 0) = usTxRead
      BY <1>1, <1>2 DEF TxSlot
<1> QED BY <1>1, <1>2, <1>4, <1>5

\* Storing a byte appends it to the queue.
LEMMA StoreAppends ==
    ASSUME IInv, IInv', PutCharStore
    PROVE  TxFifo!Put(arg) /\ arg \in Byte
<1>1. /\ usTxCount < TxBufSize /\ usTxCount' = usTxCount + 1
      /\ Waiting' = Waiting + 1 /\ Waiting < TxBufSize
      /\ usTxRead' = usTxRead /\ shift' = shift /\ wire' = wire /\ arg \in Byte
      /\ pTxBuf' = [pTxBuf EXCEPT ![usTxWrite] = arg]
      BY SizeAssumption DEF PutCharStore, IInv, TypeOK, Waiting, Sending
<1>2. \A i \in 1..Waiting : TxSlot(usTxRead, i - 1) \in (0..TxBufSize-1) \ {usTxWrite}
  <2>1. /\ usTxRead \in 0..TxBufSize-1 /\ Waiting \in 0..TxBufSize-1 /\ Waiting \in 0..TxBufSize
        /\ usTxWrite = TxSlot(usTxRead, Waiting)
        BY <1>1, TxFacts
  <2> QED BY <2>1, SlotRange
<1>3. /\ TxWaiting' \in Seq(Byte) /\ Len(TxWaiting') = Waiting'
      /\ \A i \in 1..Waiting' : TxWaiting'[i] = pTxBuf'[TxSlot(usTxRead', i - 1)]
  <2>1. \A i \in 1..Waiting' : TxSlot(usTxRead, i - 1) \in 0..TxBufSize-1
        BY <1>1, TxFacts, SlotRange
  <2>2. pTxBuf' \in [0..TxBufSize-1 -> Byte] /\ Waiting' \in Nat
        BY <1>1, TxFacts
  <2> QED BY <1>1, <2>1, <2>2 DEF TxWaiting
<1>4. TxWaiting' = Append(TxWaiting, arg)
  <2>1. \A i \in 1..Waiting : TxWaiting'[i] = TxWaiting[i]
        BY <1>1, <1>2, <1>3, TxFacts
  <2>2. TxWaiting'[Waiting'] = arg
        BY <1>1, <1>3, TxFacts
  <2> QED BY <1>1, <1>3, <2>1, <2>2, TxFacts, IsAppend
<1>5. Len(TxQueue) < TxBufSize /\ TxQueue' = Append(TxQueue, arg)
  <2>1. CASE shift = None
        BY <2>1, <1>1, <1>4, TxFacts DEF TxQueue
  <2>2. CASE shift # None
    <3>1. shift \in Byte /\ Waiting = usTxCount - 1 /\ usTxCount \in Nat
          BY <2>2, SizeAssumption DEF IInv, TypeOK, Waiting, Sending
    <3> QED BY <3>1, <2>2, <1>1, <1>4, TxFacts, SeqInFront DEF TxQueue
  <2> QED BY <2>1, <2>2
<1> QED BY <1>1, <1>5 DEF TxFifo!Put

\* Handing the only byte to the USART leaves the queue as it is.
LEMMA SendKeepsQueue ==
    ASSUME IInv, IInv', PutCharSend
    PROVE  TxQueue' = TxQueue /\ wire' = wire
<1>1. CASE usTxCount # 1
      BY <1>1 DEF PutCharSend, TxQueue, TxWaiting, Waiting, Sending
<1>2. CASE usTxCount = 1
  <2>1. /\ shift = None /\ Waiting = 1 /\ pTxBuf' = pTxBuf /\ wire' = wire
        /\ usTxRead = IF usTxWrite = 0 THEN TxBufSize - 1 ELSE usTxWrite - 1
        BY <1>2, SizeAssumption
           DEF PutCharSend, IInv, TypeOK, TxRingConsistent, TxSlot, Waiting, Sending
  <2>2. shift' = pTxBuf[usTxRead] /\ shift' \in Byte /\ shift' # None
        BY <1>2, <2>1, TxFacts, BlankAssumption DEF PutCharSend
  <2>3. Waiting' = 0
        BY <1>2, <2>2 DEF PutCharSend, Waiting, Sending
  <2>4. TxWaiting = <<shift'>>
        BY <2>1, <2>2, TxFacts
  <2>5. TxWaiting' = <<>>
        BY <2>3 DEF TxWaiting
  <2> QED BY <2>1, <2>2, <2>4, <2>5 DEF TxQueue
<1> QED BY <1>1, <1>2

\* UartIRQ moves the oldest waiting byte to the shift register.
LEMMA IrqKeepsQueue ==
    ASSUME IInv, IInv', UartIRQ
    PROVE  TxQueue' = TxQueue /\ wire' = wire
<1>1. CASE ~ TxPending
      BY <1>1 DEF UartIRQ, IrqTransmit, TxQueue, TxWaiting, Waiting, Sending
<1>2. CASE TxPending
  <2>1. /\ shift = None /\ tc = "SET" /\ tc' = "RESET" /\ pTxBuf' = pTxBuf /\ wire' = wire
        /\ usTxCount \in 1..TxBufSize /\ usTxCount' = usTxCount - 1 /\ Waiting = usTxCount - 1
    <3>1. tc = "SET" /\ shift = None /\ usTxCount \in 1..TxBufSize /\ Waiting = usTxCount - 1
          BY <1>2, SizeAssumption DEF TxPending, IInv, TypeOK, TxRingConsistent, Waiting, Sending
    <3>2. usTxCount' = usTxCount - 1
          BY <1>2, <3>1, TxStepFacts DEF UartIRQ, IrqTransmit
    <3> QED BY <1>2, <3>1, <3>2 DEF UartIRQ, IrqTransmit
  <2>2. CASE usTxCount = 1
        BY <1>2, <2>1, <2>2 DEF UartIRQ, IrqTransmit, TxQueue, TxWaiting, Waiting, Sending
  <2>3. CASE usTxCount # 1
    <3>1. /\ shift' = pTxBuf[usTxRead] /\ usTxRead' = TxStep(usTxRead)
          /\ shift' \in Byte /\ shift' # None
          BY <1>2, <2>1, <2>3, TxFacts, BlankAssumption DEF UartIRQ, IrqTransmit
    <3>2. Waiting > 0 /\ Waiting' = Waiting - 1
          BY <2>1, <2>3, <3>1 DEF Waiting, Sending
    <3>3. \A i \in 1..Waiting' : TxSlot(usTxRead', i - 1) = TxSlot(usTxRead, i)
      <4>1. usTxRead \in 0..TxBufSize-1 /\ \A i \in 1..Waiting' : i \in 1..TxBufSize
            BY <3>2, TxFacts
      <4> QED BY <3>1, <4>1, TxStepFacts
    <3>4. /\ TxWaiting' \in Seq(Byte) /\ Len(TxWaiting') = Waiting'
          /\ \A i \in 1..Waiting' : TxWaiting'[i] = pTxBuf'[TxSlot(usTxRead', i - 1)]
      <4>1. usTxRead' \in 0..TxBufSize-1 /\ Waiting' \in 0..TxBufSize
            BY <3>1, <3>2, TxFacts DEF TxStep
      <4>2. \A i \in 1..Waiting' : TxSlot(usTxRead', i - 1) \in 0..TxBufSize-1
            BY <4>1, SlotRange
      <4>3. pTxBuf' \in [0..TxBufSize-1 -> Byte] /\ Waiting' \in Nat
            BY <2>1, <4>1, TxFacts
      <4> QED BY <4>2, <4>3 DEF TxWaiting
    <3>5. \A i \in 1..Len(TxWaiting') : TxWaiting'[i] = TxWaiting[i + 1]
      <4> SUFFICES ASSUME NEW i \in 1..Waiting' PROVE TxWaiting'[i] = TxWaiting[i + 1]
          BY <3>4
      <4>1. i + 1 \in 1..Waiting /\ (i + 1) - 1 = i
            BY <3>2, TxFacts
      <4>2. TxWaiting[i + 1] = pTxBuf[TxSlot(usTxRead, i)]
            BY <4>1, TxFacts
      <4> QED BY <2>1, <3>3, <3>4, <4>2
    <3>6. TxWaiting # <<>> /\ Len(TxWaiting') = Len(TxWaiting) - 1
          BY <3>2, <3>4, TxFacts
    <3>7. TxWaiting' = Tail(TxWaiting)
          BY <3>4, <3>5, <3>6, TxFacts, IsTail
    <3>8. shift' = Head(TxWaiting)
          BY <3>1, <3>2, <3>6, TxFacts
    <3> QED BY <2>1, <3>1, <3>6, <3>7, <3>8, TxFacts, SeqInFront DEF TxQueue
  <2> QED BY <2>2, <2>3
<1> QED BY <1>1, <1>2

\* The byte that leaves the port is the oldest of the queue.
LEMMA ShiftTakesOldest ==
    ASSUME IInv, IInv', ShiftDone
    PROVE  TxFifo!Get
<1>1. /\ shift \in Byte /\ shift # None /\ shift' = None /\ wire' = shift
      /\ TxWaiting' = TxWaiting
      BY DEF ShiftDone, txVars, IInv, TypeOK, TxWaiting, Waiting, Sending
<1> QED BY <1>1, TxFacts, SeqInFront DEF TxFifo!Get, TxQueue

\* Every step of the port is a step of the transmit queue or leaves it alone:
\* UartPutChar appends the byte it stores, the USART takes the oldest.
LEMMA TxSimulation ==
    ASSUME IInv, IInv', [Next]_vars
    PROVE  [TxFifo!Next]_(TxFifo!vars)
<1> USE DEF TxFifo!vars
<1>1. CASE PutCharStore
      BY <1>1, StoreAppends DEF TxFifo!Next
<1>2. CASE PutCharSend
      BY <1>2, SendKeepsQueue
<1>3. CASE UartIRQ
      BY <1>3, IrqKeepsQueue
<1>4. CASE ShiftDone
      BY <1>4, ShiftTakesOldest DEF TxFifo!Next
<1>5. ASSUME ~ PutCharStore, ~ PutCharSend, ~ UartIRQ, ~ ShiftDone
      PROVE  TxQueue' = TxQueue /\ wire' = wire
  <2>1. <<txVars, shift, tc, wire>>' = <<txVars, shift, tc, wire>>
        BY <1>5 DEF Next, Foreground, vars, txVars, PutCharBegin, PutCharFull, PutCharEnd,
                    GetCharBegin, GetCharTake, GetCharEnd, ByteArrives
  <2> QED BY <2>1 DEF txVars, TxQueue, TxWaiting, Waiting, Sending
<1> QED BY <1>1, <1>2, <1>3, <1>4, <1>5

\* For buffers of any size, the bytes UartPutChar accepted leave the port once
\* each and in the order in which they were accepted.
THEOREM TransmitIsFifo == Spec => TxIsFifo
<1>1. Init => TxFifo!Init
      BY DEF Init, TxFifo!Init, TxQueue, TxWaiting, Waiting, Sending
<1>2. IInv /\ IInv' /\ [Next]_vars => [TxFifo!Next]_(TxFifo!vars)
      BY TxSimulation
<1> QED BY InitIInv, NextIInv, <1>1, <1>2, PTL DEF Spec, TxIsFifo, TxFifo!Spec
=============================================================================
