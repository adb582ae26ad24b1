------------------------------ MODULE UartFifo ------------------------------
(***************************************************************************)
(* One serial port of the board as BSP/src/bsp_uart.c drives it.  Three    *)
(* agents share its state:                                                 *)
(*   - the foreground, which runs UartPutChar and UartGetChar and protects *)
(*     each by masking one interrupt source of the port;                   *)
(*   - the interrupt handler UartIRQ, which runs whenever a pending source *)
(*     is not masked, between any two steps of the foreground;             *)
(*   - the USART itself: the shift register that finishes a byte, and the  *)
(*     line on which bytes arrive at any moment.                           *)
(* The fields of UART_T keep their names; tcIE and rxneIE are the two bits *)
(* of CR1 that USART_ITConfig writes, tc and rxne the two flags of SR.     *)
(***************************************************************************)
EXTENDS Integers, Sequences

CONSTANTS Byte,       \* values of a byte
          Blank,      \* the byte a zero-initialised buffer holds
          None,       \* no byte
          TxBufSize,  \* usTxBufSize
          RxBufSize   \* usRxBufSize

ASSUME BlankAssumption == Blank \in Byte /\ None \notin Byte
ASSUME SizeAssumption ==
    /\ TxBufSize \in Nat \ {0} /\ TxBufSize < 65536
    /\ RxBufSize \in Nat \ {0} /\ RxBufSize < 65536

VARIABLES
    pTxBuf, usTxWrite, usTxRead, usTxCount,     \* UART_T, sending side
    pRxBuf, usRxWrite, usRxRead, usRxCount,     \* UART_T, receiving side
    tcIE, rxneIE,       \* interrupt enable bits of CR1
    tc, rxne,           \* TC and RXNE flags of SR
    shift,              \* the byte the transmitter is sending, or None
    rdr,                \* the receive data register
    pc, arg,            \* where the foreground is, and the byte it sends
    wire, got           \* the byte that left the port last; the one read last

txVars == <<pTxBuf, usTxWrite, usTxRead, usTxCount>>
rxVars == <<pRxBuf, usRxWrite, usRxRead, usRxCount>>
vars == <<txVars, rxVars, tcIE, rxneIE, tc, rxne, shift, rdr, pc, arg, wire, got>>

DecUShort(n) == (n - 1) % 65536     \* n-- on a uint16_t

\* "index++; if (index >= size) index = 0"
TxStep(i) == IF i + 1 >= TxBufSize THEN 0 ELSE i + 1
RxStep(i) == IF i + 1 >= RxBufSize THEN 0 ELSE i + 1

ForegroundSteps == {"idle", "put_check", "put_send", "put_enable", "get_take", "get_enable"}

\* UartVarInit, UartHardInit and UartNVICConfig have run: the receive
\* interrupt is on, the transmit one is turned on by the first UartPutChar.
Init ==
    /\ pTxBuf = [i \in 0..TxBufSize-1 |-> Blank]
    /\ pRxBuf = [i \in 0..RxBufSize-1 |-> Blank]
    /\ usTxWrite = 0 /\ usTxRead = 0 /\ usTxCount = 0
    /\ usRxWrite = 0 /\ usRxRead = 0 /\ usRxCount = 0
    /\ tcIE = "DISABLE" /\ rxneIE = "ENABLE"
    /\ tc = "RESET" /\ rxne = "RESET"
    /\ shift = None /\ rdr = Blank
    /\ pc = "idle" /\ arg = Blank
    /\ wire = None /\ got = None

-----------------------------------------------------------------------------
(* UartPutChar, in the foreground.                                         *)

PutCharBegin(b) ==                      \* USART_ITConfig(TC, DISABLE)
    /\ pc = "idle"
    /\ pc' = "put_check" /\ arg' = b
    /\ tcIE' = "DISABLE"
    /\ UNCHANGED <<txVars, rxVars, rxneIE, tc, rxne, shift, rdr, wire, got>>

PutCharFullMasked ==                    \* mutant: the early return leaves TC masked
    /\ pc = "put_check"
    /\ usTxCount = TxBufSize
    /\ pc' = "idle"
    /\ UNCHANGED <<txVars, rxVars, tcIE, rxneIE, tc, rxne, shift, rdr, arg, wire, got>>

PutCharFull ==                          \* the byte is dropped, 1 is returned
    /\ pc = "put_check"
    /\ usTxCount = TxBufSize
    /\ pc' = "idle"
    /\ tcIE' = "ENABLE"
    /\ UNCHANGED <<txVars, rxVars, rxneIE, tc, rxne, shift, rdr, arg, wire, got>>

PutCharStoreUnchecked ==                \* mutant: no test for a full buffer
    /\ pc = "put_check"
    /\ pTxBuf' = [pTxBuf EXCEPT ![usTxWrite] = arg]
    /\ usTxWrite' = TxStep(usTxWrite)
    /\ usTxCount' = (usTxCount + 1) % 65536
    /\ pc' = "put_send"
    /\ UNCHANGED <<usTxRead, rxVars, tcIE, rxneIE, tc, rxne, shift, rdr, arg, wire, got>>

PutCharStore ==
    /\ pc = "put_check"
    /\ usTxCount # TxBufSize
    /\ pTxBuf' = [pTxBuf EXCEPT ![usTxWrite] = arg]
    /\ usTxWrite' = TxStep(usTxWrite)
    /\ usTxCount' = (usTxCount + 1) % 65536
    /\ pc' = "put_send"
    /\ UNCHANGED <<usTxRead, rxVars, tcIE, rxneIE, tc, rxne, shift, rdr, arg, wire, got>>

PutCharSendNever ==                     \* mutant: the count is tested for zero
    /\ pc = "put_send"
    /\ pc' = "put_enable"
    /\ IF usTxCount = 0
       THEN /\ shift' = pTxBuf[IF usTxWrite = 0 THEN TxBufSize - 1 ELSE usTxWrite - 1]
            /\ usTxRead' = usTxWrite
       ELSE UNCHANGED <<shift, usTxRead>>
    /\ UNCHANGED <<pTxBuf, usTxWrite, usTxCount, rxVars, tcIE, rxneIE, tc, rxne, rdr, arg, wire, got>>

\* The byte just stored is handed to the USART when it is the only one.
PutCharSend ==
    /\ pc = "put_send"
    /\ pc' = "put_enable"
    /\ IF usTxCount = 1
       THEN /\ shift' = pTxBuf[IF usTxWrite = 0 THEN TxBufSize - 1 ELSE usTxWrite - 1]
            /\ usTxRead' = usTxWrite
       ELSE UNCHANGED <<shift, usTxRead>>
    /\ UNCHANGED <<pTxBuf, usTxWrite, usTxCount, rxVars, tcIE, rxneIE, tc, rxne, rdr, arg, wire, got>>

PutCharEnd ==                           \* USART_ITConfig(TC, ENABLE)
    /\ pc = "put_enable"
    /\ pc' = "idle"
    /\ tcIE' = "ENABLE"
    /\ UNCHANGED <<txVars, rxVars, rxneIE, tc, rxne, shift, rdr, arg, wire, got>>

-----------------------------------------------------------------------------
(* UartGetChar, in the foreground.                                         *)

GetCharBegin ==                         \* USART_ITConfig(RXNE, DISABLE)
    /\ pc = "idle"
    /\ pc' = "get_take"
    /\ rxneIE' = "DISABLE"
    /\ UNCHANGED <<txVars, rxVars, tcIE, tc, rxne, shift, rdr, arg, wire, got>>

GetCharTakeNext ==                      \* mutant: the index advances before the read
    /\ pc = "get_take"
    /\ pc' = "get_enable"
    /\ IF usRxCount # 0
       THEN /\ usRxCount' = usRxCount - 1
            /\ got' = pRxBuf[RxStep(usRxRead)]
            /\ usRxRead' = RxStep(usRxRead)
       ELSE UNCHANGED <<usRxCount, got, usRxRead>>
    /\ UNCHANGED <<txVars, pRxBuf, usRxWrite, tcIE, rxneIE, tc, rxne, shift, rdr, arg, wire>>

GetCharTake ==
    /\ pc = "get_take"
    /\ pc' = "get_enable"
    /\ IF usRxCount # 0
       THEN /\ usRxCount' = usRxCount - 1
            /\ got' = pRxBuf[usRxRead]
            /\ usRxRead' = RxStep(usRxRead)
       ELSE UNCHANGED <<usRxCount, got, usRxRead>>
    /\ UNCHANGED <<txVars, pRxBuf, usRxWrite, tcIE, rxneIE, tc, rxne, shift, rdr, arg, wire>>

GetCharEnd ==                           \* USART_ITConfig(RXNE, ENABLE)
    /\ pc = "get_enable"
    /\ pc' = "idle"
    /\ rxneIE' = "ENABLE"
    /\ UNCHANGED <<txVars, rxVars, tcIE, tc, rxne, shift, rdr, arg, wire, got>>

-----------------------------------------------------------------------------
(* UartIRQ.  USART_GetITStatus looks at the flag and at the enable bit, so *)
(* a handler entered for one source leaves a masked other source alone.    *)

TxPendingUnmasked == tc = "SET"     \* mutant: the flag without the enable bit

RxPending == rxneIE = "ENABLE" /\ rxne = "SET"
TxPending == tcIE = "ENABLE" /\ tc = "SET"

IrqReceive ==       \* the newest byte is the one a full buffer loses
    IF RxPending
    THEN /\ rxne' = "RESET"
         /\ IF usRxCount < RxBufSize
            THEN /\ usRxCount' = usRxCount + 1
                 /\ pRxBuf' = [pRxBuf EXCEPT ![usRxWrite] = rdr]
                 /\ usRxWrite' = RxStep(usRxWrite)
            ELSE UNCHANGED <<usRxCount, pRxBuf, usRxWrite>>
    ELSE UNCHANGED <<rxne, usRxCount, pRxBuf, usRxWrite>>

IrqTransmitNext ==          \* mutant: the index advances before the read
    IF TxPending
    THEN /\ usTxCount' = DecUShort(usTxCount)
         /\ tc' = "RESET"
         /\ IF usTxCount' # 0
            THEN /\ shift' = pTxBuf[TxStep(usTxRead)]
                 /\ usTxRead' = TxStep(usTxRead)
            ELSE UNCHANGED <<shift, usTxRead>>
    ELSE UNCHANGED <<usTxCount, tc, shift, usTxRead>>

IrqTransmit ==      \* the finished byte is counted off, the next one sent
    IF TxPending
    THEN /\ usTxCount' = DecUShort(usTxCount)
         /\ tc' = "RESET"
         /\ IF usTxCount' # 0
            THEN /\ shift' = pTxBuf[usTxRead]
                 /\ usTxRead' = TxStep(usTxRead)
            ELSE UNCHANGED <<shift, usTxRead>>
    ELSE UNCHANGED <<usTxCount, tc, shift, usTxRead>>

UartIRQ ==
    /\ RxPending \/ TxPending
    /\ IrqReceive
    /\ IrqTransmit
    /\ UNCHANGED <<pTxBuf, usTxWrite, usRxRead, tcIE, rxneIE, rdr, pc, arg, wire, got>>

-----------------------------------------------------------------------------
(* The USART.                                                              *)

ShiftDone ==        \* the last bit has left the port
    /\ shift # None
    /\ wire' = shift
    /\ shift' = None
    /\ tc' = "SET"
    /\ UNCHANGED <<txVars, rxVars, tcIE, rxneIE, rxne, rdr, pc, arg, got>>

ByteArrives(b) ==   \* with rxne still set the byte is lost (overrun)
    /\ rxne = "RESET"
    /\ rdr' = b
    /\ rxne' = "SET"
    /\ UNCHANGED <<txVars, rxVars, tcIE, rxneIE, tc, shift, pc, arg, wire, got>>

Foreground ==
    \/ PutCharFull \/ PutCharStore \/ PutCharSend \/ PutCharEnd
    \/ GetCharTake \/ GetCharEnd

Next ==
    \/ Foreground
    \/ GetCharBegin
    \/ \E b \in Byte : PutCharBegin(b)
    \/ UartIRQ
    \/ ShiftDone
    \/ \E b \in Byte : ByteArrives(b)

Spec == Init /\ [][Next]_vars

\* A call the foreground has begun ends and the transmitter finishes its byte;
\* nothing makes the foreground call.  The interrupt preempts the foreground
\* whenever it is pending and unmasked, however short the calls that mask it
\* are apart: strong fairness, for either source.
FairSpec ==
    /\ Spec
    /\ WF_vars(Foreground)
    /\ SF_vars(RxPending /\ UartIRQ) /\ SF_vars(TxPending /\ UartIRQ)
    /\ WF_vars(ShiftDone)

-----------------------------------------------------------------------------
(* Properties.                                                             *)

\* The type invariant: the counters stay within the buffers, so usTxCount--
\* in UartIRQ never wraps around below zero.
TypeOK ==
    /\ pTxBuf \in [0..TxBufSize-1 -> Byte]
    /\ pRxBuf \in [0..RxBufSize-1 -> Byte]
    /\ usTxWrite \in 0..TxBufSize-1 /\ usTxRead \in 0..TxBufSize-1
    /\ usRxWrite \in 0..RxBufSize-1 /\ usRxRead \in 0..RxBufSize-1
    /\ usTxCount \in 0..TxBufSize
    /\ usRxCount \in 0..RxBufSize
    /\ {tcIE, rxneIE} \subseteq {"ENABLE", "DISABLE"}
    /\ {tc, rxne} \subseteq {"SET", "RESET"}
    /\ shift \in Byte \cup {None} /\ rdr \in Byte
    /\ pc \in ForegroundSteps /\ arg \in Byte
    /\ wire \in Byte \cup {None} /\ got \in Byte \cup {None}

\* The USART holds the oldest byte: it is sending it, or has sent it and
\* waits for UartIRQ to count it off.
Sending == shift # None \/ tc = "SET"
Waiting == IF Sending THEN usTxCount - 1 ELSE usTxCount

\* Place of the n-th byte after index i of a ring.
TxSlot(i, n) == IF i + n >= TxBufSize THEN i + n - TxBufSize ELSE i + n
RxSlot(i, n) == IF i + n >= RxBufSize THEN i + n - RxBufSize ELSE i + n

TxRingConsistent ==
    /\ Sending => usTxCount > 0
    /\ ~ (shift # None /\ tc = "SET")
    /\ usTxWrite = TxSlot(usTxRead, Waiting)

RxRingConsistent == usRxWrite = RxSlot(usRxRead, usRxCount)

\* Indices and counters of the foreground (UartPutChar, UartGetChar) and of the
\* interrupt (UartIRQ) never drift apart: in either ring the bytes that wait are
\* exactly those from the read index up to the write index.
RingsAgree == TxRingConsistent /\ RxRingConsistent

\* UartPutChar starts the transmitter only when it finds the buffer empty
\* and leaves the rest to the interrupt: outside the two steps that do so
\* there is never a byte in the buffer that nobody is going to send.
NeverStalled == usTxCount > 0 /\ pc # "put_send" => Sending

\* The bytes accepted by UartPutChar leave the port once each and in order.
TxWaiting == [n \in 1..Waiting |-> pTxBuf[TxSlot(usTxRead, n - 1)]]
TxQueue == IF shift = None THEN TxWaiting ELSE <<shift>> \o TxWaiting
TxFifo == INSTANCE ByteFifo WITH queue <- TxQueue, out <- wire, Capacity <- TxBufSize
TxIsFifo == TxFifo!Spec

\* The bytes UartIRQ accepts from the line reach UartGetChar once each and
\* in order.
RxQueue == [n \in 1..usRxCount |-> pRxBuf[RxSlot(usRxRead, n - 1)]]
RxFifo == INSTANCE ByteFifo WITH queue <- RxQueue, out <- got, Capacity <- RxBufSize
RxIsFifo == RxFifo!Spec

\* Whatever UartPutChar accepts is sent without any further call: after a
\* finished byte the next one follows until the buffer is empty, although a
\* foreground that keeps calling masks the interrupt over and over.
TxProgress == tc = "SET" ~> shift # None \/ usTxCount = 0
=============================================================================
