----------------------------- MODULE FrameParser -----------------------------
(***************************************************************************)
(* How the host finds the frames of the lower controller (PRM) in the      *)
(* bytes it receives: Uart_GetPackageCycle (cmd.c) takes one byte after    *)
(* another from the receive ring of the port and writes a frame into       *)
(* g_uartPackageRxBuff, where uart_check verifies it.  The ring drops what *)
(* it has no room for, so a frame may lose bytes anywhere.                 *)
(*                                                                         *)
(* The write position and the size of the body are bytes.  The CRC is an   *)
(* operator that gives the two check bytes of a sequence of bytes.         *)
(***************************************************************************)
EXTENDS Integers, Sequences

CONSTANTS ByteNum,          \* values of a byte: 256
          MESSAGE_START, TOKEN, MESSAGE_END,    \* 0x1B, 0x0E, 0x16
          Crc(_),           \* get_crc16
          Message,          \* what the PRM may send
          RxBufSize,        \* size of the receive ring
          MaxLost           \* bound: bytes the ring drops in all

Byte == 0 .. ByteNum - 1

ASSUME MarkAssumption == ByteNum \in Nat /\ ByteNum > 8 /\ {MESSAGE_START, TOKEN, MESSAGE_END} \subseteq Byte
ASSUME CrcAssumption ==     \* of the sequences that occur in a frame
    \A msg \in Message : \E l, h \in Byte :
        Crc(<<MESSAGE_START, msg.addr, msg.index, Len(msg.body), TOKEN>> \o msg.body) = <<l, h>>

\* A frame that fits into the first ByteNum places of the buffer.
ASSUME MessageAssumption ==
    /\ Message \subseteq [addr : Byte, index : Byte, body : Seq(Byte)]
    /\ \A msg \in Message : Len(msg.body) \in 1 .. ByteNum - 8
ASSUME BoundAssumption == RxBufSize \in Nat \ {0} /\ MaxLost \in Nat

VARIABLES rxStatus, rxDataSize, curPosIndex,    \* static in Uart_GetPackageCycle
          buff,             \* g_uartPackageRxBuff
          ring,             \* received and not yet read
          sending,          \* what is left of the frame the PRM is sending
          lost,             \* bytes dropped so far
          whole,            \* history: has every byte sent reached the ring?
          outstanding       \* history, while it has: messages sent and not accepted

parser == <<rxStatus, rxDataSize, curPosIndex, buff>>
vars == <<parser, ring, sending, lost, whole, outstanding>>

\* Past ByteNum the buffer is never written, but uart_check may read there.
BuffSize == ByteNum + 7

FrameOf(msg) ==
    LET checked == <<MESSAGE_START, msg.addr, msg.index, Len(msg.body), TOKEN>> \o msg.body
    IN  checked \o Crc(checked) \o <<MESSAGE_END>>

\* The host may be switched on while the PRM is in the middle of a frame.
Init ==
    /\ rxStatus = "ST_START" /\ rxDataSize = 0 /\ curPosIndex = 0
    /\ buff = [i \in 0 .. BuffSize - 1 |-> 0]
    /\ ring = <<>>
    /\ \E msg \in Message : \E i \in 2 .. Len(FrameOf(msg)) + 1 :
          sending = SubSeq(FrameOf(msg), i, Len(FrameOf(msg)))
    /\ lost = 0 /\ whole = (sending = <<>>) /\ outstanding = <<>>

-----------------------------------------------------------------------------
(* The PRM and the receive ring.                                           *)

PrmSends(msg) ==
    /\ sending = <<>>
    /\ sending' = FrameOf(msg)
    /\ outstanding' = IF whole THEN Append(outstanding, msg) ELSE <<>>
    /\ UNCHANGED <<parser, ring, lost, whole>>

ByteArrives ==
    /\ sending # <<>> /\ Len(ring) < RxBufSize
    /\ ring' = Append(ring, Head(sending))
    /\ sending' = Tail(sending)
    /\ UNCHANGED <<parser, lost, whole, outstanding>>

\* A late poll.  When MaxLost is reached the host polls in time.
ByteDropped ==
    /\ sending # <<>> /\ Len(ring) >= RxBufSize
    /\ lost < MaxLost /\ lost' = lost + 1
    /\ sending' = Tail(sending)
    /\ whole' = FALSE /\ outstanding' = <<>>
    /\ UNCHANGED <<parser, ring>>

-----------------------------------------------------------------------------
(* Uart_GetPackageCycle: one byte in each of its states.                   *)

Rx(status) == rxStatus = status /\ ring # <<>> /\ ring' = Tail(ring)
Others == <<sending, lost, whole, outstanding>>

GetStart ==
    /\ Rx("ST_START")
    /\ IF Head(ring) = MESSAGE_START
       THEN rxStatus' = "ST_GET_ADDR" /\ buff' = [buff EXCEPT ![0] = MESSAGE_START]
       ELSE UNCHANGED <<rxStatus, buff>>
    /\ UNCHANGED <<rxDataSize, curPosIndex, Others>>

GetAddr ==
    /\ Rx("ST_GET_ADDR")
    /\ rxStatus' = "ST_GET_INDEX" /\ buff' = [buff EXCEPT ![1] = Head(ring)]
    /\ UNCHANGED <<rxDataSize, curPosIndex, Others>>

GetIndex ==
    /\ Rx("ST_GET_INDEX")
    /\ rxStatus' = "ST_MSG_SIZE" /\ buff' = [buff EXCEPT ![2] = Head(ring)]
    /\ UNCHANGED <<rxDataSize, curPosIndex, Others>>

GetSize ==
    /\ Rx("ST_MSG_SIZE")
    /\ rxStatus' = "ST_GET_TOKEN" /\ buff' = [buff EXCEPT ![3] = Head(ring)]
    /\ rxDataSize' = Head(ring)
    /\ UNCHANGED <<curPosIndex, Others>>

GetTokenContinues ==        \* mutant: the write position is not reset
    /\ Rx("ST_GET_TOKEN")
    /\ IF Head(ring) = TOKEN
       THEN rxStatus' = "ST_GET_DATA" /\ buff' = [buff EXCEPT ![4] = TOKEN]
       ELSE rxStatus' = "ST_START" /\ UNCHANGED buff
    /\ UNCHANGED <<rxDataSize, curPosIndex, Others>>

GetToken ==
    /\ Rx("ST_GET_TOKEN")
    /\ IF Head(ring) = TOKEN
       THEN rxStatus' = "ST_GET_DATA" /\ buff' = [buff EXCEPT ![4] = TOKEN] /\ curPosIndex' = 5
       ELSE rxStatus' = "ST_START" /\ UNCHANGED <<buff, curPosIndex>>
    /\ UNCHANGED <<rxDataSize, Others>>

PutBeyond ==               \* mutant: the write position is wider than a byte
    buff' = [buff EXCEPT ![curPosIndex] = Head(ring)] /\ curPosIndex' = curPosIndex + 1

\* A size of more than ByteNum - 6 is never reached: the position wraps first.
Put == buff' = [buff EXCEPT ![curPosIndex] = Head(ring)] /\ curPosIndex' = (curPosIndex + 1) % ByteNum

GetDataShort ==             \* mutant: one byte of the body too few
    /\ Rx("ST_GET_DATA")
    /\ Put
    /\ rxStatus' = IF curPosIndex' - 4 = rxDataSize THEN "ST_GET_CHECK_L" ELSE rxStatus
    /\ UNCHANGED <<rxDataSize, Others>>

GetData ==
    /\ Rx("ST_GET_DATA")
    /\ Put
    /\ rxStatus' = IF curPosIndex' - 5 = rxDataSize THEN "ST_GET_CHECK_L" ELSE rxStatus
    /\ UNCHANGED <<rxDataSize, Others>>

GetCheckL ==
    /\ Rx("ST_GET_CHECK_L")
    /\ Put
    /\ rxStatus' = "ST_GET_CHECK_H"
    /\ UNCHANGED <<rxDataSize, Others>>

GetCheckH ==
    /\ Rx("ST_GET_CHECK_H")
    /\ Put
    /\ rxStatus' = "ST_GET_END"
    /\ UNCHANGED <<rxDataSize, Others>>

uart_check(b) ==
    LET size == b[3] IN Crc([i \in 1 .. 5 + size |-> b[i - 1]]) = <<b[5 + size], b[6 + size]>>

ReceivedShifted(b) ==       \* mutant: the body taken from behind its first byte
    [addr |-> b[1], index |-> b[2], body |-> [i \in 1 .. b[3] |-> b[i + 5]]]

Received(b) == [addr |-> b[1], index |-> b[2], body |-> [i \in 1 .. b[3] |-> b[i + 4]]]

\* YES is returned when the last byte is right; the caller then checks the CRC.
GetEndAccepted ==
    /\ Rx("ST_GET_END")
    /\ Put
    /\ Head(ring) = MESSAGE_END /\ uart_check(buff')
    /\ rxStatus' = "ST_START"
    /\ outstanding' = IF outstanding = <<>> THEN <<>> ELSE Tail(outstanding)
    /\ UNCHANGED <<rxDataSize, sending, lost, whole>>

GetEndRejected ==
    /\ Rx("ST_GET_END")
    /\ Put
    /\ ~ (Head(ring) = MESSAGE_END /\ uart_check(buff'))
    /\ rxStatus' = "ST_START"
    /\ UNCHANGED <<rxDataSize, Others>>

Uart_GetPackageCycle ==
    \/ GetStart \/ GetAddr \/ GetIndex \/ GetSize \/ GetToken \/ GetData
    \/ GetCheckL \/ GetCheckH \/ GetEndAccepted \/ GetEndRejected

Next ==
    \/ \E msg \in Message : PrmSends(msg)
    \/ ByteArrives \/ ByteDropped
    \/ Uart_GetPackageCycle

Spec == Init /\ [][Next]_vars

\* The PRM goes on sending samples and the host goes on polling.
FairSpec ==
    /\ Spec
    /\ WF_vars(\E msg \in Message : PrmSends(msg))
    /\ WF_vars(ByteArrives \/ ByteDropped)
    /\ WF_vars(Uart_GetPackageCycle)

-----------------------------------------------------------------------------
(* Properties.                                                             *)

\* The type invariant.
TypeOK ==
    /\ rxStatus \in {"ST_START", "ST_GET_ADDR", "ST_GET_INDEX", "ST_MSG_SIZE", "ST_GET_TOKEN",
                     "ST_GET_DATA", "ST_GET_CHECK_L", "ST_GET_CHECK_H", "ST_GET_END"}
    /\ rxDataSize \in Byte /\ curPosIndex \in Byte
    /\ buff \in [0 .. BuffSize - 1 -> Byte]
    /\ ring \in Seq(Byte) /\ Len(ring) <= RxBufSize /\ sending \in Seq(Byte)
    /\ outstanding \in Seq(Message)

\* While nothing is lost the messages accepted are those the PRM sent, each
\* once, unchanged and in order, whatever marks occur in their bodies.
FramesInOrder ==
    [][whole /\ GetEndAccepted => outstanding # <<>> /\ Received(buff') = Head(outstanding)]_vars

\* While nothing is lost no message is missing when every byte has been read.
NoneMissed == whole /\ sending = <<>> /\ ring = <<>> => outstanding = <<>>

\* Wherever in a frame bytes have been lost, once the ring drops nothing more
\* and the PRM sends messages without marks, messages get through again and
\* again.  (A body with marks that is repeated may be taken for a frame.)
Unmarked(msg) ==
    \A i \in 2 .. Len(FrameOf(msg)) - 1 :
        FrameOf(msg)[i] \in {MESSAGE_START, TOKEN, MESSAGE_END} => i = 5
Resynchronises ==
    <>[][\A msg \in Message : PrmSends(msg) => Unmarked(msg)]_vars => []<><<GetEndAccepted>>_vars
===============================================================================
