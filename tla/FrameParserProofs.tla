------------------------- MODULE FrameParserProofs -------------------------
(***************************************************************************)
(* The finding of frames, for any marks, check bytes, messages, number of  *)
(* values of a byte and size of the ring: while no byte is lost the parser *)
(* stands in the frame of the oldest message not yet accepted.             *)
(***************************************************************************)
EXTENDS FrameParser, SequenceTheorems, TLAPS

\* The bytes of the current frame that have been read, in a state and with a write
\* position of the parser.
Taken(status, position) ==
    CASE status = "ST_START" -> 0
      [] status = "ST_GET_ADDR" -> 1
      [] status = "ST_GET_INDEX" -> 2
      [] status = "ST_MSG_SIZE" -> 3
      [] status = "ST_GET_TOKEN" -> 4
      [] OTHER -> position

\* The bytes that come next are the frames of the messages msgs, the first of
\* them without its first taken bytes: that of msgs[i] stands behind start[i].
Stands(start, msgs, bytes, taken) ==
    /\ start[1] = 0 - taken /\ start[Len(msgs) + 1] = Len(bytes)
    /\ \A i \in 1..Len(msgs) : start[i + 1] = start[i] + Len(FrameOf(msgs[i]))
    /\ \A i, j \in 1..Len(msgs) + 1 : i < j => start[i] < start[j]
    /\ \A i \in 1..Len(msgs) : \A k \in 1..Len(FrameOf(msgs[i])) :
           start[i] + k > 0 => bytes[start[i] + k] = FrameOf(msgs[i])[k]

Framed(msgs, bytes, taken) ==
    \E start \in [1..Len(msgs) + 1 -> Int] : Stands(start, msgs, bytes, taken)

\* What the parser knows of the frame it stands in, that of msg.
Knows(msg, status, position, size, b) ==
    LET n == Len(msg.body) taken == Taken(status, position)
    IN  /\ taken < Len(FrameOf(msg))
        /\ \A k \in 1..taken : b[k - 1] = FrameOf(msg)[k]
        /\ taken >= 4 => size = n
        /\ status = "ST_GET_DATA" => position \in 5 .. 4 + n
        /\ status = "ST_GET_CHECK_L" => position = 5 + n
        /\ status = "ST_GET_CHECK_H" => position = 6 + n
        /\ status = "ST_GET_END" => position = 7 + n

Stream == ring \o sending

\* The inductive invariant, beside the types.
WholeInv ==
    whole => /\ Framed(outstanding, Stream, Taken(rxStatus, curPosIndex))
             /\ IF outstanding = <<>> THEN rxStatus = "ST_START"
                ELSE Knows(outstanding[1], rxStatus, curPosIndex, rxDataSize, buff)

-----------------------------------------------------------------------------
(* Frames and sequences of bytes.                                          *)

\* Two sequences one after the other, and a sequence without its first element.
LEMMA Joined ==
    ASSUME NEW S, NEW s \in Seq(S), NEW t \in Seq(S)
    PROVE  /\ s \o t \in Seq(S) /\ Len(s \o t) = Len(s) + Len(t)
           /\ Len(s) \in Nat /\ Len(t) \in Nat
           /\ \A k \in 1..Len(s) : (s \o t)[k] = s[k]
           /\ \A k \in 1..Len(t) : (s \o t)[Len(s) + k] = t[k]
<1>1. s \o t \in Seq(S) /\ Len(s \o t) = Len(s) + Len(t) /\ Len(s) \in Nat /\ Len(t) \in Nat
    BY ConcatProperties, LenProperties
<1>2. \A i \in 1..Len(s) + Len(t) : (s \o t)[i] = IF i <= Len(s) THEN s[i] ELSE t[i - Len(s)]
    BY ConcatProperties
<1>3. \A k \in 1..Len(s) : (s \o t)[k] = s[k]
    BY <1>1, <1>2
<1>4. ASSUME NEW k \in 1..Len(t) PROVE (s \o t)[Len(s) + k] = t[k]
    <2>1. Len(s) + k \in 1..Len(s) + Len(t) /\ ~ (Len(s) + k <= Len(s)) /\ (Len(s) + k) - Len(s) = k
        BY <1>1
    <2> QED BY <1>2, <2>1
<1> QED BY <1>1, <1>3, <1>4

LEMMA WithoutFirst ==
    ASSUME NEW S, NEW s \in Seq(S), s # <<>>
    PROVE  /\ Tail(s) \in Seq(S) /\ Len(Tail(s)) \in Nat /\ Len(s) = Len(Tail(s)) + 1
           /\ Head(s) = s[1] /\ Head(s) \in S
           /\ \A k \in 1..Len(Tail(s)) : Tail(s)[k] = s[k + 1]
<1>1. Len(s) \in Nat /\ Len(s) # 0
    BY EmptySeq, LenProperties
<1> QED BY <1>1, HeadTailProperties

LEMMA WithLast ==
    ASSUME NEW S, NEW s \in Seq(S), NEW e \in S
    PROVE  /\ Append(s, e) \in Seq(S) /\ Len(s) \in Nat /\ Len(Append(s, e)) = Len(s) + 1
           /\ \A k \in 1..Len(s) : Append(s, e)[k] = s[k]
           /\ Append(s, e)[Len(s) + 1] = e
BY AppendProperties, LenProperties

\* What stands where in a frame; the check bytes are those of what precedes them.
LEMMA FrameFacts ==
    ASSUME NEW msg \in Message
    PROVE  LET size == Len(msg.body) frame == FrameOf(msg)
           IN  /\ size \in 1 .. ByteNum - 8 /\ size \in Byte
               /\ frame \in Seq(Byte) /\ Len(frame) = 8 + size
               /\ frame[1] = MESSAGE_START /\ frame[2] = msg.addr /\ frame[3] = msg.index
               /\ frame[4] = size /\ frame[5] = TOKEN /\ frame[8 + size] = MESSAGE_END
               /\ \A k \in 1..size : frame[5 + k] = msg.body[k]
               /\ Crc([k \in 1 .. 5 + size |-> frame[k]]) = <<frame[6 + size], frame[7 + size]>>
<1>1. PICK n : n = Len(msg.body)
    OBVIOUS
<1>2. n \in 1 .. ByteNum - 8 /\ n \in Byte /\ ByteNum \in Nat
    BY <1>1, MessageAssumption, MarkAssumption DEF Byte
<1>3. msg.addr \in Byte /\ msg.index \in Byte /\ msg.body \in Seq(Byte)
    BY MessageAssumption
<1>4. PICK head : head = <<MESSAGE_START, msg.addr, msg.index, n, TOKEN>>
    OBVIOUS
<1>5. /\ head \in Seq(Byte) /\ Len(head) = 5 /\ head[1] = MESSAGE_START /\ head[2] = msg.addr
      /\ head[3] = msg.index /\ head[4] = n /\ head[5] = TOKEN
    BY <1>2, <1>3, <1>4, MarkAssumption
<1>6. PICK checked : checked = head \o msg.body
    OBVIOUS
<1>7. /\ checked \in Seq(Byte) /\ Len(checked) = 5 + n
      /\ \A k \in 1..5 : checked[k] = head[k]
      /\ \A k \in 1..n : checked[5 + k] = msg.body[k]
    <2>1. Len(head) = 5 /\ Len(msg.body) = n
        BY <1>1, <1>5
    <2>2. /\ head \o msg.body \in Seq(Byte) /\ Len(head \o msg.body) = Len(head) + Len(msg.body)
          /\ \A k \in 1..Len(head) : (head \o msg.body)[k] = head[k]
          /\ \A k \in 1..Len(msg.body) : (head \o msg.body)[Len(head) + k] = msg.body[k]
        <3>1. head \in Seq(Byte) /\ msg.body \in Seq(Byte)
            BY <1>3, <1>5
        <3>2. ASSUME NEW s \in Seq(Byte), NEW t \in Seq(Byte)
              PROVE  /\ s \o t \in Seq(Byte) /\ Len(s \o t) = Len(s) + Len(t)
                     /\ \A k \in 1..Len(s) : (s \o t)[k] = s[k]
                     /\ \A k \in 1..Len(t) : (s \o t)[Len(s) + k] = t[k]
            BY Joined
        <3> HIDE DEF Byte
        <3> QED BY <3>1, <3>2, Zenon
    <2> QED BY <1>6, <2>1, <2>2
<1>8. PICK l, h \in Byte : Crc(checked) = <<l, h>>
    BY <1>1, <1>4, <1>6, CrcAssumption
<1>9. PICK frame : frame = checked \o <<l, h>> \o <<MESSAGE_END>>
    OBVIOUS
<1>10. FrameOf(msg) = frame
    BY <1>1, <1>4, <1>6, <1>8, <1>9 DEF FrameOf
<1>11. /\ frame \in Seq(Byte) /\ Len(frame) = 8 + n
       /\ \A k \in 1 .. 5 + n : frame[k] = checked[k]
       /\ frame[6 + n] = l /\ frame[7 + n] = h /\ frame[8 + n] = MESSAGE_END
    <2>1. PICK sum : sum = <<l, h>>
        OBVIOUS
    <2>2. sum \in Seq(Byte) /\ Len(sum) = 2 /\ sum[1] = l /\ sum[2] = h
        BY <1>8, <2>1
    <2>3. PICK end : end = <<MESSAGE_END>>
        OBVIOUS
    <2>4. end \in Seq(Byte) /\ Len(end) = 1 /\ end[1] = MESSAGE_END
        BY <2>3, MarkAssumption
    <2>5. PICK most : most = checked \o sum
        OBVIOUS
    <2>6. frame = most \o end
        BY <1>9, <2>1, <2>3, <2>5
    <2> HIDE DEF Byte
    <2>7. /\ most \in Seq(Byte) /\ Len(most) = Len(checked) + Len(sum)
          /\ \A k \in 1..Len(checked) : most[k] = checked[k]
          /\ \A k \in 1..Len(sum) : most[Len(checked) + k] = sum[k]
        <3>1. ASSUME NEW s \in Seq(Byte), NEW t \in Seq(Byte)
              PROVE  /\ s \o t \in Seq(Byte) /\ Len(s \o t) = Len(s) + Len(t)
                     /\ \A k \in 1..Len(s) : (s \o t)[k] = s[k]
                     /\ \A k \in 1..Len(t) : (s \o t)[Len(s) + k] = t[k]
            BY Joined
        <3> QED BY <1>7, <2>2, <2>5, <3>1, Zenon
    <2>8. /\ frame \in Seq(Byte) /\ Len(frame) = Len(most) + Len(end)
          /\ \A k \in 1..Len(most) : frame[k] = most[k]
          /\ \A k \in 1..Len(end) : frame[Len(most) + k] = end[k]
        <3>1. ASSUME NEW s \in Seq(Byte), NEW t \in Seq(Byte)
              PROVE  /\ s \o t \in Seq(Byte) /\ Len(s \o t) = Len(s) + Len(t)
                     /\ \A k \in 1..Len(s) : (s \o t)[k] = s[k]
                     /\ \A k \in 1..Len(t) : (s \o t)[Len(s) + k] = t[k]
            BY Joined
        <3> QED BY <2>4, <2>6, <2>7, <3>1, Zenon
    <2>9. n \in Nat
        BY <1>2
    <2>10. Len(checked) = 5 + n /\ Len(most) = 7 + n /\ Len(frame) = 8 + n
        BY <1>7, <2>2, <2>4, <2>7, <2>8, <2>9, SMTT(30)
    <2>11. \A k \in 1 .. 5 + n : frame[k] = checked[k]
        <3>1. \A k \in 1 .. 5 + n : k \in 1 .. 7 + n
            BY <2>9
        <3> QED BY <2>7, <2>8, <2>10, <3>1, Zenon
    <2>12. frame[6 + n] = l /\ frame[7 + n] = h
        <3>1. /\ 1 \in 1..2 /\ 2 \in 1..2 /\ (5 + n) + 1 = 6 + n /\ (5 + n) + 2 = 7 + n
              /\ 6 + n \in 1 .. 7 + n /\ 7 + n \in 1 .. 7 + n
            BY <2>9
        <3>2. most[(5 + n) + 1] = l /\ most[(5 + n) + 2] = h
            BY <2>2, <2>7, <2>10, <3>1, Zenon
        <3> QED BY <2>8, <2>10, <3>1, <3>2, Zenon
    <2>13. frame[8 + n] = MESSAGE_END
        <3>1. 1 \in 1..1 /\ (7 + n) + 1 = 8 + n
            BY <2>9
        <3> QED BY <2>4, <2>8, <2>10, <3>1, Zenon
    <2> QED BY <2>8, <2>10, <2>11, <2>12, <2>13, Zenon
<1>12. checked = [k \in 1 .. 5 + n |-> frame[k]]
    BY <1>7, <1>11
<1>13. Crc([k \in 1 .. 5 + n |-> frame[k]]) = <<frame[6 + n], frame[7 + n]>>
    BY <1>8, <1>11, <1>12
<1>14. /\ frame[1] = MESSAGE_START /\ frame[2] = msg.addr /\ frame[3] = msg.index
       /\ frame[4] = n /\ frame[5] = TOKEN
       /\ \A k \in 1..n : frame[5 + k] = msg.body[k]
    BY <1>2, <1>5, <1>7, <1>11
<1> QED BY <1>1, <1>2, <1>10, <1>11, <1>13, <1>14

LEMMA FrameLengths ==
    \A msg \in Message : FrameOf(msg) \in Seq(Byte) /\ Len(FrameOf(msg)) \in Nat /\ Len(FrameOf(msg)) > 0
<1> SUFFICES ASSUME NEW msg \in Message
             PROVE  FrameOf(msg) \in Seq(Byte) /\ Len(FrameOf(msg)) \in Nat /\ Len(FrameOf(msg)) > 0
    OBVIOUS
<1>1. FrameOf(msg) \in Seq(Byte) /\ Len(FrameOf(msg)) = 8 + Len(msg.body) /\ Len(msg.body) \in 1 .. ByteNum - 8
    BY FrameFacts
<1>2. ByteNum \in Nat
    BY MarkAssumption
<1> QED BY <1>1, <1>2

\* Bytes that move from the line into the ring are still to be read; a byte that
\* is read is the first of them.
LEMMA ByteMoves ==
    ASSUME ring \in Seq(Byte), sending \in Seq(Byte)
    PROVE  /\ ring \o sending \in Seq(Byte)
           /\ sending # <<>> => Append(ring, Head(sending)) \o Tail(sending) = ring \o sending
           /\ ring # <<>> => /\ Tail(ring) \o sending = Tail(ring \o sending)
                             /\ Head(ring) = (ring \o sending)[1]
                             /\ Len(ring \o sending) > 0
<1>1. ring \o sending \in Seq(Byte)
    OBVIOUS
<1>2. ASSUME sending # <<>> PROVE Append(ring, Head(sending)) \o Tail(sending) = ring \o sending
    BY <1>2
<1>3. ASSUME ring # <<>>
      PROVE  /\ Tail(ring) \o sending = Tail(ring \o sending)
             /\ Head(ring) = (ring \o sending)[1] /\ Len(ring \o sending) > 0
    BY <1>3
<1> QED BY <1>1, <1>2, <1>3

-----------------------------------------------------------------------------
(* The frames in the bytes that come next.                                 *)

\* With nothing left to read the parser stands before a frame and nothing is
\* outstanding; otherwise the next byte is the one behind those it has taken.
LEMMA NextByte ==
    ASSUME NEW msgs \in Seq(Message), NEW bytes \in Seq(Byte), NEW taken \in Nat,
           Framed(msgs, bytes, taken), msgs # <<>> => taken < Len(FrameOf(msgs[1]))
    PROVE  /\ bytes = <<>> => msgs = <<>>
           /\ bytes # <<>> => /\ msgs # <<>> /\ msgs[1] \in Message
                              /\ bytes[1] = FrameOf(msgs[1])[taken + 1]
           /\ msgs = <<>> => taken = 0
<1>1. PICK start \in [1..Len(msgs) + 1 -> Int] : Stands(start, msgs, bytes, taken)
    BY DEF Framed
<1>2. Len(msgs) \in Nat /\ Len(bytes) \in Nat /\ 1 \in 1..Len(msgs) + 1
    OBVIOUS
<1>3. CASE msgs = <<>>
    BY <1>1, <1>2, <1>3 DEF Stands
<1>4. CASE msgs # <<>>
    <2>1. msgs[1] \in Message /\ 1 \in 1..Len(msgs) /\ Len(msgs) + 1 \in 1..Len(msgs) + 1 /\ 2 \in 1..Len(msgs) + 1
        BY <1>2, <1>4
    <2>2. Len(FrameOf(msgs[1])) \in Nat
        BY <2>1, FrameFacts
    <2>3. start[1] = 0 - taken /\ start[2] = start[1] + Len(FrameOf(msgs[1]))
        BY <1>1, <2>1 DEF Stands
    <2>4. start[2] <= start[Len(msgs) + 1] /\ start[Len(msgs) + 1] = Len(bytes)
        <3>1. start[Len(msgs) + 1] = Len(bytes) /\ \A i, j \in 1..Len(msgs) + 1 : i < j => start[i] < start[j]
            BY <1>1 DEF Stands
        <3>2. start[2] \in Int /\ start[Len(msgs) + 1] \in Int
            BY <2>1
        <3>3. 2 = Len(msgs) + 1 \/ 2 < Len(msgs) + 1
            BY <1>2, <2>1
        <3> QED BY <2>1, <3>1, <3>2, <3>3
    <2>5. start[2] > 0
        BY <1>4, <2>2, <2>3
    <2>6. bytes # <<>>
        BY <1>2, <2>1, <2>4, <2>5, SMTT(30)
    <2>7. taken + 1 \in 1..Len(FrameOf(msgs[1])) /\ start[1] + (taken + 1) = 1
        BY <1>2, <1>4, <2>2, <2>3
    <2>8. bytes[1] = FrameOf(msgs[1])[taken + 1]
        <3>1. \A k \in 1..Len(FrameOf(msgs[1])) : start[1] + k > 0 => bytes[start[1] + k] = FrameOf(msgs[1])[k]
            BY <1>1, <2>1 DEF Stands
        <3> QED BY <2>7, <3>1
    <2> QED BY <1>4, <2>1, <2>6, <2>8
<1> QED BY <1>3, <1>4

LEMMA SumWithin ==
    ASSUME NEW a \in Int, NEW b \in Nat, NEW c \in Int, NEW d \in Int, a + b <= c, c <= d
    PROVE  a + b <= d /\ a + b \in Int
OBVIOUS

\* Another message is sent.
LEMMA OneMore ==
    ASSUME NEW msgs \in Seq(Message), NEW bytes \in Seq(Byte), NEW taken \in Nat,
           Framed(msgs, bytes, taken), NEW msg \in Message
    PROVE  Framed(Append(msgs, msg), bytes \o FrameOf(msg), taken)
<1>1. PICK start \in [1..Len(msgs) + 1 -> Int] : Stands(start, msgs, bytes, taken)
    BY DEF Framed
<1>2. PICK n \in Nat : n = Len(msgs)
    OBVIOUS
<1>3. PICK frame \in Seq(Byte) : frame = FrameOf(msg) /\ Len(frame) \in Nat /\ Len(frame) > 0
    BY FrameLengths
<1>4. PICK more : more = [i \in 1..n + 2 |-> IF i = n + 2 THEN start[n + 1] + Len(frame) ELSE start[i]]
    OBVIOUS
<1>5. PICK longer \in Seq(Message) : /\ longer = Append(msgs, msg) /\ Len(longer) = n + 1
                                     /\ \A i \in 1..n : longer[i] = msgs[i]
                                     /\ longer[n + 1] = msg
    BY <1>2, WithLast
<1>6. PICK all \in Seq(Byte) : /\ all = bytes \o frame /\ Len(all) = Len(bytes) + Len(frame)
                               /\ \A k \in 1..Len(bytes) : all[k] = bytes[k]
                               /\ \A k \in 1..Len(frame) : all[Len(bytes) + k] = frame[k]
    <2>1. /\ bytes \o frame \in Seq(Byte) /\ Len(bytes \o frame) = Len(bytes) + Len(frame)
          /\ \A k \in 1..Len(bytes) : (bytes \o frame)[k] = bytes[k]
          /\ \A k \in 1..Len(frame) : (bytes \o frame)[Len(bytes) + k] = frame[k]
        BY <1>3, Joined
    <2> QED BY <2>1
<1>7. start[n + 1] = Len(bytes) /\ Len(bytes) \in Nat /\ \A i \in 1..n + 1 : start[i] \in Int
    BY <1>1, <1>2 DEF Stands
<1>8. more \in [1..Len(longer) + 1 -> Int]
    BY <1>3, <1>4, <1>5, <1>7
<1>9. /\ \A i \in 1..n + 1 : more[i] = start[i]
      /\ more[n + 2] = Len(bytes) + Len(frame)
    BY <1>2, <1>4, <1>7
<1>10. more[1] = 0 - taken /\ more[Len(longer) + 1] = Len(all)
    BY <1>1, <1>2, <1>5, <1>6, <1>9 DEF Stands
<1>11. \A i \in 1..Len(longer) : more[i + 1] = more[i] + Len(FrameOf(longer[i]))
    <2> TAKE i \in 1..Len(longer)
    <2>1. CASE i = n + 1
        <3>1. more[i] = Len(bytes) /\ more[i + 1] = Len(bytes) + Len(frame) /\ longer[i] = msg
            <4>1. i \in 1..n + 1 /\ i + 1 = n + 2
                BY <1>2, <2>1
            <4> QED BY <1>5, <1>7, <1>9, <2>1, <4>1
        <3> QED BY <1>3, <3>1
    <2>2. CASE i # n + 1
        <3>1. i \in 1..n /\ i \in 1..n + 1 /\ i + 1 \in 1..n + 1
            BY <1>2, <1>5, <2>2
        <3>2. start[i + 1] = start[i] + Len(FrameOf(msgs[i]))
            BY <1>1, <1>2, <3>1 DEF Stands
        <3> QED BY <1>5, <1>9, <3>1, <3>2
    <2> QED BY <2>1, <2>2
<1>12. \A i, j \in 1..Len(longer) + 1 : i < j => more[i] < more[j]
    <2>1. \A i, j \in 1..n + 1 : i < j => start[i] < start[j]
        BY <1>1, <1>2 DEF Stands
    <2> TAKE i, j \in 1..Len(longer) + 1
    <2> SUFFICES ASSUME i < j PROVE more[i] < more[j]
        OBVIOUS
    <2>2. i \in 1..n + 1 /\ (j \in 1..n + 1 \/ j = n + 2) /\ (i = n + 1 \/ i < n + 1) /\ n + 1 \in 1..n + 1
        <3>1. Len(longer) + 1 = n + 2
            BY <1>2, <1>5
        <3>2. i \in 1..n + 2 /\ j \in 1..n + 2 /\ i < j
            BY <3>1
        <3>3. n \in Nat /\ i \in Int /\ j \in Int /\ 1 <= i /\ i < j /\ j <= n + 2
            BY <3>2
        <3>4. i \in 1..n + 1 /\ n + 1 \in 1..n + 1
            BY <3>3
        <3>5. j \in 1..n + 1 \/ j = n + 2
            BY <3>3
        <3>6. i = n + 1 \/ i < n + 1
            BY <3>3
        <3> QED BY <3>4, <3>5, <3>6
    <2>3. CASE j \in 1..n + 1
        BY <1>9, <2>1, <2>2, <2>3
    <2>4. CASE j = n + 2
        <3>1. start[i] <= Len(bytes) /\ start[i] \in Int
            <4>1. start[n + 1] = Len(bytes) /\ start[i] \in Int /\ Len(bytes) \in Nat
                BY <1>7, <2>2
            <4>2. i # n + 1 => start[i] < start[n + 1]
                BY <2>1, <2>2
            <4>3. start[n + 1] \in Int
                BY <4>1
            <4>4. CASE i = n + 1
                BY <4>1, <4>4
            <4>5. CASE i # n + 1
                BY <4>1, <4>2, <4>3, <4>5
            <4> QED BY <4>4, <4>5
        <3>2. more[i] = start[i] /\ more[j] = Len(bytes) + Len(frame)
            BY <1>9, <2>2, <2>4
        <3> QED BY <1>3, <1>7, <3>1, <3>2
    <2> QED BY <2>2, <2>3, <2>4
<1>13. ASSUME NEW i \in 1..Len(longer), NEW k \in 1..Len(FrameOf(longer[i])), more[i] + k > 0
       PROVE  all[more[i] + k] = FrameOf(longer[i])[k]
    <2>1. CASE i = n + 1
        <3>1. more[i] = Len(bytes) /\ longer[i] = msg
            <4>1. i \in 1..n + 1
                BY <1>2, <2>1
            <4> QED BY <1>5, <1>7, <1>9, <2>1, <4>1
        <3> QED BY <1>3, <1>6, <1>13, <3>1
    <2>2. CASE i # n + 1
        <3>1. i \in 1..n /\ i \in 1..n + 1 /\ i + 1 \in 1..n + 1 /\ longer[i] = msgs[i] /\ msgs[i] \in Message
            BY <1>2, <1>5, <2>2
        <3>2. bytes[start[i] + k] = FrameOf(msgs[i])[k] /\ start[i + 1] = start[i] + Len(FrameOf(msgs[i]))
            BY <1>1, <1>2, <1>9, <1>13, <3>1 DEF Stands
        <3>3. i + 1 < n + 1 => start[i + 1] < start[n + 1]
            <4>1. \A a, b \in 1..n + 1 : a < b => start[a] < start[b]
                BY <1>1, <1>2 DEF Stands
            <4>2. n + 1 \in 1..n + 1
                BY <1>2
            <4> QED BY <3>1, <4>1, <4>2
        <3>4. start[i + 1] <= start[n + 1]
            BY <1>2, <1>7, <3>1, <3>3, SMTT(30)
        <3>5. Len(FrameOf(msgs[i])) \in Nat
            BY <3>1, FrameFacts
        <3>6. start[i] + k \in 1..Len(bytes)
            <4>1. k \in Nat /\ k <= Len(FrameOf(msgs[i])) /\ start[i] + k > 0
                BY <1>9, <1>13, <3>1, <3>5
            <4>2. start[i] \in Int /\ start[i + 1] <= Len(bytes) /\ start[i + 1] \in Int
                BY <1>7, <3>1, <3>4
            <4>3. Len(bytes) \in Nat /\ start[i + 1] = start[i] + Len(FrameOf(msgs[i]))
                BY <1>7, <3>2
            <4>4. start[i] + k <= start[i + 1]
                BY <3>5, <4>1, <4>2, <4>3, SMTT(30)
            <4>5. start[i] + k <= Len(bytes) /\ start[i] + k \in Int
                <5>1. start[i] \in Int /\ k \in Nat /\ start[i + 1] \in Int /\ Len(bytes) \in Int
                    BY <4>1, <4>2, <4>3
                <5> QED BY <4>2, <4>4, <5>1, SumWithin
            <4> QED BY <4>1, <4>3, <4>5
        <3> QED BY <1>6, <1>9, <3>1, <3>2, <3>6
    <2> QED BY <2>1, <2>2
<1>14. Stands(more, longer, all, taken)
    BY <1>10, <1>11, <1>12, <1>13 DEF Stands
<1> QED BY <1>3, <1>5, <1>6, <1>8, <1>14 DEF Framed

\* A byte of the current frame is read, but not its last one.
LEMMA OneByte ==
    ASSUME NEW msgs \in Seq(Message), NEW bytes \in Seq(Byte), NEW taken \in Nat,
           Framed(msgs, bytes, taken), bytes # <<>>
    PROVE  Framed(msgs, Tail(bytes), taken + 1)
<1>1. PICK start \in [1..Len(msgs) + 1 -> Int] : Stands(start, msgs, bytes, taken)
    BY DEF Framed
<1>2. PICK n \in Nat : n = Len(msgs)
    OBVIOUS
<1>3. PICK less : less = [i \in 1..n + 1 |-> start[i] - 1]
    OBVIOUS
<1>4. less \in [1..n + 1 -> Int] /\ \A i \in 1..n + 1 : less[i] = start[i] - 1 /\ start[i] \in Int
    <2>1. \A i \in 1..n + 1 : start[i] \in Int
        BY <1>2
    <2> QED BY <1>3, <2>1
<1>5. PICK rest \in Seq(Byte) : /\ rest = Tail(bytes) /\ Len(rest) \in Nat /\ Len(bytes) = Len(rest) + 1
                                /\ \A k \in 1..Len(rest) : rest[k] = bytes[k + 1]
    <2>1. /\ Tail(bytes) \in Seq(Byte) /\ Len(Tail(bytes)) \in Nat /\ Len(bytes) = Len(Tail(bytes)) + 1
          /\ \A k \in 1..Len(Tail(bytes)) : Tail(bytes)[k] = bytes[k + 1]
        BY WithoutFirst
    <2> QED BY <2>1
<1>6. less[1] = 0 - (taken + 1) /\ less[n + 1] = Len(rest)
    <2>1. start[1] = 0 - taken /\ start[n + 1] = Len(bytes)
        BY <1>1, <1>2 DEF Stands
    <2>2. 1 \in 1..n + 1 /\ n + 1 \in 1..n + 1
        BY <1>2
    <2> QED BY <1>4, <1>5, <2>1, <2>2, SMTT(30)
<1>7. \A i \in 1..n : less[i + 1] = less[i] + Len(FrameOf(msgs[i]))
    <2> TAKE i \in 1..n
    <2>1. i \in 1..n + 1 /\ i + 1 \in 1..n + 1 /\ msgs[i] \in Message
        BY <1>2
    <2>2. start[i + 1] = start[i] + Len(FrameOf(msgs[i]))
        BY <1>1, <1>2, <2>1 DEF Stands
    <2>3. Len(FrameOf(msgs[i])) \in Nat /\ start[i] \in Int /\ start[i + 1] \in Int
        BY <1>4, <2>1, FrameLengths
    <2>4. less[i] = start[i] - 1 /\ less[i + 1] = start[i + 1] - 1
        BY <1>4, <2>1
    <2> QED BY <2>2, <2>3, <2>4
<1>8. \A i, j \in 1..n + 1 : i < j => less[i] < less[j]
    BY <1>1, <1>2, <1>4 DEF Stands
<1>9. ASSUME NEW i \in 1..n, NEW k \in 1..Len(FrameOf(msgs[i])), less[i] + k > 0
      PROVE  rest[less[i] + k] = FrameOf(msgs[i])[k]
    <2>1. i \in 1..n + 1 /\ i + 1 \in 1..n + 1 /\ msgs[i] \in Message
        BY <1>2
    <2>2. start[i + 1] = start[i] + Len(FrameOf(msgs[i])) /\ start[n + 1] = Len(bytes)
        BY <1>1, <1>2, <2>1 DEF Stands
    <2>3. Len(FrameOf(msgs[i])) \in Nat /\ start[i] \in Int /\ start[i + 1] \in Int
        BY <1>4, <2>1, FrameLengths
    <2>4. start[i + 1] <= Len(bytes)
        <3>1. \A a, b \in 1..n + 1 : a < b => start[a] < start[b]
            BY <1>1, <1>2 DEF Stands
        <3>2. n + 1 \in 1..n + 1 /\ (i + 1 = n + 1 \/ i + 1 < n + 1)
            BY <1>2
        <3> QED BY <1>5, <2>1, <2>2, <2>3, <3>1, <3>2, SMTT(30)
    <2>5. k \in Nat /\ k <= Len(FrameOf(msgs[i])) /\ less[i] = start[i] - 1
        BY <1>4, <2>1, <2>3
    <2>6. start[i] + k > 1 /\ start[i] + k <= Len(bytes)
        BY <1>5, <1>9, <2>2, <2>3, <2>4, <2>5, SMTT(30)
    <2>7. bytes[start[i] + k] = FrameOf(msgs[i])[k]
        <3>1. \A b \in 1..Len(FrameOf(msgs[i])) : start[i] + b > 0 => bytes[start[i] + b] = FrameOf(msgs[i])[b]
            BY <1>1, <1>2 DEF Stands
        <3>2. start[i] + k > 0
            BY <2>3, <2>5, <2>6
        <3> QED BY <3>1, <3>2
    <2>8. less[i] + k \in 1..Len(rest) /\ (less[i] + k) + 1 = start[i] + k
        <3>1. Len(rest) \in Nat /\ Len(bytes) = Len(rest) + 1
            BY <1>5
        <3>2. start[i] \in Int /\ k \in Int /\ less[i] = start[i] - 1
            BY <2>3, <2>5
        <3> QED BY <2>6, <3>1, <3>2, SMTT(30)
    <2> QED BY <1>5, <2>7, <2>8
<1>10. Stands(less, msgs, rest, taken + 1)
    BY <1>2, <1>6, <1>7, <1>8, <1>9 DEF Stands
<1> QED BY <1>2, <1>4, <1>5, <1>10 DEF Framed

\* The current frame has been read: the parser stands before that of the next message.
LEMMA OneFrame ==
    ASSUME NEW msgs \in Seq(Message), msgs # <<>>, NEW bytes \in Seq(Byte),
           Framed(msgs, bytes, Len(FrameOf(msgs[1])))
    PROVE  Framed(Tail(msgs), bytes, 0)
<1>1. PICK start \in [1..Len(msgs) + 1 -> Int] : Stands(start, msgs, bytes, Len(FrameOf(msgs[1])))
    BY DEF Framed
<1>2. PICK n \in Nat : n + 1 = Len(msgs)
    <2>1. Len(msgs) \in Nat /\ Len(msgs) > 0
        OBVIOUS
    <2> WITNESS Len(msgs) - 1 \in Nat
    <2> QED BY <2>1
<1>3. PICK rest \in Seq(Message) : /\ rest = Tail(msgs) /\ Len(rest) = n
                                   /\ \A i \in 1..n : rest[i] = msgs[i + 1]
    <2>1. /\ Tail(msgs) \in Seq(Message) /\ Len(Tail(msgs)) \in Nat /\ Len(msgs) = Len(Tail(msgs)) + 1
          /\ \A i \in 1..Len(Tail(msgs)) : Tail(msgs)[i] = msgs[i + 1]
        BY WithoutFirst
    <2>2. Len(Tail(msgs)) = n
        BY <1>2, <2>1
    <2> QED BY <2>1, <2>2
<1>4. PICK less : less = [i \in 1..n + 1 |-> start[i + 1]]
    OBVIOUS
<1>5. less \in [1..n + 1 -> Int] /\ \A i \in 1..n + 1 : less[i] = start[i + 1]
    <2>1. \A i \in 1..n + 1 : i + 1 \in 1..Len(msgs) + 1
        BY <1>2
    <2>2. \A i \in 1..n + 1 : start[i + 1] \in Int
        BY <2>1
    <2> QED BY <1>4, <2>2
<1>6. less[1] = 0 - 0 /\ less[n + 1] = Len(bytes)
    <2>1. msgs[1] \in Message /\ 1 \in 1..Len(msgs) /\ 1 \in 1..n + 1 /\ n + 1 \in 1..n + 1
        BY <1>2
    <2>2. Len(FrameOf(msgs[1])) \in Nat
        BY <2>1, FrameLengths
    <2>3. start[1] = 0 - Len(FrameOf(msgs[1])) /\ start[1 + 1] = start[1] + Len(FrameOf(msgs[1]))
          /\ start[(n + 1) + 1] = Len(bytes)
        BY <1>1, <1>2, <2>1 DEF Stands
    <2>4. less[1] = start[1 + 1] /\ less[n + 1] = start[(n + 1) + 1]
        BY <1>5, <2>1
    <2>5. start[1 + 1] = 0 - 0
        BY <2>2, <2>3
    <2> QED BY <2>3, <2>4, <2>5
<1>7. \A i \in 1..n : less[i + 1] = less[i] + Len(FrameOf(rest[i]))
    <2> TAKE i \in 1..n
    <2>1. i \in 1..n + 1 /\ i + 1 \in 1..n + 1 /\ i + 1 \in 1..Len(msgs)
        BY <1>2
    <2>2. start[(i + 1) + 1] = start[i + 1] + Len(FrameOf(msgs[i + 1]))
        BY <1>1, <2>1 DEF Stands
    <2> QED BY <1>3, <1>5, <2>1, <2>2
<1>8. \A i, j \in 1..n + 1 : i < j => less[i] < less[j]
    <2> TAKE i, j \in 1..n + 1
    <2>1. i + 1 \in 1..Len(msgs) + 1 /\ j + 1 \in 1..Len(msgs) + 1 /\ (i < j => i + 1 < j + 1)
        BY <1>2
    <2> QED BY <1>1, <1>5, <2>1 DEF Stands
<1>9. ASSUME NEW i \in 1..n, NEW k \in 1..Len(FrameOf(rest[i])), less[i] + k > 0
      PROVE  bytes[less[i] + k] = FrameOf(rest[i])[k]
    <2>1. i \in 1..n + 1 /\ i + 1 \in 1..Len(msgs) /\ less[i] = start[i + 1] /\ rest[i] = msgs[i + 1]
        BY <1>2, <1>3, <1>5
    <2> QED BY <1>1, <1>9, <2>1 DEF Stands
<1>10. Stands(less, rest, bytes, 0)
    BY <1>3, <1>6, <1>7, <1>8, <1>9 DEF Stands
<1> QED BY <1>3, <1>5, <1>10 DEF Framed

-----------------------------------------------------------------------------
(* The types.                                                              *)

LEMMA BuffFacts ==
    /\ ByteNum \in Nat /\ ByteNum > 8 /\ BuffSize \in Nat /\ RxBufSize \in Nat \ {0}
    /\ 0 \in Byte /\ MESSAGE_START \in Byte /\ TOKEN \in Byte /\ MESSAGE_END \in Byte
    /\ \A i \in Byte : i \in 0 .. BuffSize - 1
    /\ 5 \in Byte
BY MarkAssumption, BoundAssumption DEF Byte, BuffSize

LEMMA InitType == Init => TypeOK
<1> SUFFICES ASSUME Init PROVE TypeOK
    OBVIOUS
<1>1. buff \in [0 .. BuffSize - 1 -> Byte]
    BY BuffFacts DEF Init
<1>2. sending \in Seq(Byte)
    <2>0. PICK msg \in Message : \E i \in 2 .. Len(FrameOf(msg)) + 1 : sending = SubSeq(FrameOf(msg), i, Len(FrameOf(msg)))
        BY DEF Init
    <2>1. PICK i \in 2 .. Len(FrameOf(msg)) + 1 : sending = SubSeq(FrameOf(msg), i, Len(FrameOf(msg)))
        BY <2>0
    <2>2. FrameOf(msg) \in Seq(Byte) /\ Len(FrameOf(msg)) \in Nat
        BY FrameLengths
    <2>3. \A k \in i .. Len(FrameOf(msg)) : FrameOf(msg)[k] \in Byte
        <3> TAKE k \in i .. Len(FrameOf(msg))
        <3>1. k \in 1 .. Len(FrameOf(msg))
            BY <2>2
        <3> QED BY <2>2, <3>1, ElementOfSeq
    <2>4. i \in Int /\ Len(FrameOf(msg)) \in Int
        BY <2>2
    <2> QED BY <2>1, <2>3, <2>4, SubSeqProperties
<1>3. ring \in Seq(Byte) /\ Len(ring) <= RxBufSize /\ outstanding \in Seq(Message)
    BY BuffFacts DEF Init
<1> QED BY <1>1, <1>2, <1>3, BuffFacts DEF Init, TypeOK

\* What a read takes from the ring.
LEMMA ReadFacts ==
    ASSUME TypeOK, ring # <<>>
    PROVE  /\ Tail(ring) \in Seq(Byte) /\ Len(Tail(ring)) <= RxBufSize
           /\ Head(ring) \in Byte
<1>1. ring \in Seq(Byte) /\ Len(ring) <= RxBufSize /\ RxBufSize \in Nat
    BY BuffFacts DEF TypeOK
<1>2. Tail(ring) \in Seq(Byte) /\ Len(Tail(ring)) \in Nat /\ Len(ring) = Len(Tail(ring)) + 1 /\ Head(ring) \in Byte
    BY <1>1, WithoutFirst
<1> QED BY <1>1, <1>2

LEMMA TypeStep == TypeOK /\ [Next]_vars => TypeOK'
<1> SUFFICES ASSUME TypeOK, [Next]_vars PROVE TypeOK'
    OBVIOUS
<1>1. ASSUME NEW msg \in Message, PrmSends(msg) PROVE TypeOK'
    <2>1. FrameOf(msg) \in Seq(Byte)
        BY FrameLengths
    <2>2. outstanding' \in Seq(Message)
        <3>1. outstanding \in Seq(Message)
            BY DEF TypeOK
        <3>2. Append(outstanding, msg) \in Seq(Message)
            BY <3>1, WithLast
        <3> QED BY <1>1, <3>2 DEF PrmSends
    <2> QED BY <1>1, <2>1, <2>2 DEF PrmSends, TypeOK, parser
<1>2. CASE ByteArrives
    <2>1. ring \in Seq(Byte) /\ sending \in Seq(Byte) /\ sending # <<>> /\ Len(ring) < RxBufSize
        BY <1>2 DEF TypeOK, ByteArrives
    <2>2. Tail(sending) \in Seq(Byte) /\ Head(sending) \in Byte
        BY <2>1, WithoutFirst
    <2>3. Append(ring, Head(sending)) \in Seq(Byte) /\ Len(Append(ring, Head(sending))) = Len(ring) + 1 /\ Len(ring) \in Nat
        BY <2>1, <2>2, WithLast
    <2>4. Len(Append(ring, Head(sending))) <= RxBufSize
        BY <2>1, <2>3, BuffFacts
    <2> QED BY <1>2, <2>2, <2>3, <2>4 DEF ByteArrives, TypeOK, parser
<1>3. CASE ByteDropped
    <2>1. Tail(sending) \in Seq(Byte)
        BY <1>3, WithoutFirst DEF TypeOK, ByteDropped
    <2> QED BY <1>3, <2>1 DEF ByteDropped, TypeOK, parser
<1>4. CASE Uart_GetPackageCycle
    <2>1. ring # <<>> /\ ring' = Tail(ring) /\ UNCHANGED sending
        BY <1>4 DEF Uart_GetPackageCycle, GetStart, GetAddr, GetIndex, GetSize, GetToken, GetData, GetCheckL,
                    GetCheckH, GetEndAccepted, GetEndRejected, Rx, Others
    <2>2. ring' \in Seq(Byte) /\ Len(ring') <= RxBufSize /\ sending' \in Seq(Byte) /\ Head(ring) \in Byte
        BY <2>1, ReadFacts DEF TypeOK
    <2>3. /\ \A i \in 0 .. BuffSize - 1, e \in Byte : [buff EXCEPT ![i] = e] \in [0 .. BuffSize - 1 -> Byte]
          /\ 0 \in 0 .. BuffSize - 1 /\ 1 \in 0 .. BuffSize - 1 /\ 2 \in 0 .. BuffSize - 1
          /\ 3 \in 0 .. BuffSize - 1 /\ 4 \in 0 .. BuffSize - 1 /\ curPosIndex \in 0 .. BuffSize - 1
        <3>1. buff \in [0 .. BuffSize - 1 -> Byte] /\ curPosIndex \in 0 .. BuffSize - 1
            BY BuffFacts DEF TypeOK
        <3>2. BuffSize \in Nat /\ BuffSize > 8
            BY BuffFacts DEF BuffSize
        <3> QED BY <3>1, <3>2
    <2>4. buff' \in [0 .. BuffSize - 1 -> Byte]
        BY <1>4, <2>2, <2>3, BuffFacts, ZenonT(30)
           DEF Uart_GetPackageCycle, GetStart, GetAddr, GetIndex, GetSize, GetToken, GetData, GetCheckL,
               GetCheckH, GetEndAccepted, GetEndRejected, Put, TypeOK
    <2>5. rxDataSize' \in Byte
        BY <1>4, <2>2
           DEF Uart_GetPackageCycle, GetStart, GetAddr, GetIndex, GetSize, GetToken, GetData, GetCheckL,
               GetCheckH, GetEndAccepted, GetEndRejected, TypeOK
    <2>6. curPosIndex' \in Byte
        <3>1. curPosIndex \in Byte /\ (curPosIndex + 1) % ByteNum \in Byte
            BY BuffFacts DEF TypeOK, Byte
        <3> QED BY <1>4, <3>1, BuffFacts
           DEF Uart_GetPackageCycle, GetStart, GetAddr, GetIndex, GetSize, GetToken, GetData, GetCheckL,
               GetCheckH, GetEndAccepted, GetEndRejected, Put
    <2>7. outstanding' \in Seq(Message)
        <3>1. outstanding \in Seq(Message) /\ <<>> \in Seq(Message)
            BY DEF TypeOK
        <3>2. outstanding # <<>> => Tail(outstanding) \in Seq(Message)
            BY <3>1, WithoutFirst
        <3> QED BY <1>4, <3>1, <3>2
           DEF Uart_GetPackageCycle, GetStart, GetAddr, GetIndex, GetSize, GetToken, GetData, GetCheckL,
               GetCheckH, GetEndAccepted, GetEndRejected, Others
    <2>8. rxStatus' \in {"ST_START", "ST_GET_ADDR", "ST_GET_INDEX", "ST_MSG_SIZE", "ST_GET_TOKEN",
                         "ST_GET_DATA", "ST_GET_CHECK_L", "ST_GET_CHECK_H", "ST_GET_END"}
        BY <1>4
           DEF Uart_GetPackageCycle, GetStart, GetAddr, GetIndex, GetSize, GetToken, GetData, GetCheckL,
               GetCheckH, GetEndAccepted, GetEndRejected, Rx, TypeOK
    <2> QED BY <2>2, <2>4, <2>5, <2>6, <2>7, <2>8 DEF TypeOK
<1>5. CASE UNCHANGED vars
    BY <1>5 DEF vars, parser, TypeOK
<1> QED BY <1>1, <1>2, <1>3, <1>4, <1>5 DEF Next

-----------------------------------------------------------------------------
(* The parser stands in the frame of the oldest message outstanding.       *)

LEMMA TakenFacts ==
    \A position \in Byte :
        /\ Taken("ST_START", position) = 0 /\ Taken("ST_GET_ADDR", position) = 1
        /\ Taken("ST_GET_INDEX", position) = 2 /\ Taken("ST_MSG_SIZE", position) = 3
        /\ Taken("ST_GET_TOKEN", position) = 4 /\ Taken("ST_GET_DATA", position) = position
        /\ Taken("ST_GET_CHECK_L", position) = position /\ Taken("ST_GET_CHECK_H", position) = position
        /\ Taken("ST_GET_END", position) = position
BY DEF Taken, Byte

LEMMA TakenIsNat == TypeOK => Taken(rxStatus, curPosIndex) \in Nat
BY TakenFacts DEF TypeOK, Byte

\* Before a frame nothing is known of it.
LEMMA KnowsNothing ==
    ASSUME NEW msg \in Message, NEW position \in Byte, NEW size, NEW b
    PROVE  Knows(msg, "ST_START", position, size, b)
<1>1. Taken("ST_START", position) = 0 /\ Len(FrameOf(msg)) \in Nat /\ Len(FrameOf(msg)) > 0
    BY TakenFacts, FrameLengths
<1> QED BY <1>1 DEF Knows

\* The byte that is read next belongs to the frame the parser stands in.
LEMMA NextIsKnown ==
    ASSUME TypeOK, WholeInv, whole, ring # <<>>
    PROVE  LET msg == outstanding[1] taken == Taken(rxStatus, curPosIndex)
           IN  /\ outstanding # <<>> /\ msg \in Message /\ taken \in Nat
               /\ Head(ring) = FrameOf(msg)[taken + 1]
               /\ Knows(msg, rxStatus, curPosIndex, rxDataSize, buff)
               /\ Framed(outstanding, Tail(Stream), taken + 1)
<1>1. PICK taken : taken = Taken(rxStatus, curPosIndex)
    OBVIOUS
<1>2. outstanding \in Seq(Message) /\ ring \in Seq(Byte) /\ sending \in Seq(Byte) /\ taken \in Nat
    BY <1>1, TakenIsNat DEF TypeOK
<1>3. Stream \in Seq(Byte) /\ Stream # <<>> /\ Head(ring) = Stream[1]
    BY <1>2, ByteMoves DEF Stream
<1>4. Framed(outstanding, Stream, taken)
    BY <1>1 DEF WholeInv
<1>5. outstanding # <<>> => Knows(outstanding[1], rxStatus, curPosIndex, rxDataSize, buff)
    BY DEF WholeInv
<1>6. outstanding # <<>> => taken < Len(FrameOf(outstanding[1]))
    BY <1>1, <1>5 DEF Knows
<1>7. outstanding # <<>> /\ outstanding[1] \in Message /\ Stream[1] = FrameOf(outstanding[1])[taken + 1]
    BY <1>2, <1>3, <1>4, <1>6, NextByte
<1>8. Framed(outstanding, Tail(Stream), taken + 1)
    BY <1>2, <1>3, <1>4, OneByte
<1> QED BY <1>1, <1>2, <1>3, <1>5, <1>7, <1>8

\* A byte of the frame stored at its place.
LEMMA Stored ==
    ASSUME buff \in [0 .. BuffSize - 1 -> Byte], NEW frame, NEW taken \in 0 .. BuffSize - 1,
           \A k \in 1..taken : buff[k - 1] = frame[k],
           buff' = [buff EXCEPT ![taken] = frame[taken + 1]]
    PROVE  \A k \in 1 .. taken + 1 : buff'[k - 1] = frame[k]
<1> TAKE k \in 1 .. taken + 1
<1>1. BuffSize \in Nat
    BY BuffFacts
<1>2. CASE k = taken + 1
    <2>1. k - 1 = taken
        BY <1>2
    <2> QED BY <1>2, <2>1
<1>3. CASE k # taken + 1
    <2>1. k \in 1..taken /\ k - 1 # taken /\ k - 1 \in 0 .. BuffSize - 1
        BY <1>1, <1>3
    <2> QED BY <2>1
<1> QED BY <1>2, <1>3

\* A byte of a frame that was sent is stored at its place, whatever the state.
LEMMA ReadsOn ==
    ASSUME TypeOK, WholeInv, whole, ring # <<>>, ring' = Tail(ring), UNCHANGED Others,
           Taken(rxStatus', curPosIndex') = Taken(rxStatus, curPosIndex) + 1,
           outstanding # <<>> => Knows(outstanding[1], rxStatus', curPosIndex', rxDataSize', buff')
    PROVE  WholeInv'
<1>1. outstanding # <<>> /\ Framed(outstanding, Tail(Stream), Taken(rxStatus, curPosIndex) + 1)
    BY NextIsKnown
<1>2. Stream' = Tail(Stream)
    BY ByteMoves DEF Stream, TypeOK, Others
<1> QED BY <1>1, <1>2 DEF WholeInv, Others

\* The head of a frame.
LEMMA ReadsHead ==
    ASSUME TypeOK, WholeInv, whole, GetStart \/ GetAddr \/ GetIndex \/ GetSize \/ GetToken
    PROVE  WholeInv'
<1>1. ring # <<>> /\ ring' = Tail(ring) /\ UNCHANGED Others
    BY DEF GetStart, GetAddr, GetIndex, GetSize, GetToken, Rx
<1>2. PICK msg \in Message : msg = outstanding[1]
    BY <1>1, NextIsKnown
<1>3. PICK taken \in Nat : taken = Taken(rxStatus, curPosIndex)
    BY <1>1, NextIsKnown
<1>4. Head(ring) = FrameOf(msg)[taken + 1] /\ Knows(msg, rxStatus, curPosIndex, rxDataSize, buff)
    BY <1>1, <1>2, <1>3, NextIsKnown
<1>5. PICK n : n = Len(msg.body)
    OBVIOUS
<1>6. /\ n \in 1 .. ByteNum - 8 /\ Len(FrameOf(msg)) = 8 + n
      /\ FrameOf(msg)[1] = MESSAGE_START /\ FrameOf(msg)[4] = n /\ FrameOf(msg)[5] = TOKEN
    BY <1>5, FrameFacts
<1>7. /\ ByteNum \in Nat /\ ByteNum > 8
      /\ 0 \in 0 .. BuffSize - 1 /\ 1 \in 0 .. BuffSize - 1 /\ 2 \in 0 .. BuffSize - 1
      /\ 3 \in 0 .. BuffSize - 1 /\ 4 \in 0 .. BuffSize - 1
    BY BuffFacts DEF BuffSize
<1>8. \A k \in 1..taken : buff[k - 1] = FrameOf(msg)[k]
    BY <1>3, <1>4 DEF Knows
<1>9. buff \in [0 .. BuffSize - 1 -> Byte] /\ curPosIndex \in Byte /\ 5 \in Byte
    BY BuffFacts DEF TypeOK
<1>10. ASSUME taken \in 0..4, buff' = [buff EXCEPT ![taken] = FrameOf(msg)[taken + 1]],
              Taken(rxStatus', curPosIndex') = taken + 1, taken + 1 >= 4 => rxDataSize' = n,
              rxStatus' \notin {"ST_GET_CHECK_L", "ST_GET_CHECK_H", "ST_GET_END"},
              rxStatus' = "ST_GET_DATA" => curPosIndex' = 5
       PROVE  WholeInv'
    <2>1. \A k \in 1 .. taken + 1 : buff'[k - 1] = FrameOf(msg)[k]
        BY <1>7, <1>8, <1>9, <1>10, Stored
    <2>2. taken + 1 < Len(FrameOf(msg)) /\ 5 \in 5 .. 4 + n
        BY <1>6, <1>7, <1>10
    <2>3. Knows(msg, rxStatus', curPosIndex', rxDataSize', buff')
        BY <1>5, <1>10, <2>1, <2>2 DEF Knows
    <2> QED BY <1>1, <1>2, <1>3, <1>10, <2>3, ReadsOn
<1>11. CASE GetStart
    <2>1. rxStatus = "ST_START" /\ taken = 0
        BY <1>3, <1>9, <1>11, TakenFacts DEF GetStart, Rx
    <2>2. Head(ring) = FrameOf(msg)[1]
        BY <1>4, <2>1
    <2>3. rxStatus' = "ST_GET_ADDR" /\ buff' = [buff EXCEPT ![0] = FrameOf(msg)[1]] /\ UNCHANGED curPosIndex
        BY <1>6, <1>11, <2>2 DEF GetStart
    <2> QED BY <1>9, <1>10, <2>1, <2>3, TakenFacts
<1>12. CASE GetAddr
    <2>1. rxStatus = "ST_GET_ADDR" /\ taken = 1
        BY <1>3, <1>9, <1>12, TakenFacts DEF GetAddr, Rx
    <2>2. rxStatus' = "ST_GET_INDEX" /\ buff' = [buff EXCEPT ![1] = FrameOf(msg)[1 + 1]] /\ UNCHANGED curPosIndex
        BY <1>4, <1>12, <2>1 DEF GetAddr
    <2> QED BY <1>9, <1>10, <2>1, <2>2, TakenFacts
<1>13. CASE GetIndex
    <2>1. rxStatus = "ST_GET_INDEX" /\ taken = 2
        BY <1>3, <1>9, <1>13, TakenFacts DEF GetIndex, Rx
    <2>2. rxStatus' = "ST_MSG_SIZE" /\ buff' = [buff EXCEPT ![2] = FrameOf(msg)[2 + 1]] /\ UNCHANGED curPosIndex
        BY <1>4, <1>13, <2>1 DEF GetIndex
    <2> QED BY <1>9, <1>10, <2>1, <2>2, TakenFacts
<1>14. CASE GetSize
    <2>1. rxStatus = "ST_MSG_SIZE" /\ taken = 3
        BY <1>3, <1>9, <1>14, TakenFacts DEF GetSize, Rx
    <2>2. Head(ring) = FrameOf(msg)[4] /\ 3 + 1 = 4
        BY <1>4, <2>1
    <2>3. /\ rxStatus' = "ST_GET_TOKEN" /\ buff' = [buff EXCEPT ![3] = FrameOf(msg)[4]] /\ rxDataSize' = n
          /\ UNCHANGED curPosIndex
        BY <1>6, <1>14, <2>2 DEF GetSize
    <2>4. Taken(rxStatus', curPosIndex') = 4
        BY <1>9, <2>3, TakenFacts
    <2> QED BY <1>10, <2>1, <2>2, <2>3, <2>4
<1>15. CASE GetToken
    <2>1. rxStatus = "ST_GET_TOKEN" /\ taken = 4
        BY <1>3, <1>9, <1>15, TakenFacts DEF GetToken, Rx
    <2>2. Head(ring) = FrameOf(msg)[5] /\ 4 + 1 = 5
        BY <1>4, <2>1
    <2>3. /\ rxStatus' = "ST_GET_DATA" /\ buff' = [buff EXCEPT ![4] = FrameOf(msg)[5]] /\ curPosIndex' = 5
          /\ UNCHANGED rxDataSize
        BY <1>6, <1>15, <2>2 DEF GetToken
    <2>4. rxDataSize = n
        BY <1>3, <1>4, <1>5, <2>1 DEF Knows
    <2>5. Taken(rxStatus', curPosIndex') = 5
        BY <1>9, <2>3, TakenFacts
    <2> QED BY <1>10, <2>1, <2>2, <2>3, <2>4, <2>5
<1> QED BY <1>11, <1>12, <1>13, <1>14, <1>15

\* The body and the check bytes.
LEMMA ReadsBody ==
    ASSUME TypeOK, WholeInv, whole, GetData \/ GetCheckL \/ GetCheckH
    PROVE  WholeInv'
<1>1. ring # <<>> /\ ring' = Tail(ring) /\ UNCHANGED Others /\ UNCHANGED rxDataSize /\ Put
    BY DEF GetData, GetCheckL, GetCheckH, Rx
<1>2. PICK msg \in Message : msg = outstanding[1]
    BY <1>1, NextIsKnown
<1>3. PICK p \in Byte : p = curPosIndex
    BY DEF TypeOK
<1>4. rxStatus \in {"ST_GET_DATA", "ST_GET_CHECK_L", "ST_GET_CHECK_H"} /\ Taken(rxStatus, curPosIndex) = p
    BY <1>3, TakenFacts DEF GetData, GetCheckL, GetCheckH, Rx
<1>5. Head(ring) = FrameOf(msg)[p + 1] /\ Knows(msg, rxStatus, p, rxDataSize, buff)
    BY <1>1, <1>2, <1>3, <1>4, NextIsKnown
<1>6. PICK n : n = Len(msg.body)
    OBVIOUS
<1>7. n \in 1 .. ByteNum - 8 /\ Len(FrameOf(msg)) = 8 + n /\ ByteNum \in Nat
    BY <1>6, FrameFacts, BuffFacts
<1>8. p \in 5 .. 6 + n
    BY <1>4, <1>5, <1>6, <1>7 DEF Knows
<1>9. rxDataSize = n
    BY <1>3, <1>4, <1>5, <1>6, <1>8 DEF Knows
<1>10. p + 1 \in Byte /\ (p + 1) % ByteNum = p + 1 /\ p \in 0 .. BuffSize - 1
    BY <1>7, <1>8 DEF Byte, BuffSize
<1>11. curPosIndex' = p + 1 /\ buff' = [buff EXCEPT ![p] = FrameOf(msg)[p + 1]]
    BY <1>1, <1>3, <1>5, <1>10 DEF Put
<1>12. \A k \in 1 .. p + 1 : buff'[k - 1] = FrameOf(msg)[k]
    <2>1. \A k \in 1..p : buff[k - 1] = FrameOf(msg)[k]
        BY <1>3, <1>4, <1>5 DEF Knows
    <2> QED BY <1>10, <1>11, <2>1, Stored DEF TypeOK
<1>13. /\ rxStatus' \in {"ST_GET_DATA", "ST_GET_CHECK_L", "ST_GET_CHECK_H", "ST_GET_END"}
       /\ rxStatus' = "ST_GET_DATA" => p + 1 \in 5 .. 4 + n
       /\ rxStatus' = "ST_GET_CHECK_L" => p + 1 = 5 + n
       /\ rxStatus' = "ST_GET_CHECK_H" => p + 1 = 6 + n
       /\ rxStatus' = "ST_GET_END" => p + 1 = 7 + n
    <2>1. CASE GetData
        <3>1. rxStatus = "ST_GET_DATA" /\ rxStatus' = IF (p + 1) - 5 = n THEN "ST_GET_CHECK_L" ELSE rxStatus
            BY <1>9, <1>11, <2>1 DEF GetData, Rx
        <3>2. p \in 5 .. 4 + n
            BY <1>3, <1>5, <1>6, <3>1 DEF Knows
        <3>3. CASE (p + 1) - 5 = n
            BY <1>7, <3>1, <3>2, <3>3
        <3>4. CASE (p + 1) - 5 # n
            BY <1>7, <3>1, <3>2, <3>4
        <3> QED BY <3>3, <3>4
    <2>2. CASE GetCheckL
        <3>1. rxStatus = "ST_GET_CHECK_L" /\ rxStatus' = "ST_GET_CHECK_H" /\ p = 5 + n
            BY <1>3, <1>5, <1>6, <2>2 DEF GetCheckL, Rx, Knows
        <3> QED BY <1>7, <3>1
    <2>3. CASE GetCheckH
        <3>1. rxStatus = "ST_GET_CHECK_H" /\ rxStatus' = "ST_GET_END" /\ p = 6 + n
            BY <1>3, <1>5, <1>6, <2>3 DEF GetCheckH, Rx, Knows
        <3> QED BY <1>7, <3>1
    <2> QED BY <2>1, <2>2, <2>3
<1>14. Taken(rxStatus', curPosIndex') = p + 1
    BY <1>10, <1>11, <1>13, TakenFacts
<1>15. p + 1 < Len(FrameOf(msg))
    BY <1>7, <1>8
<1>16. Knows(msg, rxStatus', curPosIndex', rxDataSize', buff')
    BY <1>1, <1>6, <1>9, <1>11, <1>12, <1>13, <1>14, <1>15 DEF Knows
<1> QED BY <1>1, <1>2, <1>4, <1>14, <1>16, ReadsOn

\* A buffer that holds a frame passes the check, and gives the message back.
LEMMA Recognised ==
    ASSUME NEW msg \in Message, NEW b, \A k \in 1..Len(FrameOf(msg)) : b[k - 1] = FrameOf(msg)[k]
    PROVE  uart_check(b) /\ Received(b) = msg
<1>1. PICK n : n = Len(msg.body)
    OBVIOUS
<1>2. PICK frame : frame = FrameOf(msg)
    OBVIOUS
<1>3. /\ n \in 1 .. ByteNum - 8 /\ Len(frame) = 8 + n /\ ByteNum \in Nat
      /\ frame[2] = msg.addr /\ frame[3] = msg.index /\ frame[4] = n
      /\ \A k \in 1..n : frame[5 + k] = msg.body[k]
      /\ Crc([k \in 1 .. 5 + n |-> frame[k]]) = <<frame[6 + n], frame[7 + n]>>
    BY <1>1, <1>2, FrameFacts, BuffFacts
<1>4. n \in Nat /\ \A k \in 1 .. 8 + n : b[k - 1] = frame[k]
    BY <1>2, <1>3
<1>5. b[1] = frame[2] /\ b[2] = frame[3] /\ b[3] = frame[4]
    <2>1. 2 \in 1 .. 8 + n /\ 3 \in 1 .. 8 + n /\ 4 \in 1 .. 8 + n /\ 2 - 1 = 1 /\ 3 - 1 = 2 /\ 4 - 1 = 3
        BY <1>4
    <2> QED BY <1>4, <2>1
<1>6. b[5 + n] = frame[6 + n] /\ b[6 + n] = frame[7 + n]
    <2>1. 6 + n \in 1 .. 8 + n /\ 7 + n \in 1 .. 8 + n /\ (6 + n) - 1 = 5 + n /\ (7 + n) - 1 = 6 + n
        BY <1>4
    <2> QED BY <1>4, <2>1
<1>7. [k \in 1 .. 5 + n |-> b[k - 1]] = [k \in 1 .. 5 + n |-> frame[k]]
    <2>1. \A k \in 1 .. 5 + n : k \in 1 .. 8 + n
        BY <1>4
    <2> QED BY <1>4, <2>1
<1>8. uart_check(b)
    BY <1>3, <1>5, <1>6, <1>7 DEF uart_check
<1>9. [k \in 1..n |-> b[k + 4]] = msg.body
    <2>1. \A k \in 1..n : 5 + k \in 1 .. 8 + n /\ (5 + k) - 1 = k + 4
        BY <1>4
    <2>2. \A k \in 1..n : b[k + 4] = msg.body[k]
        BY <1>3, <1>4, <2>1, ZenonT(30)
    <2>3. msg.body = [k \in 1..n |-> msg.body[k]]
        BY <1>1, MessageAssumption, LenProperties
    <2> QED BY <2>2, <2>3
<1>10. msg = [addr |-> msg.addr, index |-> msg.index, body |-> msg.body]
    BY MessageAssumption
<1> QED BY <1>3, <1>5, <1>8, <1>9, <1>10 DEF Received

\* The last byte: the buffer then holds the frame of the oldest message.
LEMMA ReadsEnd ==
    ASSUME TypeOK, WholeInv, whole, Rx("ST_GET_END"), Put
    PROVE  /\ outstanding # <<>> /\ outstanding[1] \in Message
           /\ Head(ring) = MESSAGE_END /\ uart_check(buff') /\ Received(buff') = outstanding[1]
           /\ Framed(outstanding, Tail(Stream), Len(FrameOf(outstanding[1])))
<1>1. ring # <<>> /\ ring' = Tail(ring) /\ rxStatus = "ST_GET_END"
    BY DEF Rx
<1>2. PICK msg \in Message : msg = outstanding[1] /\ outstanding # <<>>
    BY <1>1, NextIsKnown
<1>3. PICK p \in Byte : p = curPosIndex
    BY DEF TypeOK
<1>4. Taken(rxStatus, curPosIndex) = p
    BY <1>1, <1>3, TakenFacts
<1>5. /\ Head(ring) = FrameOf(msg)[p + 1] /\ Knows(msg, rxStatus, p, rxDataSize, buff)
      /\ Framed(outstanding, Tail(Stream), p + 1)
    BY <1>1, <1>2, <1>3, <1>4, NextIsKnown
<1>6. PICK n : n = Len(msg.body)
    OBVIOUS
<1>7. n \in 1 .. ByteNum - 8 /\ Len(FrameOf(msg)) = 8 + n /\ ByteNum \in Nat /\ FrameOf(msg)[8 + n] = MESSAGE_END
    BY <1>6, FrameFacts, BuffFacts
<1>8. p = 7 + n
    BY <1>1, <1>5, <1>6 DEF Knows
<1>9. p + 1 = 8 + n /\ p \in 0 .. BuffSize - 1
    BY <1>7, <1>8 DEF BuffSize
<1>10. buff' = [buff EXCEPT ![p] = FrameOf(msg)[p + 1]]
    BY <1>3, <1>5 DEF Put
<1>11. \A k \in 1 .. p + 1 : buff'[k - 1] = FrameOf(msg)[k]
    <2>1. \A k \in 1..p : buff[k - 1] = FrameOf(msg)[k]
        BY <1>3, <1>4, <1>5 DEF Knows
    <2> QED BY <1>9, <1>10, <2>1, Stored DEF TypeOK
<1>12. uart_check(buff') /\ Received(buff') = msg
    BY <1>7, <1>9, <1>11, Recognised
<1> QED BY <1>2, <1>5, <1>7, <1>9, <1>12

LEMMA WholeStep == TypeOK /\ WholeInv /\ [Next]_vars => WholeInv'
<1> SUFFICES ASSUME TypeOK, WholeInv, [Next]_vars, whole' PROVE WholeInv'
    BY DEF WholeInv
<1>0. /\ ring \in Seq(Byte) /\ sending \in Seq(Byte) /\ outstanding \in Seq(Message)
      /\ curPosIndex \in Byte /\ curPosIndex' \in Byte /\ Stream \in Seq(Byte)
    BY TypeStep, ByteMoves DEF TypeOK, Stream
<1>1. ASSUME NEW msg \in Message, PrmSends(msg) PROVE WholeInv'
    <2>1. /\ sending = <<>> /\ sending' = FrameOf(msg) /\ outstanding' = Append(outstanding, msg)
          /\ UNCHANGED <<rxStatus, rxDataSize, curPosIndex, buff, ring>> /\ whole
        BY <1>1 DEF PrmSends, parser
    <2>2. Stream' = Stream \o FrameOf(msg)
        <3>1. Stream = ring
            BY <1>0, <2>1, ConcatEmptySeq DEF Stream
        <3> QED BY <2>1, <3>1 DEF Stream
    <2>3. PICK taken \in Nat : taken = Taken(rxStatus, curPosIndex)
        BY TakenIsNat
    <2>4. Framed(outstanding', Stream', taken)
        BY <1>0, <2>1, <2>2, <2>3, OneMore DEF WholeInv
    <2>5. outstanding' # <<>> /\ Knows(outstanding'[1], rxStatus, curPosIndex, rxDataSize, buff)
        <3>1. /\ Len(outstanding) \in Nat /\ Len(Append(outstanding, msg)) = Len(outstanding) + 1
              /\ \A k \in 1..Len(outstanding) : Append(outstanding, msg)[k] = outstanding[k]
              /\ Append(outstanding, msg)[Len(outstanding) + 1] = msg
            BY <1>0, WithLast
        <3>2. Append(outstanding, msg) # <<>>
            BY <3>1
        <3>3. CASE outstanding = <<>>
            <4>1. outstanding'[1] = msg /\ rxStatus = "ST_START"
                BY <2>1, <3>1, <3>3 DEF WholeInv
            <4> QED BY <1>0, <2>1, <3>2, <4>1, KnowsNothing
        <3>4. CASE outstanding # <<>>
            <4>1. outstanding'[1] = outstanding[1]
                BY <1>0, <2>1, <3>1, <3>4
            <4> QED BY <2>1, <3>2, <3>4, <4>1 DEF WholeInv
        <3> QED BY <3>3, <3>4
    <2> QED BY <2>1, <2>3, <2>4, <2>5 DEF WholeInv
<1>2. CASE ByteArrives
    <2>1. Stream' = Stream /\ whole /\ UNCHANGED <<rxStatus, rxDataSize, curPosIndex, buff, outstanding>>
        BY <1>0, <1>2, ByteMoves DEF ByteArrives, Stream, parser
    <2> QED BY <2>1 DEF WholeInv
<1>3. CASE ByteDropped
    BY <1>3 DEF ByteDropped
<1>4. CASE GetStart \/ GetAddr \/ GetIndex \/ GetSize \/ GetToken
    <2>1. whole
        BY <1>4 DEF GetStart, GetAddr, GetIndex, GetSize, GetToken, Others
    <2> QED BY <1>4, <2>1, ReadsHead
<1>5. CASE GetData \/ GetCheckL \/ GetCheckH
    <2>1. whole
        BY <1>5 DEF GetData, GetCheckL, GetCheckH, Others
    <2> QED BY <1>5, <2>1, ReadsBody
<1>6. CASE GetEndAccepted
    <2>1. whole /\ ring # <<>> /\ ring' = Tail(ring) /\ UNCHANGED sending /\ rxStatus' = "ST_START"
        BY <1>6 DEF GetEndAccepted, Rx
    <2>2. /\ outstanding # <<>> /\ outstanding[1] \in Message
          /\ Framed(outstanding, Tail(Stream), Len(FrameOf(outstanding[1])))
        BY <1>6, <2>1, ReadsEnd DEF GetEndAccepted
    <2>3. outstanding' = Tail(outstanding)
        BY <1>6, <2>2 DEF GetEndAccepted
    <2>4. Stream' = Tail(Stream) /\ Stream' \in Seq(Byte)
        <3>1. Stream' = Tail(Stream) /\ Len(Stream) > 0
            BY <1>0, <2>1, ByteMoves DEF Stream
        <3>2. Stream # <<>>
            BY <3>1
        <3> QED BY <1>0, <3>1, <3>2, WithoutFirst
    <2>5. Framed(outstanding', Stream', 0)
        BY <1>0, <2>2, <2>3, <2>4, OneFrame
    <2>6. Taken(rxStatus', curPosIndex') = 0
        BY <1>0, <2>1, TakenFacts
    <2>7. outstanding' # <<>> => Knows(outstanding'[1], rxStatus', curPosIndex', rxDataSize', buff')
        <3>1. outstanding' \in Seq(Message)
            BY <1>0, <2>2, <2>3, WithoutFirst
        <3>2. outstanding' # <<>> => outstanding'[1] \in Message
            BY <3>1, WithoutFirst
        <3> QED BY <1>0, <2>1, <3>2, KnowsNothing
    <2> QED BY <2>1, <2>5, <2>6, <2>7 DEF WholeInv
<1>7. CASE GetEndRejected
    <2>1. whole
        BY <1>7 DEF GetEndRejected, Others
    <2> QED BY <1>7, <2>1, ReadsEnd DEF GetEndRejected
<1>8. CASE UNCHANGED vars
    BY <1>8 DEF vars, parser, WholeInv, Stream
<1> QED BY <1>1, <1>2, <1>3, <1>4, <1>5, <1>6, <1>7, <1>8 DEF Next, Uart_GetPackageCycle

LEMMA WholeStart == Init => WholeInv
<1> SUFFICES ASSUME Init, whole PROVE WholeInv
    BY DEF WholeInv
<1>1. rxStatus = "ST_START" /\ curPosIndex = 0 /\ outstanding = <<>> /\ ring = <<>> /\ sending = <<>>
    BY DEF Init
<1>2. Taken(rxStatus, curPosIndex) = 0
    BY <1>1, TakenFacts, BuffFacts
<1>3. Stream = <<>>
    BY <1>1 DEF Stream
<1>4. PICK start : start = [i \in 1..1 |-> 0]
    OBVIOUS
<1>5. start \in [1 .. Len(outstanding) + 1 -> Int] /\ Stands(start, outstanding, Stream, 0)
    BY <1>1, <1>3, <1>4 DEF Stands
<1> QED BY <1>1, <1>2, <1>5 DEF WholeInv, Framed

-----------------------------------------------------------------------------
(* The theorems.                                                           *)

\* The parser writes only inside its buffer and holds only bytes, whatever
\* arrives, lost bytes and sizes out of its reach included.
THEOREM ParserTypeCorrect == Spec => []TypeOK
BY InitType, TypeStep, PTL DEF Spec

\* While no byte is lost every message sent is accepted once, unchanged and in
\* order, whatever marks occur in the bodies and however far the ring lags.
THEOREM FramesComeInOrder == Spec => FramesInOrder
<1>1. TypeOK /\ WholeInv /\ [Next]_vars =>
          [whole /\ GetEndAccepted => outstanding # <<>> /\ Received(buff') = Head(outstanding)]_vars
    <2> SUFFICES ASSUME TypeOK, WholeInv, whole, GetEndAccepted
                 PROVE  outstanding # <<>> /\ Received(buff') = Head(outstanding)
        OBVIOUS
    <2>1. outstanding # <<>> /\ Received(buff') = outstanding[1]
        BY ReadsEnd DEF GetEndAccepted
    <2>2. Head(outstanding) = outstanding[1]
        BY <2>1, WithoutFirst DEF TypeOK
    <2> QED BY <2>1, <2>2
<1> QED BY <1>1, InitType, TypeStep, WholeStart, WholeStep, PTL DEF Spec, FramesInOrder

\* None of them is missing once every byte has been read.
THEOREM NoFrameIsMissed == Spec => []NoneMissed
<1>1. TypeOK /\ WholeInv => NoneMissed
    <2> SUFFICES ASSUME TypeOK, WholeInv, whole, sending = <<>>, ring = <<>> PROVE outstanding = <<>>
        BY DEF NoneMissed
    <2>1. Stream = <<>> /\ Stream \in Seq(Byte) /\ outstanding \in Seq(Message)
        BY DEF Stream, TypeOK
    <2>2. PICK taken \in Nat : taken = Taken(rxStatus, curPosIndex)
        BY TakenIsNat
    <2>3. outstanding # <<>> => taken < Len(FrameOf(outstanding[1]))
        BY <2>2 DEF WholeInv, Knows
    <2> QED BY <2>1, <2>2, <2>3, NextByte DEF WholeInv
<1> QED BY <1>1, InitType, TypeStep, WholeStart, WholeStep, PTL DEF Spec
=============================================================================
