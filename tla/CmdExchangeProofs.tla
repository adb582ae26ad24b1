------------------------- MODULE CmdExchangeProofs -------------------------
(***************************************************************************)
(* The exchange of commands, for any set of commands, range of indices and *)
(* number of frames under way: an index identifies its request, and a      *)
(* command reported done has been carried out; without faults, once.       *)
(***************************************************************************)
EXTENDS CmdExchange, SequenceTheorems, TLAPS

Index == FirstIndex..LastIndex

\* The frames of a direction, seen from a last request with index i.
Indexed(s, i) ==
    /\ s \in Seq(Frame)
    /\ \A k \in 1..Len(s) :
           s[k].index # NoIndex => s[k].age < Window /\ s[k].index = IndexBefore(i, s[k].age)

\* Is there a reply to one of the last n requests among them?
Answers(s, n) == \E k \in 1..Len(s) : s[k].index # NoIndex /\ s[k].age < n

\* The inductive invariant, in four parts: indices and ages agree;
LineIInv ==
    /\ index_h_asw \in Index
    /\ Indexed(down, index_h_asw) /\ Indexed(up, index_h_asw)

\* the host's variables have their types;
HostTypeOK ==
    /\ linkStatus \in LinkStates
    /\ cmdStatus \in Pending \cup {"CMD_IDLE", "CMD_BUSY", "CMD_UNLINK"}
    /\ sendCnt \in 0..MAX_CMD_LUSSED_CNT
    /\ pcmLssued \in Command \cup {NoCommand} /\ prmReply \in Command \cup {NoCommand}
    /\ sendIndex \in Index \cup {NoIndex}
    /\ timer \in {"stopped", "running", "fired"}
    /\ sent \in 0..Window /\ runs \in 0..2

\* a pending command has timeouts left, the host expects the index of the last
\* request, and a command is done only when it has been carried out;
HostIInv ==
    /\ cmdStatus \in Pending => pcmLssued \in Command /\ sendCnt < MAX_CMD_LUSSED_CNT
    /\ cmdStatus = "CMD_RX" => sendIndex = index_h_asw /\ sent > 0
    /\ cmdStatus = "CMD_IDLE" /\ sent > 0 => runs > 0

\* and a reply to it exists only when the PRM has carried it out.
ReplyIInv == Answers(up, sent) => runs > 0

IInv == LineIInv /\ HostTypeOK /\ HostIInv /\ ReplyIInv

-----------------------------------------------------------------------------
(* Indices and ages.                                                       *)

\* The next request has an index of the range, and turns the request n before
\* the last one into the one n + 1 before; within the window no index recurs.
LEMMA IndexArithmetic ==
    /\ IndexNum \in Nat /\ Window \in Nat \ {0} /\ Window <= IndexNum
    /\ FirstIndex \in Nat /\ LastIndex \in Nat /\ LastIndex \in Index
    /\ \A i \in Index : next_index(i) \in Index /\ IndexBefore(i, 0) = i
    /\ \A i \in Index, n \in 0..Window-1 :
           /\ IndexBefore(i, n) \in Index
           /\ IndexBefore(i, n) = i => n = 0
           /\ IndexBefore(next_index(i), n + 1) = IndexBefore(i, n)
<1> USE IndexAssumption DEF Index, IndexNum
<1>1. IndexNum \in Nat /\ Window \in Nat \ {0} /\ Window <= IndexNum
      OBVIOUS
<1>2. FirstIndex \in Nat /\ LastIndex \in Nat /\ LastIndex \in Index
      OBVIOUS
<1>3. \A i \in Index : next_index(i) \in Index /\ IndexBefore(i, 0) = i
      BY DEF next_index, IndexBefore
<1>4. \A i \in Index, n \in 0..Window-1 :
          /\ IndexBefore(i, n) \in Index
          /\ IndexBefore(i, n) = i => n = 0
          /\ IndexBefore(next_index(i), n + 1) = IndexBefore(i, n)
      BY DEF next_index, IndexBefore
<1> QED BY <1>1, <1>2, <1>3, <1>4

\* A frame stays a frame when a further request is sent.
LEMMA OlderFrame ==
    ASSUME NEW f \in Frame
    PROVE  /\ Older(f) \in Frame
           /\ Older(f).index # NoIndex =>
                  /\ f.index # NoIndex
                  /\ Older(f).index = f.index
                  /\ Older(f).age = f.age + 1
                  /\ f.age + 1 < Window
<1>1. Forgotten \in Frame /\ Forgotten.index = NoIndex
      BY IndexArithmetic DEF Forgotten, Frame
<1>2. CASE f.index = NoIndex
      BY <1>2 DEF Older
<1>3. CASE f.index # NoIndex /\ f.age + 1 < Window
  <2>1. Older(f) = [f EXCEPT !.age = f.age + 1]
        BY <1>3 DEF Older
  <2>2. f.age + 1 \in 0..Window
        BY <1>3, IndexArithmetic DEF Frame
  <2> QED BY <1>3, <2>1, <2>2 DEF Frame
<1>4. CASE f.index # NoIndex /\ ~ (f.age + 1 < Window)
      BY <1>1, <1>4 DEF Older
<1> QED BY <1>2, <1>3, <1>4

\* Sending a further request keeps the frames under way in order, and makes no
\* reply to a recent request out of one to an older request.
LEMMA AgedFrames ==
    ASSUME NEW i \in Index, NEW s, Indexed(s, i)
    PROVE  /\ Indexed(Aged(s), next_index(i))
           /\ \A n \in 0..Window : Answers(Aged(s), Cap(n + 1, Window)) => Answers(s, n)
<1>1. s \in Seq(Frame) /\ Len(s) \in Nat
      BY DEF Indexed
<1>2. Len(Aged(s)) = Len(s) /\ \A k \in 1..Len(s) : Aged(s)[k] = Older(s[k])
      BY <1>1 DEF Aged
<1>3. \A k \in 1..Len(s) : s[k] \in Frame
      BY <1>1
<1>4. Aged(s) \in Seq(Frame)
      BY <1>1, <1>3, OlderFrame DEF Aged
<1>5. ASSUME NEW k \in 1..Len(s), Aged(s)[k].index # NoIndex
      PROVE  /\ s[k].index # NoIndex
             /\ Aged(s)[k].index = IndexBefore(next_index(i), Aged(s)[k].age)
             /\ Aged(s)[k].age = s[k].age + 1
             /\ Aged(s)[k].age < Window
  <2>1. s[k].index # NoIndex /\ Aged(s)[k].index = s[k].index
        /\ Aged(s)[k].age = s[k].age + 1 /\ s[k].age + 1 < Window
        BY <1>2, <1>3, <1>5, OlderFrame
  <2>2. s[k].index = IndexBefore(i, s[k].age)
        BY <2>1 DEF Indexed
  <2>3. s[k].age \in 0..Window-1
        BY <1>3, <2>1, IndexArithmetic DEF Frame
  <2>4. IndexBefore(next_index(i), s[k].age + 1) = IndexBefore(i, s[k].age)
        BY <2>3, IndexArithmetic
  <2> QED BY <2>1, <2>2, <2>4
<1>6. Indexed(Aged(s), next_index(i))
      BY <1>2, <1>4, <1>5 DEF Indexed
<1>7. ASSUME NEW n \in 0..Window, Answers(Aged(s), Cap(n + 1, Window))
      PROVE  Answers(s, n)
  <2>1. PICK k \in 1..Len(s) : Aged(s)[k].index # NoIndex /\ Aged(s)[k].age < Cap(n + 1, Window)
        BY <1>2, <1>7 DEF Answers
  <2>2. s[k].age + 1 < Cap(n + 1, Window) /\ s[k].index # NoIndex
        BY <1>5, <2>1
  <2>3. s[k].age \in Nat
        BY <1>3 DEF Frame
  <2>4. s[k].age < n
        BY <2>2, <2>3, IndexArithmetic DEF Cap
  <2> QED BY <2>2, <2>4 DEF Answers
<1> QED BY <1>6, <1>7

\* The frames left after reading n of them.
LEMMA UnreadFrames ==
    ASSUME NEW i \in Index, Indexed(up, i), NEW n \in 0..Len(up)
    PROVE  /\ Indexed(Unread(n), i)
           /\ \A m \in 0..Window : Answers(Unread(n), m) => Answers(up, m)
<1>1. up \in Seq(Frame) /\ Len(up) \in Nat
      BY DEF Indexed
<1>2. /\ Unread(n) \in Seq(Frame) /\ Len(Unread(n)) = Len(up) - n
      /\ \A k \in 1..Len(up) - n : Unread(n)[k] = up[n + k]
      BY <1>1 DEF Unread
<1>3. \A k \in 1..Len(Unread(n)) : n + k \in 1..Len(up) /\ Unread(n)[k] = up[n + k]
      BY <1>1, <1>2
<1> QED BY <1>2, <1>3 DEF Indexed, Answers

\* The frames left after the oldest has been taken.
LEMMA TakenFrames ==
    ASSUME NEW i \in Index, NEW s, Indexed(s, i), s # <<>>
    PROVE  Indexed(Tail(s), i) /\ Head(s) \in Frame /\ Head(s) = s[1] /\ 1 \in 1..Len(s)
<1>1. s \in Seq(Frame) /\ Len(s) \in Nat /\ 1 \in 1..Len(s)
      BY DEF Indexed
<1>2. /\ Tail(s) \in Seq(Frame) /\ Len(Tail(s)) = Len(s) - 1
      /\ \A k \in 1..Len(Tail(s)) : Tail(s)[k] = s[k + 1] /\ k + 1 \in 1..Len(s)
      BY <1>1
<1> QED BY <1>1, <1>2 DEF Indexed

\* The frames after one more has been put on the line.
LEMMA PutFrames ==
    ASSUME NEW i \in Index, NEW s, Indexed(s, i), NEW f \in Frame,
           f.index # NoIndex => f.age < Window /\ f.index = IndexBefore(i, f.age)
    PROVE  /\ Indexed(Append(s, f), i)
           /\ \A m \in 0..Window : Answers(Append(s, f), m) =>
                  Answers(s, m) \/ (f.index # NoIndex /\ f.age < m)
<1>1. s \in Seq(Frame) /\ Len(s) \in Nat
      BY DEF Indexed
<1>2. /\ Append(s, f) \in Seq(Frame) /\ Len(Append(s, f)) = Len(s) + 1
      /\ \A k \in 1..Len(s) + 1 : Append(s, f)[k] = IF k = Len(s) + 1 THEN f ELSE s[k]
      BY <1>1
<1>3. \A k \in 1..Len(s) + 1 : k # Len(s) + 1 => k \in 1..Len(s)
      BY <1>1
<1> QED BY <1>2, <1>3 DEF Indexed, Answers

\* The frames after one of them has been damaged.
LEMMA DamagedFrames ==
    ASSUME NEW i \in Index, NEW s, Indexed(s, i), NEW j \in 1..Len(s)
    PROVE  /\ Indexed([s EXCEPT ![j].body = Noise], i)
           /\ \A m \in 0..Window : Answers([s EXCEPT ![j].body = Noise], m) => Answers(s, m)
<1> DEFINE f == [index |-> s[j].index, age |-> s[j].age, body |-> Noise]
<1> DEFINE t == [s EXCEPT ![j].body = Noise]
<1>1. s \in Seq(Frame) /\ Len(s) \in Nat /\ s[j] \in Frame
      BY DEF Indexed
<1>2. f \in Frame
      BY <1>1 DEF Frame
<1>3. [s[j] EXCEPT !.body = Noise] = f
      BY <1>1 DEF Frame
<1>4. t = [s EXCEPT ![j] = f]
      BY <1>3
<1>5. t \in Seq(Frame) /\ Len(t) = Len(s)
      BY <1>1, <1>2, <1>4
<1>6. \A k \in 1..Len(s) : t[k].index = s[k].index /\ t[k].age = s[k].age
      BY <1>1, <1>4
<1> QED BY <1>5, <1>6 DEF Indexed, Answers

-----------------------------------------------------------------------------
(* The invariant.                                                          *)

\* Before the first command nothing is under way and nothing is done.
LEMMA InitIInv == Init => IInv
<1> SUFFICES ASSUME Init PROVE IInv
    OBVIOUS
<1> USE DEF Init, LineInit
<1>1. LineIInv
      BY IndexArithmetic DEF LineIInv, Indexed
<1>2. HostTypeOK /\ HostIInv
      BY IndexArithmetic DEF HostTypeOK, HostIInv, LinkStates, Pending, MAX_CMD_LUSSED_CNT
<1>3. ReplyIInv
      BY DEF ReplyIInv, Answers
<1> QED BY <1>1, <1>2, <1>3 DEF IInv

\* What every step of the exchange starts from.
LEMMA LineFacts ==
    ASSUME IInv
    PROVE  /\ index_h_asw \in Index /\ Indexed(down, index_h_asw) /\ Indexed(up, index_h_asw)
           /\ sent \in 0..Window /\ Window \in Nat \ {0} /\ runs \in 0..2
           /\ Len(up) \in Nat
           /\ \A k \in 1..Len(up) : up[k] \in Frame /\ up[k].age \in 0..Window
           /\ ~ Answers(up, 0)
<1>1. up \in Seq(Frame)
      BY DEF IInv, LineIInv, Indexed
<1>2. \A k \in 1..Len(up) : up[k] \in Frame
      BY <1>1
<1>3. \A k \in 1..Len(up) : up[k].age \in 0..Window
      BY <1>2 DEF Frame
<1>4. ~ Answers(up, 0)
      BY <1>3, IndexArithmetic DEF Answers
<1> QED BY <1>1, <1>2, <1>3, <1>4, IndexArithmetic DEF IInv, LineIInv, HostTypeOK

\* A request is sent.
LEMMA TransmitStep ==
    ASSUME IInv, NEW request \in Command, Transmit(request)
    PROVE  index_h_asw' \in Index /\ Indexed(down', index_h_asw')
<1> DEFINE f == [index |-> next_index(index_h_asw), age |-> 0, body |-> request]
<1>1. index_h_asw' = next_index(index_h_asw) /\ index_h_asw' \in Index
      BY LineFacts, IndexArithmetic DEF Transmit
<1>2. Indexed(Aged(down), index_h_asw')
      BY <1>1, LineFacts, AgedFrames
<1>3. f \in Frame /\ f.age < Window /\ f.index = IndexBefore(index_h_asw', f.age)
      BY <1>1, IndexArithmetic DEF Frame, Index
<1>4. Indexed(Append(Aged(down), f), index_h_asw')
      BY <1>1, <1>2, <1>3, PutFrames
<1> QED BY <1>1, <1>2, <1>4 DEF Transmit

\* The buffer holds the expected index only when the PRM has carried out the
\* command: the index is that of a reply to the last request.
LEMMA MatchMeansRun ==
    ASSUME IInv, cmdStatus = "CMD_RX", NEW n \in 0..Len(up), NEW begun \in Begun(n),
           ReplyAccepted(n), uart_get_index(n, begun) = sendIndex
    PROVE  runs > 0
<1>1. n \in 1..Len(up)
      BY LineFacts DEF ReplyAccepted, Indexed
<1>2. PICK k \in 1..Len(up) : up[k].index = index_h_asw
      BY <1>1, LineFacts DEF IInv, HostIInv, Begun, uart_get_index
<1>3. up[k].index # NoIndex
      BY <1>2, LineFacts, IndexAssumption DEF Index
<1>4. up[k].age \in 0..Window-1 /\ up[k].index = IndexBefore(index_h_asw, up[k].age)
      BY <1>3, LineFacts DEF Indexed
<1>5. up[k].age = 0
      BY <1>2, <1>4, LineFacts, IndexArithmetic
<1>6. Answers(up, sent)
      BY <1>3, <1>5 DEF IInv, HostIInv, Answers
<1> QED BY <1>6 DEF IInv, ReplyIInv

\* The steps that leave the line alone but for frames read from it.
LEMMA ReadStep ==
    ASSUME IInv, NEW n \in 0..Len(up), up' = Unread(n), UNCHANGED <<index_h_asw, down, sent, runs>>
    PROVE  LineIInv' /\ ReplyIInv'
<1>1. Indexed(up', index_h_asw) /\ (Answers(up', sent) => Answers(up, sent))
      BY LineFacts, UnreadFrames
<1> QED BY <1>1, LineFacts DEF IInv, LineIInv, ReplyIInv

\* No step of the host, the PRM, the line or the timer breaks the invariant.
LEMMA NextIInv == IInv /\ [Next]_vars => IInv'
<1> SUFFICES ASSUME IInv, [Next]_vars PROVE IInv'
    OBVIOUS
<1> USE LineFacts
<1> USE DEF IInv, HostTypeOK, HostIInv, Pending, LinkStates, MAX_CMD_LUSSED_CNT, hostVars
<1>1. ASSUME NEW c \in Command, Issue(c) PROVE IInv'
      BY <1>1 DEF Issue, lineVars, LineIInv, ReplyIInv
<1>2. ASSUME NEW status \in LinkStates, Relink(status) PROVE IInv'
  <2>1. LineIInv'
        BY <1>2, AgedFrames, IndexArithmetic DEF Relink, LineIInv
  <2>2. Answers(up', Cap(sent + 1, Window)) => Answers(up, sent)
        BY <1>2, AgedFrames DEF Relink
  <2>3. Answers(up', sent) => Answers(up', Cap(sent + 1, Window))
    <3>1. \A k \in 1..Len(up') : up'[k].age \in 0..Window
      <4>1. \A k \in 1..Len(up') : up'[k] \in Frame
            BY <2>1 DEF LineIInv, Indexed
      <4> QED BY <4>1 DEF Frame
    <3>2. CASE sent = Window
          BY <3>2 DEF Cap
    <3>3. CASE sent < Window
          BY <3>1, <3>3 DEF Answers, Cap
    <3> QED BY <3>2, <3>3
  <2> QED BY <1>2, <2>1, <2>2, <2>3 DEF Relink, ReplyIInv
<1>3. ASSUME NEW n \in 0..Len(up), CyclePoll(n) PROVE IInv'
      BY <1>3, ReadStep DEF CyclePoll
<1>4. ASSUME NEW n \in 0..Len(up), CycleSend(n) PROVE IInv'
  <2>1. index_h_asw' = next_index(index_h_asw) /\ index_h_asw' \in Index /\ Indexed(down', index_h_asw')
        BY <1>4, TransmitStep DEF CycleSend, Transmit
  <2>2. Indexed(Unread(n), index_h_asw) /\ (Answers(Unread(n), sent) => Answers(up, sent))
        BY UnreadFrames
  <2>3. Indexed(up', index_h_asw') /\ (Answers(up', sent') => Answers(Unread(n), sent))
        BY <1>4, <2>1, <2>2, AgedFrames DEF CycleSend
  <2>4. sent' \in 0..Window /\ sent' > 0
        BY <1>4 DEF CycleSend, Cap
  <2> QED BY <1>4, <2>1, <2>2, <2>3, <2>4 DEF CycleSend, LineIInv, ReplyIInv
<1>5. ASSUME NEW n \in 0..Len(up), CycleTimeout(n) PROVE IInv'
      BY <1>5, ReadStep DEF CycleTimeout
<1>6. ASSUME NEW n \in 0..Len(up), CycleNoReply(n) PROVE IInv'
      BY <1>6, ReadStep DEF CycleNoReply
<1>7. ASSUME NEW n \in 0..Len(up), NEW begun \in Begun(n), CycleMismatch(n, begun) PROVE IInv'
      BY <1>7, ReadStep DEF CycleMismatch
<1>8. ASSUME NEW n \in 0..Len(up), NEW begun \in Begun(n), CycleMatch(n, begun) PROVE IInv'
  <2>1. runs > 0
        BY <1>8, MatchMeansRun DEF CycleMatch
  <2> QED BY <1>8, <2>1, ReadStep DEF CycleMatch
<1>9. CASE PrmExecutes
  <2> DEFINE f == [Head(down) EXCEPT !.body = Head(down).body]
  <2>1. down # <<>> /\ Head(down) \in Frame /\ Head(down) = down[1] /\ 1 \in 1..Len(down)
        BY <1>9, TakenFrames DEF PrmExecutes, PrmTakes
  <2>2. f = Head(down)
        BY <2>1 DEF Frame
  <2>3. f.index # NoIndex => f.age < Window /\ f.index = IndexBefore(index_h_asw, f.age)
        BY <2>1, <2>2 DEF Indexed
  <2>4. Indexed(down', index_h_asw)
        BY <1>9, <2>1, TakenFrames DEF PrmExecutes, PrmTakes
  <2>5. /\ Indexed(up', index_h_asw)
        /\ Answers(up', sent) => Answers(up, sent) \/ (f.index # NoIndex /\ f.age < sent)
    <3>1. up' = up \/ up' = Append(up, f)
          BY <1>9 DEF PrmExecutes, PrmReplies
    <3>2. /\ Indexed(Append(up, f), index_h_asw)
          /\ Answers(Append(up, f), sent) => Answers(up, sent) \/ (f.index # NoIndex /\ f.age < sent)
          BY <2>1, <2>2, <2>3, PutFrames
    <3> HIDE DEF f
    <3> QED BY <3>1, <3>2
  <2>6. /\ runs' \in 0..2 /\ (runs > 0 => runs' > 0)
        /\ f.index # NoIndex /\ f.age < sent => runs' > 0
        BY <1>9, <2>2 DEF PrmExecutes, ForThisCommand, Cap
  <2> QED BY <1>9, <2>4, <2>5, <2>6 DEF PrmExecutes, LineIInv, ReplyIInv
<1>10. CASE PrmIgnores
  <2>1. Indexed(down', index_h_asw)
        BY <1>10, TakenFrames DEF PrmIgnores, PrmTakes
  <2> QED BY <1>10, <2>1 DEF PrmIgnores, LineIInv, ReplyIInv
<1>11. CASE PrmSamples /\ UNCHANGED <<hostVars, timer, sent, runs>>
  <2> DEFINE f == [index |-> NoIndex, age |-> 0, body |-> Sample]
  <2>1. f \in Frame /\ f.index = NoIndex
        BY DEF Frame
  <2>2. Indexed(up', index_h_asw) /\ (Answers(up', sent) => Answers(up, sent))
        BY <1>11, <2>1, PutFrames DEF PrmSamples
  <2> QED BY <1>11, <2>2 DEF PrmSamples, LineIInv, ReplyIInv
<1>12. CASE LineDamages /\ UNCHANGED <<hostVars, timer, sent, runs>>
  <2>1. /\ Indexed(up', index_h_asw) /\ Indexed(down', index_h_asw)
        /\ Answers(up', sent) => Answers(up, sent)
        BY <1>12, DamagedFrames DEF LineDamages
  <2> QED BY <1>12, <2>1 DEF LineDamages, LineIInv, ReplyIInv
<1>13. CASE TimerFires
      BY <1>13 DEF TimerFires, lineVars, LineIInv, ReplyIInv
<1>14. CASE UNCHANGED vars
      BY <1>14 DEF vars, lineVars, LineIInv, ReplyIInv
<1> QED BY <1>1, <1>2, <1>3, <1>4, <1>5, <1>6, <1>7, <1>8, <1>9, <1>10, <1>11, <1>12, <1>13, <1>14
        DEF Next, Step, Cycle

-----------------------------------------------------------------------------
(* The theorems.                                                           *)

\* Every variable has its type; in particular no command is repeated after
\* more than MAX_CMD_LUSSED_CNT timeouts.
THEOREM TypeCorrect == Spec => []TypeOK
<1>1. IInv => TypeOK
      BY DEF IInv, LineIInv, HostTypeOK, Indexed, TypeOK, Index
<1> QED BY InitIInv, NextIInv, <1>1, PTL DEF Spec

\* The index of a request identifies it among all frames under way, for every
\* range of indices that is longer than the line's memory.
THEOREM IndexIsIdentity == Spec => []IndexIdentifies
<1>1. ASSUME NEW i \in Index, NEW s, Indexed(s, i), NEW k \in 1..Len(s), s[k].index = i
      PROVE  s[k].age = 0
  <2>1. s[k] \in Frame /\ s[k].index # NoIndex
        BY <1>1, IndexAssumption DEF Indexed, Index
  <2>2. s[k].age \in 0..Window
        BY <2>1 DEF Frame
  <2>3. s[k].age \in 0..Window-1 /\ s[k].index = IndexBefore(i, s[k].age)
        BY <1>1, <2>1, <2>2, IndexArithmetic DEF Indexed
  <2> QED BY <1>1, <2>3, IndexArithmetic
<1>2. IInv => IndexIdentifies
      BY <1>1 DEF IInv, LineIInv, IndexIdentifies
<1> QED BY InitIInv, NextIInv, <1>2, PTL DEF Spec

\* Every step of the exchange is a step of AtLeastOnce or changes nothing the
\* caller is promised.
LEMMA PromiseStep == IInv /\ IInv' /\ [Next]_vars => [Promise!Next]_(Promise!vars)
<1> SUFFICES ASSUME IInv, IInv', [Next]_vars PROVE [Promise!Next]_(Promise!vars)
    OBVIOUS
<1> USE DEF Promise!vars, Op, Ran, Pending
<1>0. sent \in Nat /\ runs \in 0..2 /\ runs' \in 0..2 /\ sent' \in Nat /\ Window \in Nat \ {0}
      BY IndexArithmetic DEF IInv, HostTypeOK
<1>1. ASSUME NEW c \in Command, Issue(c) PROVE Promise!Issue \/ Promise!Refuse
      BY <1>0, <1>1 DEF Issue, Promise!Issue, Promise!Refuse
<1>2. ASSUME UNCHANGED <<cmdStatus, sent, runs>> PROVE UNCHANGED Promise!vars
      BY <1>2
<1>3. ASSUME NEW n \in 0..Len(up), CycleSend(n) PROVE UNCHANGED Promise!vars
      BY <1>0, <1>3 DEF CycleSend
<1>4. ASSUME NEW n \in 0..Len(up), CycleTimeout(n) PROVE Promise!Fail \/ UNCHANGED Promise!vars
      BY <1>0, <1>4 DEF CycleTimeout, Promise!Fail
<1>5. ASSUME NEW n \in 0..Len(up), NEW begun \in Begun(n), CycleMismatch(n, begun)
      PROVE  UNCHANGED Promise!vars
      BY <1>0, <1>5 DEF CycleMismatch
<1>6. ASSUME NEW n \in 0..Len(up), NEW begun \in Begun(n), CycleMatch(n, begun)
      PROVE  Promise!Done
  <2>1. runs > 0
        BY <1>6, MatchMeansRun DEF CycleMatch
  <2>2. sent > 0
        BY <1>6 DEF CycleMatch, IInv, HostIInv
  <2> QED BY <1>0, <1>6, <2>1, <2>2 DEF CycleMatch, Promise!Done
<1>7. CASE PrmExecutes
  <2>1. (runs > 0 => runs' > 0) /\ UNCHANGED <<cmdStatus, sent>>
        BY <1>0, <1>7 DEF PrmExecutes, Cap, hostVars
  <2> QED BY <1>0, <2>1 DEF Promise!Next, Promise!Run
<1> QED BY <1>1, <1>2, <1>3, <1>4, <1>5, <1>6, <1>7
        DEF Next, Step, Cycle, Promise!Next, Relink, CyclePoll, CycleNoReply, PrmIgnores,
            TimerFires, vars, hostVars

\* A command reported done has been carried out by the PRM at least once,
\* however requests, replies and samples are lost, damaged, delayed or mixed up
\* in the receive buffer.
THEOREM DoneMeansCarriedOut == Spec => SuccessMeansExecuted
<1>1. Init => Promise!Init
      BY DEF Init, LineInit, Promise!Init, Op, Ran, Pending
<1> QED BY <1>1, InitIInv, NextIInv, PromiseStep, PTL
        DEF Spec, SuccessMeansExecuted, Promise!Spec

-----------------------------------------------------------------------------
(* Without faults a command is carried out once.                           *)

Faultless == Prompt /\ ~Lossy /\ ~Sampling

\* The request for this command, or the reply to it.
IsThis(f) == f.index = sendIndex /\ f.index # NoIndex /\ f.body \in Command /\ f.age = 0

\* Nothing is under way but, while the host waits, one frame: the request that
\* has not been carried out or the reply to the one that has.  It keeps the
\* timer of a prompt PRM from firing, and the host from sending again.
OnceInv ==
    Faultless =>
        /\ cmdStatus # "CMD_UNLINK" /\ runs <= 1
        /\ cmdStatus = "CMD_TX" => runs = 0
        /\ cmdStatus # "CMD_RX" => down = <<>> /\ up = <<>>
        /\ cmdStatus = "CMD_RX" =>
              /\ timer # "fired"
              /\ \E f \in Frame : /\ IsThis(f)
                                  /\ \/ down = <<f>> /\ up = <<>> /\ runs = 0
                                     \/ down = <<>> /\ up = <<f>>

\* With nothing under way there is nothing to read and nothing to age.
LEMMA NothingUnderWay ==
    ASSUME up = <<>>, NEW n \in 0..Len(up)
    PROVE  n = 0 /\ Unread(n) = <<>> /\ Aged(<<>>) = <<>> /\ Aged(Unread(n)) = <<>>
<1>1. n = 0
    OBVIOUS
<1>2. Unread(n) = <<>>
    BY <1>1 DEF Unread
<1>3. Aged(<<>>) = <<>>
    BY DEF Aged
<1> QED BY <1>1, <1>2, <1>3

\* What is read of the one reply.
LEMMA OneReply ==
    ASSUME NEW f, up = <<f>>, NEW n \in 0..Len(up)
    PROVE  /\ n = 0 => Unread(n) = up /\ ~ReplyAccepted(n)
           /\ n # 0 => /\ n = 1 /\ Unread(n) = <<>> /\ Begun(n) = {"nothing"}
                       /\ uart_get_index(n, "nothing") = f.index
                       /\ (f.body \notin {Sample, Noise} => ReplyAccepted(n))
<1>1. Len(up) = 1 /\ up[1] = f
    OBVIOUS
<1>2. CASE n = 0
    <2>1. Unread(n) = up
        <3>1. up \in Seq({f})
            OBVIOUS
        <3>2. SubSeq(up, 1, Len(up)) = up
            BY <3>1, SubSeqFull
        <3> QED BY <1>2, <3>2 DEF Unread
    <2> QED BY <1>2, <2>1 DEF ReplyAccepted
<1>3. CASE n # 0
    <2>1. n = 1
        BY <1>1, <1>3
    <2>2. Unread(n) = <<>>
        BY <1>1, <2>1 DEF Unread
    <2> QED BY <1>1, <2>1, <2>2 DEF Begun, uart_get_index, ReplyAccepted
<1> QED BY <1>2, <1>3

LEMMA OnceStep == ASSUME IInv, OnceInv, [Next]_vars PROVE OnceInv'
<1> SUFFICES ASSUME Faultless' PROVE OnceInv'
    BY DEF OnceInv
<1>0. UNCHANGED world /\ Faultless
    BY DEF Next, vars, Faultless, Prompt, Lossy, Sampling
<1> USE DEF Pending
<1>1. ASSUME NEW c \in Command, Issue(c) PROVE OnceInv'
    BY <1>0, <1>1 DEF Issue, OnceInv, lineVars
<1>2. ASSUME NEW status \in LinkStates, Relink(status) PROVE OnceInv'
    <2>1. down = <<>> /\ up = <<>> /\ cmdStatus # "CMD_RX" /\ cmdStatus # "CMD_TX"
        BY <1>0, <1>2 DEF Relink, OnceInv
    <2>2. down' = <<>> /\ up' = <<>>
        BY <1>2, <2>1 DEF Relink, Aged
    <2> QED BY <1>0, <1>2, <2>1, <2>2 DEF Relink, OnceInv
<1>3. ASSUME NEW n \in 0..Len(up), CyclePoll(n) PROVE OnceInv'
    <2>1. down = <<>> /\ up = <<>> /\ up' = <<>>
        BY <1>0, <1>3, NothingUnderWay DEF CyclePoll, OnceInv
    <2> QED BY <1>0, <1>3, <2>1 DEF CyclePoll, OnceInv, hostVars
<1>4. ASSUME NEW n \in 0..Len(up), CycleSend(n) PROVE OnceInv'
    <2>1. down = <<>> /\ up = <<>> /\ runs = 0 /\ pcmLssued \in Command
        BY <1>0, <1>4 DEF CycleSend, OnceInv, IInv, HostIInv
    <2>2. up' = <<>> /\ Aged(down) = <<>>
        BY <1>4, <2>1, NothingUnderWay DEF CycleSend
    <2>3. PICK f : f = [index |-> next_index(index_h_asw), age |-> 0, body |-> pcmLssued]
        OBVIOUS
    <2>4. index_h_asw' = next_index(index_h_asw) /\ index_h_asw' \in Index /\ sendIndex' = index_h_asw'
        BY <1>4, LineFacts, IndexArithmetic DEF CycleSend, Transmit
    <2>5. f \in Frame /\ IsThis(f)'
        BY <2>1, <2>3, <2>4, LineFacts, IndexAssumption DEF Frame, IsThis, Index
    <2>6. down' = <<f>>
        <3>1. Len(down) < LineCap /\ ~Lossy
            BY <1>0, <2>1, LineAssumption DEF Faultless
        <3>2. ~ (Len(down) >= LineCap)
            BY <2>1, LineAssumption
        <3>3. down' = Append(Aged(down), f)
            BY <1>4, <2>3, <3>1, <3>2 DEF CycleSend, Transmit
        <3> QED BY <2>2, <3>3
    <2> QED BY <1>0, <1>4, <2>1, <2>2, <2>5, <2>6 DEF CycleSend, OnceInv
<1>5. ASSUME cmdStatus = "CMD_RX"
      PROVE  \E f \in Frame : /\ timer # "fired" /\ IsThis(f) /\ f.body \notin {Sample, Noise} /\ runs <= 1
                              /\ \/ down = <<f>> /\ up = <<>> /\ runs = 0
                                 \/ down = <<>> /\ up = <<f>>
    BY <1>0, <1>5, CommandAssumption DEF OnceInv, IsThis
<1>6. ASSUME NEW n \in 0..Len(up), CycleTimeout(n) PROVE OnceInv'
    BY <1>5, <1>6 DEF CycleTimeout
<1>7. ASSUME NEW n \in 0..Len(up), CycleNoReply(n) PROVE OnceInv'
    <2>1. PICK f \in Frame : /\ timer # "fired" /\ IsThis(f) /\ f.body \notin {Sample, Noise} /\ runs <= 1
                             /\ \/ down = <<f>> /\ up = <<>> /\ runs = 0
                                \/ down = <<>> /\ up = <<f>>
        BY <1>5, <1>7 DEF CycleNoReply
    <2>2. up' = up
        BY <1>7, <2>1, NothingUnderWay, OneReply DEF CycleNoReply
    <2> QED BY <1>7, <2>1, <2>2 DEF CycleNoReply, OnceInv, hostVars, IsThis
<1>8. ASSUME NEW n \in 0..Len(up), ReplyAccepted(n), cmdStatus = "CMD_RX"
      PROVE  /\ down = <<>> /\ Unread(n) = <<>> /\ runs <= 1
             /\ \A begun \in Begun(n) : uart_get_index(n, begun) = sendIndex
    <2>1. PICK f \in Frame : /\ timer # "fired" /\ IsThis(f) /\ f.body \notin {Sample, Noise} /\ runs <= 1
                             /\ \/ down = <<f>> /\ up = <<>> /\ runs = 0
                                \/ down = <<>> /\ up = <<f>>
        BY <1>5, <1>8
    <2>2. n # 0
        BY <1>8 DEF ReplyAccepted
    <2>3. up = <<f>> /\ down = <<>>
        BY <2>1, <2>2, NothingUnderWay
    <2> QED BY <2>1, <2>2, <2>3, OneReply DEF IsThis
<1>9. ASSUME NEW n \in 0..Len(up), NEW begun \in Begun(n), CycleMismatch(n, begun) PROVE OnceInv'
    BY <1>8, <1>9 DEF CycleMismatch
<1>10. ASSUME NEW n \in 0..Len(up), NEW begun \in Begun(n), CycleMatch(n, begun) PROVE OnceInv'
    BY <1>8, <1>10 DEF CycleMatch, OnceInv
<1>11. CASE PrmExecutes
    <2>1. down # <<>>
        BY <1>11 DEF PrmExecutes, PrmTakes
    <2>2. cmdStatus = "CMD_RX"
        BY <1>0, <2>1 DEF OnceInv
    <2>3. PICK f \in Frame : IsThis(f) /\ down = <<f>> /\ up = <<>> /\ runs = 0 /\ timer # "fired"
        BY <1>5, <2>1, <2>2
    <2>4. Head(down) = f /\ Tail(down) = <<>> /\ [f EXCEPT !.body = f.body] = f
        BY <2>3 DEF Frame
    <2>5. down' = <<>> /\ up' = <<f>>
        <3>1. Len(up) < LineCap /\ ~ (Len(up) >= LineCap) /\ ~Lossy
            BY <1>0, <2>3, LineAssumption DEF Faultless
        <3>2. up' = Append(up, f)
            BY <1>11, <2>4, <3>1 DEF PrmExecutes, PrmReplies
        <3> QED BY <1>11, <2>3, <2>4, <3>2 DEF PrmExecutes, PrmTakes
    <2>6. runs' <= 1
        BY <1>11, <2>3 DEF PrmExecutes, Cap
    <2> QED BY <1>11, <2>2, <2>3, <2>5, <2>6 DEF PrmExecutes, OnceInv, hostVars, IsThis
<1>12. CASE PrmIgnores
    <2>1. down # <<>> /\ Head(down).body = Noise
        BY <1>12 DEF PrmIgnores, PrmTakes
    <2>2. cmdStatus = "CMD_RX"
        BY <1>0, <2>1 DEF OnceInv
    <2>3. PICK f \in Frame : f.body # Noise /\ down = <<f>>
        BY <1>5, <2>1, <2>2
    <2> QED BY <2>1, <2>3
<1>13. CASE TimerFires
    <2>1. UNCHANGED <<lineVars, hostVars, sent, runs>> /\ LateTimer
        BY <1>13 DEF TimerFires
    <2>2. ASSUME cmdStatus = "CMD_RX" PROVE FALSE
        <3>1. PICK f \in Frame : f.body \notin {Sample, Noise} /\ (down = <<f>> \/ up = <<f>>)
            BY <1>5, <2>2
        <3>2. \E s \in {down, up} : 1 \in 1..Len(s) /\ s[1] = f
            BY <3>1
        <3> QED BY <1>0, <2>1, <3>1, <3>2 DEF LateTimer, Faultless
    <2> QED BY <1>0, <2>1, <2>2 DEF OnceInv, lineVars, hostVars
<1>14. CASE (Sampling /\ PrmSamples) \/ LineDamages
    BY <1>0, <1>14 DEF LineDamages, Faultless
<1>15. CASE UNCHANGED vars
    BY <1>0, <1>15 DEF vars, OnceInv, lineVars, hostVars, IsThis
<1> QED BY <1>1, <1>2, <1>3, <1>4, <1>6, <1>7, <1>9, <1>10, <1>11, <1>12, <1>13, <1>14, <1>15
        DEF Next, Step, Cycle

\* On a line that loses nothing a prompt PRM that sends no samples meanwhile
\* carries a command out at most once, and the host never gives it up.
THEOREM FaultlessMeansOnce == Spec => []CarriedOutOnce
<1>1. Init => OnceInv
    BY DEF Init, LineInit, OnceInv
<1>2. OnceInv => CarriedOutOnce
    BY DEF OnceInv, CarriedOutOnce, Faultless
<1> QED BY <1>1, <1>2, InitIInv, NextIInv, OnceStep, PTL DEF Spec
-----------------------------------------------------------------------------
(* When the reply that is copied is that of the command issued last.       *)

Quiet(s) == \A k \in 1..Len(s) : s[k].body = Noise

\* Only the last frame can be whole, and it belongs to command c with index i.
LastIsThis(s, c, i) ==
    \A k \in 1..Len(s) : s[k].body # Noise => k = Len(s) /\ s[k].body = c /\ s[k].index = i

\* A prompt PRM leaves nothing whole behind that is older than the request the
\* host waits for, so a frame that begins to arrive never follows its reply.
PromptInv ==
    Prompt /\ ~Sampling =>
        /\ LastIsThis(down, pcmLssued, sendIndex) /\ LastIsThis(up, pcmLssued, sendIndex)
        /\ Quiet(down) \/ Quiet(up)
        /\ cmdStatus # "CMD_RX" \/ timer = "fired" => Quiet(down) /\ Quiet(up)
        /\ StatusIsOfThisCommand

\* Damaged frames stay damaged, on the line and in the half that is not yet read.
LEMMA QuietFrames ==
    ASSUME NEW s, s \in Seq(Frame)
    PROVE  /\ Quiet(s) => Quiet(Aged(s)) /\ \A c, i : LastIsThis(s, c, i)
           /\ Quiet(<<>>)
<1>1. ASSUME Quiet(s) PROVE Quiet(Aged(s))
    <2>1. Len(s) \in Nat /\ Len(Aged(s)) = Len(s) /\ \A k \in 1..Len(s) : Aged(s)[k] = Older(s[k])
        BY DEF Aged
    <2>2. ASSUME NEW k \in 1..Len(s) PROVE Older(s[k]).body = Noise
        <3>1. s[k] \in Frame /\ s[k].body = Noise
            BY <1>1 DEF Quiet
        <3> QED BY <3>1 DEF Older, Forgotten, Frame
    <2> QED BY <2>1, <2>2 DEF Quiet
<1> QED BY <1>1 DEF Quiet, LastIsThis

LEMMA UnreadLast ==
    ASSUME up \in Seq(Frame), NEW n \in 0..Len(up), NEW c, NEW i, LastIsThis(up, c, i)
    PROVE  /\ LastIsThis(Unread(n), c, i)
           /\ Quiet(up) => Quiet(Unread(n))
<1>1. /\ Len(up) \in Nat /\ Len(Unread(n)) = Len(up) - n
      /\ \A k \in 1..Len(up) - n : n + k \in 1..Len(up) /\ Unread(n)[k] = up[n + k]
    BY DEF Unread
<1>2. ASSUME NEW k \in 1..Len(Unread(n)), Unread(n)[k].body # Noise
      PROVE  k = Len(Unread(n)) /\ Unread(n)[k].body = c /\ Unread(n)[k].index = i
    <2>1. k \in 1..Len(up) - n
        BY <1>1
    <2>2. n + k \in 1..Len(up) /\ Unread(n)[k] = up[n + k]
        BY <1>1, <2>1
    <2>3. n + k = Len(up) /\ up[n + k].body = c /\ up[n + k].index = i
        BY <1>2, <2>2 DEF LastIsThis
    <2>4. k = Len(up) - n
        <3>1. \A a, b, d \in Int : a + b = d => b = d - a
            OBVIOUS
        <3>2. n \in Int /\ k \in Int /\ Len(up) \in Int
            BY <1>1, <2>1
        <3> QED BY <2>3, <3>1, <3>2
    <2>5. k = Len(Unread(n))
        BY <1>1, <2>4
    <2> QED BY <2>2, <2>3, <2>5, Zenon
<1>3. ASSUME Quiet(up), NEW k \in 1..Len(Unread(n)) PROVE Unread(n)[k].body = Noise
    <2>1. k \in 1..Len(up) - n
        BY <1>1
    <2> QED BY <1>1, <1>3, <2>1 DEF Quiet
<1> QED BY <1>2, <1>3 DEF LastIsThis, Quiet

\* A reply that is accepted is the whole of what is left to read.
LEMMA AcceptedLast ==
    ASSUME up \in Seq(Frame), NEW n \in 0..Len(up), NEW c, NEW i, LastIsThis(up, c, i), ReplyAccepted(n)
    PROVE  /\ Quiet(Unread(n)) /\ Begun(n) = {"nothing"} /\ ~ Quiet(up)
           /\ uart_get_index(n, "nothing") = i /\ uart_get_body(n, "nothing") = c
<1>1. PICK k \in 1..n : up[k].body \notin {Sample, Noise}
    BY DEF ReplyAccepted
<1>2. Len(up) \in Nat /\ k \in 1..Len(up) /\ k = Len(up) /\ up[k].body = c /\ up[k].index = i
    BY <1>1 DEF LastIsThis
<1>3. n = k /\ n = Len(up)
    BY <1>2
<1>4. Unread(n) = <<>>
    BY <1>3 DEF Unread
<1>5. Quiet(Unread(n))
    BY <1>4 DEF Quiet
<1> QED BY <1>1, <1>2, <1>3, <1>5 DEF Begun, uart_get_index, uart_get_body, Quiet

\* The oldest frame is taken from a line on which only the last can be whole.
LEMMA TakenLast ==
    ASSUME NEW s \in Seq(Frame), s # <<>>, NEW c, NEW i, LastIsThis(s, c, i)
    PROVE  /\ LastIsThis(Tail(s), c, i) /\ (Quiet(s) => Quiet(Tail(s)))
           /\ Head(s).body # Noise => /\ Quiet(Tail(s)) /\ ~ Quiet(s)
                                      /\ Head(s).body = c /\ Head(s).index = i
<1>1. /\ Len(s) \in Nat /\ 1 \in 1..Len(s) /\ Head(s) = s[1] /\ Len(Tail(s)) = Len(s) - 1
      /\ \A k \in 1..Len(Tail(s)) : Tail(s)[k] = s[k + 1] /\ k + 1 \in 1..Len(s)
    OBVIOUS
<1>2. Head(s).body # Noise => Len(s) = 1
    BY <1>1 DEF LastIsThis
<1>3. ASSUME NEW k \in 1..Len(Tail(s)), Tail(s)[k].body # Noise
      PROVE  k = Len(Tail(s)) /\ Tail(s)[k].body = c /\ Tail(s)[k].index = i
    <2>1. Tail(s)[k] = s[k + 1] /\ k + 1 \in 1..Len(s)
        BY <1>1
    <2>2. k + 1 = Len(s) /\ s[k + 1].body = c /\ s[k + 1].index = i
        BY <1>3, <2>1 DEF LastIsThis
    <2>3. k = Len(Tail(s))
        <3>1. k \in Int /\ Len(s) \in Int /\ Len(Tail(s)) = Len(s) - 1
            BY <1>1
        <3> QED BY <2>2, <3>1
    <2> QED BY <2>1, <2>2, <2>3, Zenon
<1>4. LastIsThis(Tail(s), c, i)
    BY <1>3 DEF LastIsThis
<1>5. Quiet(s) => Quiet(Tail(s))
    BY <1>1 DEF Quiet
<1>6. ASSUME Head(s).body # Noise
      PROVE  Quiet(Tail(s)) /\ ~ Quiet(s) /\ Head(s).body = c /\ Head(s).index = i
    <2>1. 1..Len(Tail(s)) = {}
        BY <1>1, <1>2, <1>6
    <2>2. Quiet(Tail(s))
        BY <2>1 DEF Quiet
    <2> QED BY <1>1, <1>6, <2>2 DEF LastIsThis, Quiet
<1> QED BY <1>4, <1>5, <1>6

LEMMA PutLast ==
    ASSUME NEW s \in Seq(Frame), Quiet(s), NEW f \in Frame
    PROVE  LastIsThis(Append(s, f), f.body, f.index)
<1>1. /\ Len(s) \in Nat /\ Len(Append(s, f)) = Len(s) + 1
      /\ \A k \in 1..Len(s) + 1 : Append(s, f)[k] = IF k = Len(s) + 1 THEN f ELSE s[k]
    OBVIOUS
<1> QED BY <1>1 DEF Quiet, LastIsThis

LEMMA DamagedLast ==
    ASSUME NEW s \in Seq(Frame), NEW j \in 1..Len(s), NEW c, NEW i, LastIsThis(s, c, i)
    PROVE  /\ LastIsThis([s EXCEPT ![j].body = Noise], c, i)
           /\ Quiet(s) => Quiet([s EXCEPT ![j].body = Noise])
<1> DEFINE t == [s EXCEPT ![j].body = Noise]
<1>1. Len(s) \in Nat /\ s[j] \in Frame
    OBVIOUS
<1>2. [s[j] EXCEPT !.body = Noise].body = Noise
    BY <1>1 DEF Frame
<1>3. Len(t) = Len(s)
    OBVIOUS
<1>4. \A k \in 1..Len(s) : t[k] = IF k = j THEN [s[j] EXCEPT !.body = Noise] ELSE s[k]
    OBVIOUS
<1> QED BY <1>2, <1>3, <1>4 DEF LastIsThis, Quiet

LEMMA PromptStep == ASSUME IInv, PromptInv, [Next]_vars PROVE PromptInv'
<1> SUFFICES ASSUME (Prompt /\ ~Sampling)' PROVE PromptInv'
    BY DEF PromptInv
<1>0. UNCHANGED world /\ Prompt /\ ~Sampling
    BY DEF Next, vars, Prompt, Sampling
<1>1. /\ LastIsThis(down, pcmLssued, sendIndex) /\ LastIsThis(up, pcmLssued, sendIndex)
      /\ Quiet(down) \/ Quiet(up)
      /\ cmdStatus # "CMD_RX" \/ timer = "fired" => Quiet(down) /\ Quiet(up)
      /\ StatusIsOfThisCommand
    BY <1>0 DEF PromptInv
<1>2. down \in Seq(Frame) /\ up \in Seq(Frame) /\ sent \in Nat
    BY LineFacts DEF Indexed
<1> USE DEF Pending
\* A step that leaves nothing whole under way.
<1>3. ASSUME Quiet(down'), Quiet(up'), StatusIsOfThisCommand' PROVE PromptInv'
    BY <1>3 DEF PromptInv, Quiet, LastIsThis
\* A step that leaves the line as it is, or reads from it without an answer.
<1>4. ASSUME NEW n \in 0..Len(up), up' = Unread(n) \/ up' = up,
             UNCHANGED <<down, cmdStatus, pcmLssued, sendIndex, prmReply, timer, sent>>
      PROVE  PromptInv'
    <2>1. LastIsThis(up', pcmLssued, sendIndex) /\ (Quiet(up) => Quiet(up'))
        BY <1>1, <1>2, <1>4, UnreadLast
    <2> QED BY <1>1, <1>4, <2>1 DEF PromptInv, StatusIsOfThisCommand
<1>5. ASSUME NEW c \in Command, Issue(c) PROVE PromptInv'
    <2>1. Quiet(down') /\ Quiet(up')
        BY <1>1, <1>5 DEF Issue, lineVars
    <2> QED BY <1>3, <1>5, <2>1 DEF Issue, StatusIsOfThisCommand
<1>6. ASSUME NEW status \in LinkStates, Relink(status) PROVE PromptInv'
    <2>1. Quiet(down') /\ Quiet(up')
        BY <1>1, <1>2, <1>6, QuietFrames DEF Relink
    <2> QED BY <1>1, <1>3, <1>6, <2>1 DEF Relink, StatusIsOfThisCommand
<1>7. ASSUME NEW n \in 0..Len(up), CyclePoll(n) \/ CycleNoReply(n) PROVE PromptInv'
    BY <1>4, <1>7 DEF CyclePoll, CycleNoReply, hostVars
<1>8. ASSUME NEW n \in 0..Len(up), CycleSend(n) PROVE PromptInv'
    <2>1. Quiet(down) /\ Quiet(up) /\ pcmLssued \in Command
        BY <1>1, <1>8 DEF CycleSend, IInv, HostIInv
    <2>2. Quiet(Unread(n)) /\ Unread(n) \in Seq(Frame)
        BY <1>1, <1>2, <2>1, UnreadLast, LineFacts, UnreadFrames DEF Indexed
    <2>3. Quiet(up')
        BY <1>8, <2>2, QuietFrames DEF CycleSend
    <2>4. Quiet(Aged(down)) /\ Aged(down) \in Seq(Frame)
        BY <1>2, <2>1, QuietFrames, LineFacts, AgedFrames DEF Indexed
    <2>5. PICK f : f = [index |-> next_index(index_h_asw), age |-> 0, body |-> pcmLssued]
        OBVIOUS
    <2>6. sendIndex' = next_index(index_h_asw) /\ next_index(index_h_asw) \in Index
        BY <1>8, LineFacts, IndexArithmetic DEF CycleSend, Transmit
    <2>7. f \in Frame /\ f.body = pcmLssued /\ f.index = sendIndex'
        BY <2>1, <2>5, <2>6, LineFacts, IndexArithmetic DEF Frame, Index
    <2>8. LastIsThis(down', pcmLssued, sendIndex')
        <3>1. CASE down' = Append(Aged(down), f)
            BY <2>4, <2>7, <3>1, PutLast
        <3>2. CASE down' = Aged(down)
            BY <2>4, <3>2, QuietFrames
        <3> QED BY <1>8, <2>5, <3>1, <3>2 DEF CycleSend, Transmit
    <2>9. LastIsThis(up', pcmLssued, sendIndex')
        BY <2>3 DEF Quiet, LastIsThis
    <2> QED BY <1>8, <2>3, <2>8, <2>9 DEF CycleSend, PromptInv, StatusIsOfThisCommand
<1>9. ASSUME NEW n \in 0..Len(up), CycleTimeout(n) PROVE PromptInv'
    <2>1. Quiet(down') /\ Quiet(up')
        BY <1>1, <1>2, <1>9, UnreadLast DEF CycleTimeout
    <2> QED BY <1>3, <1>9, <2>1 DEF CycleTimeout, StatusIsOfThisCommand
<1>10. ASSUME NEW n \in 0..Len(up), NEW begun \in Begun(n), CycleMismatch(n, begun) PROVE PromptInv'
    BY <1>1, <1>2, <1>10, AcceptedLast DEF CycleMismatch
<1>11. ASSUME NEW n \in 0..Len(up), NEW begun \in Begun(n), CycleMatch(n, begun) PROVE PromptInv'
    <2>1. /\ Quiet(Unread(n)) /\ begun = "nothing" /\ ~ Quiet(up)
          /\ uart_get_body(n, "nothing") = pcmLssued
        BY <1>1, <1>2, <1>11, AcceptedLast DEF CycleMatch
    <2>2. pcmLssued \in Command
        BY <1>11 DEF CycleMatch, IInv, HostIInv
    <2>3. Quiet(down') /\ Quiet(up')
        BY <1>1, <1>11, <2>1 DEF CycleMatch
    <2>4. prmReply' = pcmLssued'
        BY <1>11, <2>1, <2>2 DEF CycleMatch
    <2> QED BY <1>3, <2>3, <2>4 DEF StatusIsOfThisCommand
<1>12. CASE PrmExecutes
    <2>1. down # <<>> /\ Head(down).body # Noise /\ down' = Tail(down)
        BY <1>12 DEF PrmExecutes, PrmTakes
    <2>2. /\ Quiet(down') /\ ~ Quiet(down)
          /\ Head(down).body = pcmLssued /\ Head(down).index = sendIndex
        BY <1>1, <1>2, <2>1, TakenLast
    <2>3. Head(down) \in Frame /\ [Head(down) EXCEPT !.body = Head(down).body] = Head(down)
        <3>1. Head(down) \in Frame
            BY <1>2, <2>1
        <3> QED BY <3>1 DEF Frame
    <2>4. cmdStatus = "CMD_RX" /\ timer # "fired" /\ Quiet(up)
        BY <1>1, <2>2
    <2>5. up' = Append(up, Head(down)) \/ up' = up
        BY <1>12, <2>3 DEF PrmExecutes, PrmReplies
    <2>6. LastIsThis(up', pcmLssued, sendIndex)
        BY <1>1, <1>2, <2>2, <2>3, <2>4, <2>5, PutLast
    <2>7. LastIsThis(down', pcmLssued, sendIndex)
        BY <2>2 DEF Quiet, LastIsThis
    <2> QED BY <1>1, <1>12, <2>2, <2>4, <2>6, <2>7 DEF PrmExecutes, hostVars, PromptInv, StatusIsOfThisCommand
<1>13. CASE PrmIgnores
    <2>1. LastIsThis(down', pcmLssued, sendIndex) /\ (Quiet(down) => Quiet(down'))
        BY <1>1, <1>2, <1>13, TakenLast DEF PrmIgnores, PrmTakes
    <2> QED BY <1>1, <1>13, <2>1 DEF PrmIgnores, hostVars, PromptInv, StatusIsOfThisCommand
<1>14. CASE LineDamages /\ UNCHANGED <<hostVars, timer, sent, runs>>
    <2>1. /\ LastIsThis(up', pcmLssued, sendIndex) /\ LastIsThis(down', pcmLssued, sendIndex)
          /\ (Quiet(up) => Quiet(up')) /\ (Quiet(down) => Quiet(down'))
        BY <1>1, <1>2, <1>14, DamagedLast DEF LineDamages
    <2> QED BY <1>1, <1>14, <2>1 DEF hostVars, PromptInv, StatusIsOfThisCommand
<1>15. CASE TimerFires
    <2>1. UNCHANGED <<lineVars, hostVars, sent, runs>> /\ LateTimer
        BY <1>15 DEF TimerFires
    <2>2. \A s \in {down, up} : \A i \in 1..Len(s) : s[i].body \in {Noise, Sample}
        BY <1>0, <2>1 DEF LateTimer
    <2>3. cmdStatus = "CMD_RX" => pcmLssued \notin {Sample}
        BY CommandAssumption DEF IInv, HostIInv
    <2>4. Quiet(down) /\ Quiet(up)
        BY <1>1, <2>2, <2>3 DEF LastIsThis, Quiet
    <2> QED BY <1>1, <1>3, <2>1, <2>4 DEF lineVars, hostVars, StatusIsOfThisCommand
<1>16. CASE UNCHANGED vars
    <2>1. UNCHANGED <<down, up, cmdStatus, pcmLssued, sendIndex, prmReply, timer, sent>>
        BY <1>16 DEF vars, lineVars, hostVars
    <2> QED BY <1>1, <2>1 DEF PromptInv, StatusIsOfThisCommand
<1> QED BY <1>0, <1>5, <1>6, <1>7, <1>8, <1>9, <1>10, <1>11, <1>12, <1>13, <1>14, <1>15, <1>16
        DEF Next, Step, Cycle

\* With a prompt PRM that sends no samples meanwhile, the status returned after
\* a success is that of the reply to the command issued last, also on a line
\* that loses and damages frames: GetPrmReplyStatus reads the wrong reply only
\* when the PRM is late or frames that answer nothing come in between.
THEOREM PromptReplyIsOfThisCommand == Spec => [](Prompt /\ ~Sampling => StatusIsOfThisCommand)
<1>1. Init => PromptInv
    BY DEF Init, LineInit, PromptInv, Quiet, LastIsThis, StatusIsOfThisCommand
<1>2. PromptInv => (Prompt /\ ~Sampling => StatusIsOfThisCommand)
    BY DEF PromptInv
<1> QED BY <1>1, <1>2, InitIInv, NextIInv, PromptStep, PTL DEF Spec
=============================================================================
