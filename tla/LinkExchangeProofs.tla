------------------------- MODULE LinkExchangeProofs -------------------------
(***************************************************************************)
(* Linking, for any parameters of the host and of the PRM, any range of    *)
(* indices and any line: the types and bounds of the counters; and, when   *)
(* the PRM answers within the timeout, that a link reported made is one,   *)
(* whatever the line loses, damages or repeats and the PRM refuses.        *)
(***************************************************************************)
EXTENDS LinkExchange, SequenceTheorems, TLAPS

Frame(Body) == [index : (FirstIndex..LastIndex) \cup {NoIndex}, age : 0..Window, body : Body]

DownFrame == Frame(Request \cup {Noise})
UpFrame == Frame(Reply \cup {Noise, Sample})

LineTypeOK ==
    /\ index_h_asw \in FirstIndex..LastIndex
    /\ down \in Seq(DownFrame) /\ up \in Seq(UpFrame)

\* While it links, the host has timeouts left and waits only for what it has
\* asked; it rewrites a block that there is.
HostOK ==
    /\ caller = "cycle" =>
          /\ cmdStatus \in {"CMD_TX", "CMD_RX"} /\ linkStatus \notin {"LINK_UNLINK", "LINK_IDLE"}
          /\ sendCnt < MAX_LINK_CMD_LUSSED_CNT
    /\ caller = "cycle" /\ cmdStatus = "CMD_RX" => ~ NothingToSend
    /\ linkStatus = "LINK_MDY_PRM" => block <= BlockNum

TypeInv == TypeOK /\ LineTypeOK /\ HostOK

-----------------------------------------------------------------------------
(* The frames under way.                                                   *)

\* What is under way in a direction, but for noise and samples.
Alive(f) == f.body \notin {Noise, Sample}
Live(s) == {s[k].body : k \in {j \in 1..Len(s) : Alive(s[j])}}
Single(s) == \A j, k \in 1..Len(s) : Alive(s[j]) /\ Alive(s[k]) => j = k

\* t is what s was, without some of its frames or with some of them damaged.
Fewer(t, s) == Live(t) \subseteq Live(s) /\ (Single(s) => Single(t))

LEMMA Constants ==
    /\ BlockNum \in Nat \ {0} /\ \A b \in 1..BlockNum : HostPrm[b] \in Block
    /\ FirstIndex \in Nat /\ LastIndex \in Nat /\ FirstIndex <= LastIndex /\ Window \in Nat \ {0}
    /\ MAX_KEEP_LIVE_TIME \in Nat /\ LineCap \in Nat \ {0}
<1>1. FirstIndex \in Nat /\ LastIndex \in Nat /\ FirstIndex <= LastIndex /\ Window \in Nat \ {0}
    BY IndexAssumption DEF IndexNum
<1>2. BlockNum \in Nat \ {0} /\ \A b \in 1..BlockNum : HostPrm[b] \in Block
    BY HostPrmAssumption DEF BlockNum
<1> QED BY <1>1, <1>2, KeepLiveAssumption, LineAssumption

\* The fields of a frame that has been damaged or answered.
LEMMA OtherBody ==
    ASSUME NEW A, NEW B, NEW f \in Frame(A), NEW body \in B
    PROVE  [f EXCEPT !.body = body] \in Frame(B) /\ [f EXCEPT !.body = body].body = body
BY DEF Frame

LEMMA TakenFrames ==
    ASSUME NEW F, NEW s \in Seq(F), s # <<>>
    PROVE  /\ Tail(s) \in Seq(F) /\ Head(s) \in F /\ Head(s) = s[1] /\ 1 \in 1..Len(s)
           /\ Fewer(Tail(s), s)
           /\ Alive(Head(s)) => Head(s).body \in Live(s) /\ (Single(s) => Live(Tail(s)) = {})
<1>1. /\ Tail(s) \in Seq(F) /\ Len(Tail(s)) = Len(s) - 1 /\ Len(s) \in Nat \ {0}
      /\ \A k \in 1..Len(Tail(s)) : Tail(s)[k] = s[k + 1] /\ k + 1 \in 1..Len(s) /\ k + 1 # 1
      BY HeadTailProperties
<1>2. Head(s) \in F /\ Head(s) = s[1] /\ 1 \in 1..Len(s)
      BY <1>1, HeadTailProperties
<1>3. Fewer(Tail(s), s)
  <2>1. Live(Tail(s)) \subseteq Live(s)
        BY <1>1 DEF Live
  <2>2. Single(s) => Single(Tail(s))
        BY <1>1 DEF Single
  <2> QED BY <2>1, <2>2 DEF Fewer
<1>4. Alive(Head(s)) => Head(s).body \in Live(s) /\ (Single(s) => Live(Tail(s)) = {})
      BY <1>1, <1>2 DEF Live, Single
<1> QED BY <1>1, <1>2, <1>3, <1>4

LEMMA UnreadFrames ==
    ASSUME NEW F, up \in Seq(F), NEW n \in 0..Len(up)
    PROVE  /\ Unread(n) \in Seq(F) /\ Len(up) \in Nat
           /\ Fewer(Unread(n), up)
           /\ ReplyAccepted(n) => Live(up) # {} /\ (Single(up) => Live(Unread(n)) = {})
<1>1. /\ Unread(n) \in Seq(F) /\ Len(Unread(n)) = Len(up) - n /\ Len(up) \in Nat
      /\ \A k \in 1..Len(Unread(n)) : Unread(n)[k] = up[n + k] /\ n + k \in 1..Len(up) /\ n + k > n
      BY DEF Unread
<1>2. Fewer(Unread(n), up)
  <2>1. Live(Unread(n)) \subseteq Live(up)
        BY <1>1 DEF Live
  <2>2. Single(up) => Single(Unread(n))
        BY <1>1 DEF Single
  <2> QED BY <2>1, <2>2 DEF Fewer
<1>3. ASSUME ReplyAccepted(n) PROVE Live(up) # {} /\ (Single(up) => Live(Unread(n)) = {})
  <2>1. PICK i \in 1..n : Alive(up[i])
        BY <1>3 DEF ReplyAccepted, Alive
  <2>2. i \in 1..Len(up) /\ i <= n
        BY <1>1
  <2>3. ASSUME Single(up), NEW k \in 1..Len(Unread(n)) PROVE ~ Alive(Unread(n)[k])
    <3>1. Unread(n)[k] = up[n + k] /\ n + k \in 1..Len(up) /\ n + k # i
          BY <1>1, <2>2
    <3> QED BY <2>1, <2>2, <2>3, <3>1 DEF Single
  <2> QED BY <2>1, <2>2, <2>3 DEF Live
<1> QED BY <1>1, <1>2, <1>3

LEMMA PutFrames ==
    ASSUME NEW F, NEW s \in Seq(F), NEW f \in F
    PROVE  /\ Append(s, f) \in Seq(F)
           /\ ~ Alive(f) => Fewer(Append(s, f), s)
           /\ Live(s) = {} => Single(Append(s, f)) /\ Live(Append(s, f)) \subseteq {f.body}
<1>1. /\ Append(s, f) \in Seq(F) /\ Len(Append(s, f)) = Len(s) + 1 /\ Len(s) \in Nat
      /\ \A k \in 1..Len(s) + 1 : Append(s, f)[k] = IF k = Len(s) + 1 THEN f ELSE s[k]
      BY AppendProperties
<1>2. \A k \in 1..Len(s) + 1 : k # Len(s) + 1 => k \in 1..Len(s)
      BY <1>1
<1>3. ~ Alive(f) => Fewer(Append(s, f), s)
  <2>1. ~ Alive(f) => Live(Append(s, f)) \subseteq Live(s)
        BY <1>1, <1>2 DEF Live
  <2>2. ~ Alive(f) => (Single(s) => Single(Append(s, f)))
        BY <1>1, <1>2 DEF Single
  <2> QED BY <2>1, <2>2 DEF Fewer
<1>4. ASSUME Live(s) = {} PROVE Single(Append(s, f)) /\ Live(Append(s, f)) \subseteq {f.body}
  <2>1. \A k \in 1..Len(s) : ~ Alive(s[k])
        BY <1>4 DEF Live
  <2>2. \A k \in 1..Len(s) + 1 : Alive(Append(s, f)[k]) => k = Len(s) + 1 /\ Append(s, f)[k] = f
        BY <1>1, <1>2, <2>1
  <2> QED BY <1>1, <2>2 DEF Single, Live
<1> QED BY <1>1, <1>3, <1>4

LEMMA DamagedFrames ==
    ASSUME NEW B, Noise \in B, NEW s \in Seq(Frame(B)), NEW j \in 1..Len(s)
    PROVE  /\ [s EXCEPT ![j].body = Noise] \in Seq(Frame(B))
           /\ Fewer([s EXCEPT ![j].body = Noise], s)
<1> DEFINE t == [s EXCEPT ![j].body = Noise]
<1>1. s[j] \in Frame(B) /\ Len(s) \in Nat
      OBVIOUS
<1> DEFINE f == [s[j] EXCEPT !.body = Noise]
<1>2. f \in Frame(B) /\ f.body = Noise
      BY <1>1, OtherBody
<1>3. t = [s EXCEPT ![j] = f]
      OBVIOUS
<1> HIDE DEF f, t
<1>4. /\ t \in Seq(Frame(B)) /\ Len(t) = Len(s)
      /\ \A k \in 1..Len(s) : t[k] = IF k = j THEN f ELSE s[k]
      BY <1>1, <1>2, <1>3
<1>5. ~ Alive(f)
      BY <1>2 DEF Alive
<1>6. Live(t) \subseteq Live(s)
      BY <1>4, <1>5 DEF Live
<1>7. Single(s) => Single(t)
      BY <1>4, <1>5 DEF Single
<1> QED BY <1>4, <1>6, <1>7 DEF Fewer, t

LEMMA AgedFrames ==
    ASSUME NEW B, Noise \in B, NEW s \in Seq(Frame(B))
    PROVE  Aged(s) \in Seq(Frame(B)) /\ Fewer(Aged(s), s)
<1>1. Forgotten \in Frame(B) /\ ~ Alive(Forgotten)
      BY Constants DEF Forgotten, Frame, Alive
<1>2. ASSUME NEW f \in Frame(B)
      PROVE  Older(f) \in Frame(B) /\ (Alive(Older(f)) => Alive(f) /\ Older(f).body = f.body)
  <2>1. CASE f.index = NoIndex
        BY <2>1 DEF Older
  <2>2. CASE f.index # NoIndex /\ f.age + 1 < Window
    <3>1. Older(f) = [f EXCEPT !.age = f.age + 1] /\ f.age + 1 \in 0..Window
          BY <2>2, Constants DEF Older, Frame
    <3> QED BY <3>1 DEF Frame, Alive
  <2>3. CASE f.index # NoIndex /\ ~ (f.age + 1 < Window)
        BY <1>1, <2>3 DEF Older
  <2> QED BY <2>1, <2>2, <2>3
<1>3. /\ Len(s) \in Nat /\ \A k \in 1..Len(s) : s[k] \in Frame(B)
      /\ Len(Aged(s)) = Len(s) /\ \A k \in 1..Len(s) : Aged(s)[k] = Older(s[k])
      BY DEF Aged
<1>4. Aged(s) \in Seq(Frame(B))
      BY <1>2, <1>3 DEF Aged
<1>5. Live(Aged(s)) \subseteq Live(s)
      BY <1>2, <1>3 DEF Live
<1>6. Single(s) => Single(Aged(s))
      BY <1>2, <1>3 DEF Single
<1> QED BY <1>4, <1>5, <1>6 DEF Fewer

-----------------------------------------------------------------------------
(* Types and bounds.                                                       *)

LEMMA InitTypeInv == Init => TypeInv
<1> SUFFICES ASSUME Init PROVE TypeInv
    OBVIOUS
<1>1. index_h_asw \in FirstIndex..LastIndex /\ block \in 1..BlockNum+1 /\ keepLive \in 0..MAX_KEEP_LIVE_TIME+1
    BY Constants DEF Init, LineInit
<1>2. prmMem \in [1..BlockNum -> Block] /\ samples \in {"ON", "OFF"} /\ silenced \in BOOLEAN
    BY DEF Init
<1>3. /\ linkStatus \in LinkStates /\ cmdStatus \in {"CMD_IDLE", "CMD_TX", "CMD_RX", "CMD_UNLINK"}
      /\ sendCnt \in 0..MAX_LINK_CMD_LUSSED_CNT /\ mdyCnt \in 0..LSSUED_PARA_TRY_CNT-1
      /\ timer \in {"stopped", "running", "fired"} /\ general \in {"stopped", "running", "fired"}
      /\ caller \in {"away", "cycle", "returned"}
    BY DEF Init, LinkStates, MAX_LINK_CMD_LUSSED_CNT, LSSUED_PARA_TRY_CNT
<1>4. LineTypeOK /\ HostOK
    BY <1>1 DEF LineTypeOK, HostOK, Init, LineInit
<1> QED BY <1>1, <1>2, <1>3, <1>4 DEF TypeInv, TypeOK

\* What the host asks for is a request.
LEMMA RequestTyped ==
    ASSUME TypeInv, caller = "cycle", ~ NothingToSend
    PROVE  LinkRequest \in Request
<1>1. block \in 1..BlockNum + 1 /\ linkStatus \in LinkStates \ {"LINK_UNLINK", "LINK_IDLE", "LINK_SUCCESS"}
    BY DEF TypeInv, TypeOK, HostOK, NothingToSend
<1>2. linkStatus \in {"LINK_CHECK_PRM", "LINK_MDY_PRM"} => block \in 1..BlockNum
    BY <1>1, Constants DEF TypeInv, HostOK, NothingToSend
<1> QED BY <1>1, <1>2, Constants DEF LinkRequest, Request, LinkStates

LEMMA FirstStatus == ASSUME TypeInv, link_init PROVE
    /\ linkStatus' = "LINK_SEND_STOP" /\ cmdStatus' = "CMD_TX" /\ sendCnt' = 0 /\ mdyCnt' = 0
    /\ silenced' \in BOOLEAN
BY DEF link_init

LEMMA RelinkTyped ==
    ASSUME TypeInv, RelinkPRM, LineTypeOK', keepLive' \in 0..MAX_KEEP_LIVE_TIME+1
    PROVE  TypeInv'
<1>1. linkStatus' = "LINK_SEND_STOP" /\ cmdStatus' = "CMD_TX" /\ sendCnt' = 0 /\ mdyCnt' = 0
      /\ silenced' \in BOOLEAN /\ general' = "running" /\ caller' \in {"away", "cycle"}
      /\ UNCHANGED <<block, timer, prmMem, samples>>
    BY FirstStatus DEF RelinkPRM
<1>2. TypeOK'
    BY <1>1 DEF TypeInv, TypeOK, LineTypeOK, LinkStates, MAX_LINK_CMD_LUSSED_CNT, LSSUED_PARA_TRY_CNT
<1>3. HostOK'
    BY <1>1 DEF HostOK, MAX_LINK_CMD_LUSSED_CNT
<1> QED BY <1>2, <1>3 DEF TypeInv

\* Reading frames leaves a line.
LEMMA ReadTyped ==
    ASSUME TypeInv, NEW n \in 0..Len(up)
    PROVE  Unread(n) \in Seq(UpFrame) /\ Aged(Unread(n)) \in Seq(UpFrame)
<1>1. Unread(n) \in Seq(UpFrame)
    BY UnreadFrames DEF TypeInv, LineTypeOK
<1> QED BY <1>1, AgedFrames DEF UpFrame

LEMMA SendTyped == ASSUME TypeInv, NEW n \in 0..Len(up), LinkSend(n) PROVE LineTypeOK'
<1>1. index_h_asw' = next_index(index_h_asw) /\ index_h_asw' \in FirstIndex..LastIndex
    BY Constants DEF LinkSend, Transmit, next_index, TypeInv, TypeOK
<1>2. Aged(down) \in Seq(DownFrame)
    BY AgedFrames DEF TypeInv, LineTypeOK, DownFrame
<1>3. [index |-> next_index(index_h_asw), age |-> 0, body |-> LinkRequest] \in DownFrame
    BY <1>1, RequestTyped, Constants DEF LinkSend, DownFrame, Frame
<1>4. down' \in Seq(DownFrame)
    BY <1>2, <1>3, PutFrames DEF LinkSend, Transmit
<1> QED BY <1>1, <1>4, ReadTyped DEF LinkSend, LineTypeOK

\* The types of what the host keeps about its exchange.
HostTypes ==
    /\ linkStatus \in LinkStates
    /\ cmdStatus \in {"CMD_IDLE", "CMD_TX", "CMD_RX", "CMD_UNLINK"}
    /\ sendCnt \in 0..MAX_LINK_CMD_LUSSED_CNT /\ mdyCnt \in 0..LSSUED_PARA_TRY_CNT-1
    /\ block \in 1..BlockNum+1
    /\ timer \in {"stopped", "running", "fired"} /\ general \in {"stopped", "running", "fired"}
    /\ caller \in {"away", "cycle", "returned"}

PrmTypes == prmMem \in [1..BlockNum -> Block] /\ samples \in {"ON", "OFF"} /\ silenced \in BOOLEAN

LEMMA TypeParts ==
    TypeInv <=> HostTypes /\ PrmTypes /\ LineTypeOK /\ HostOK /\ keepLive \in 0..MAX_KEEP_LIVE_TIME+1
BY DEF TypeInv, TypeOK, HostTypes, PrmTypes, LineTypeOK

LEMMA TypesTogether ==
    ASSUME HostTypes', PrmTypes', LineTypeOK', HostOK', (keepLive \in 0..MAX_KEEP_LIVE_TIME+1)'
    PROVE  TypeInv'
BY DEF TypeInv, TypeOK, HostTypes, PrmTypes, LineTypeOK

\* The steps that leave the host, or the PRM, alone.
LEMMA HostSame ==
    ASSUME TypeInv, UNCHANGED <<linkVars, timer, general, caller>> PROVE HostTypes' /\ HostOK'
BY TypeParts DEF HostTypes, HostOK, NothingToSend, linkVars

LEMMA PrmSame == ASSUME TypeInv, UNCHANGED prmVars PROVE PrmTypes'
BY TypeParts DEF PrmTypes, prmVars

LEMMA TurnTyped == ASSUME TypeInv, NEW n \in 0..Len(up), Turn(n) PROVE TypeInv'
<1> DEFINE reads == IF linkStatus = "LINK_UNLINK" THEN 0 ELSE n
           count == IF SampleRead(reads) THEN 0 ELSE keepLive
<1>1. reads \in 0..Len(up) /\ count \in 0..MAX_KEEP_LIVE_TIME+1
    <2>1. Len(up) \in Nat
        BY UnreadFrames DEF TypeInv, LineTypeOK
    <2> QED BY <2>1, Constants DEF TypeInv, TypeOK
<1>2. /\ up' = Unread(reads) /\ UNCHANGED <<index_h_asw, down>>
      /\ IF count > MAX_KEEP_LIVE_TIME
         THEN RelinkPRM /\ keepLive' = 0
         ELSE keepLive' = count + 1 /\ UNCHANGED <<linkVars, timer, general, caller, prmVars>>
    BY DEF Turn
<1> HIDE DEF reads, count
<1>3. LineTypeOK'
    BY <1>1, <1>2, ReadTyped DEF LineTypeOK, TypeInv
<1>4. CASE count > MAX_KEEP_LIVE_TIME
    BY <1>2, <1>3, <1>4, RelinkTyped, Constants
<1>5. CASE ~ (count > MAX_KEEP_LIVE_TIME)
    <2>1. keepLive' \in 0..MAX_KEEP_LIVE_TIME+1
        BY <1>1, <1>2, <1>5, Constants
    <2> QED BY <1>2, <1>3, <1>5, <2>1, HostSame, PrmSame, TypeParts, TypesTogether
<1> QED BY <1>4, <1>5

\* The foreground outside link_cycle.
LEMMA AwayTyped ==
    ASSUME TypeInv, Relink \/ RelinkIdle \/ RelinkGivesUp \/ RelinkRetries PROVE TypeInv'
<1>1. LineTypeOK' /\ keepLive' \in 0..MAX_KEEP_LIVE_TIME+1
    BY TypeParts DEF LineTypeOK, lineVars, Relink, RelinkIdle, RelinkGivesUp, RelinkRetries
<1>2. CASE Relink
    BY <1>1, <1>2, RelinkTyped DEF Relink
<1>3. CASE RelinkIdle \/ RelinkGivesUp
    <2>1. /\ UNCHANGED <<linkVars, timer, prmVars>> /\ caller' = "away" /\ general' \in {general, "stopped"}
        BY <1>3 DEF RelinkIdle, RelinkGivesUp
    <2>2. HostTypes' /\ HostOK'
        BY <2>1, TypeParts DEF HostTypes, HostOK, linkVars
    <2> QED BY <1>1, <2>1, <2>2, PrmSame, TypeParts, TypesTogether
<1>4. CASE RelinkRetries
    <2>1. /\ linkStatus' = "LINK_SEND_STOP" /\ cmdStatus' = "CMD_TX" /\ sendCnt' = 0 /\ mdyCnt' = 0
          /\ silenced' \in BOOLEAN /\ caller' = "cycle" /\ UNCHANGED <<block, timer, general, prmMem, samples>>
        BY <1>4, FirstStatus DEF RelinkRetries
    <2>2. HostTypes' /\ HostOK'
        BY <2>1, TypeParts DEF HostTypes, HostOK, LinkStates, MAX_LINK_CMD_LUSSED_CNT, LSSUED_PARA_TRY_CNT
    <2>3. PrmTypes'
        BY <2>1, TypeParts DEF PrmTypes
    <2> QED BY <1>1, <2>2, <2>3, TypeParts, TypesTogether
<1> QED BY <1>2, <1>3, <1>4

\* link_cycle where it does not look at a reply.
LEMMA CycleTyped ==
    ASSUME TypeInv, NEW n \in 0..Len(up),
           \/ LinkSend(n) \/ LinkMoveOn(n) \/ LinkTimeout(n) \/ LinkNoReply(n)
           \/ \E begun \in Begun(n) : LinkMismatch(n, begun)
    PROVE  TypeInv'
<1>1. LineTypeOK'
    <2>1. CASE LinkSend(n)
        BY <2>1, SendTyped
    <2>2. CASE ~ LinkSend(n)
        BY <2>2, ReadTyped DEF LinkMoveOn, LinkTimeout, LinkNoReply, LinkMismatch, LineTypeOK, TypeInv
    <2> QED BY <2>1, <2>2
<1>2. UNCHANGED <<prmVars, keepLive>>
    BY DEF LinkSend, LinkMoveOn, LinkTimeout, LinkNoReply, LinkMismatch
<1>3. HostTypes' /\ HostOK'
    <2>1. CASE LinkSend(n)
        BY <2>1, TypeParts DEF LinkSend, HostTypes, HostOK, NothingToSend
    <2>2. CASE LinkMoveOn(n)
        BY <2>2, TypeParts DEF LinkMoveOn, HostTypes, HostOK, NothingToSend, Returned, LinkStates
    <2>3. CASE LinkTimeout(n)
        BY <2>3, TypeParts DEF LinkTimeout, HostTypes, HostOK, NothingToSend, Returned, LinkStates,
                               MAX_LINK_CMD_LUSSED_CNT
    <2>4. CASE LinkNoReply(n)
        BY <2>4, HostSame DEF LinkNoReply
    <2>5. CASE \E begun \in Begun(n) : LinkMismatch(n, begun)
        BY <2>5, TypeParts DEF LinkMismatch, HostTypes, HostOK, NothingToSend
    <2> QED BY <2>1, <2>2, <2>3, <2>4, <2>5
<1> QED BY <1>1, <1>2, <1>3, PrmSame, TypeParts, TypesTogether

\* The step from one status to the next.
LEMMA ReplyTyped ==
    ASSUME TypeInv, caller = "cycle", cmdStatus = "CMD_RX", NEW body,
           \/ \E ok \in StatusOK(body) : LinkStopReply(ok) \/ LinkSignOnReply(ok) \/ LinkMdyReply(ok)
           \/ LinkCheckReply(body)
           \/ LinkStartReply
    PROVE  /\ linkStatus' \in LinkStates \ {"LINK_IDLE"} /\ mdyCnt' \in 0..LSSUED_PARA_TRY_CNT-1
           /\ block' \in 1..BlockNum+1
           /\ linkStatus' = "LINK_MDY_PRM" => block' <= BlockNum
<1> USE TypeParts DEF HostTypes, LSSUED_PARA_TRY_CNT, LinkStates
<1>1. CASE \E ok \in StatusOK(body) : LinkStopReply(ok) \/ LinkSignOnReply(ok)
    BY <1>1, Constants DEF LinkStopReply, LinkSignOnReply
<1>2. CASE \E ok \in StatusOK(body) : LinkMdyReply(ok)
    BY <1>2, Constants DEF LinkMdyReply, HostOK
<1>3. CASE LinkCheckReply(body)
    BY <1>3, Constants DEF LinkCheckReply, HostOK, NothingToSend
<1>4. CASE LinkStartReply
    BY <1>4 DEF LinkStartReply
<1> QED BY <1>1, <1>2, <1>3, <1>4

LEMMA MatchTyped ==
    ASSUME TypeInv, NEW n \in 0..Len(up), NEW begun \in Begun(n), LinkMatch(n, begun) PROVE TypeInv'
<1>1. LineTypeOK' /\ UNCHANGED <<prmVars, keepLive>>
    BY ReadTyped DEF LinkMatch, LineTypeOK, TypeInv
<1>2. /\ linkStatus' \in LinkStates \ {"LINK_IDLE"} /\ mdyCnt' \in 0..LSSUED_PARA_TRY_CNT-1
      /\ block' \in 1..BlockNum+1
      /\ linkStatus' = "LINK_MDY_PRM" => block' <= BlockNum
    BY ReplyTyped DEF LinkMatch
<1>3. /\ caller = "cycle" /\ cmdStatus' = "CMD_TX" /\ caller' = Returned(linkStatus')
      /\ UNCHANGED <<sendCnt, timer, general>>
    BY DEF LinkMatch
<1>4. HostTypes' /\ HostOK'
    BY <1>2, <1>3, TypeParts DEF HostTypes, HostOK, Returned
<1> QED BY <1>1, <1>4, PrmSame, TypeParts, TypesTogether

\* The fields of a request, and what the PRM may reply to it.
LEMMA RequestFields ==
    ASSUME NEW r \in Request
    PROVE  /\ r \notin {Noise, Sample}
           /\ r[1] = "CHECK_PRM" \/ r[1] \in Refusable
           /\ r[2] \in 0..BlockNum
           /\ r[1] \in {"CHECK_PRM", "MDY_PRM"} => r[2] \in 1..BlockNum
           /\ r[1] = "MDY_PRM" => r[3] \in Block
<1>1. r \notin {Noise, Sample}
    BY BodyAssumption
<1>2. CASE r \in {"SEND_STOP", "SIGN_ON", "SEND_START"} \X {0} \X {""}
    <2>1. r[1] \in {"SEND_STOP", "SIGN_ON", "SEND_START"} /\ r[2] = 0
        BY <1>2
    <2> QED BY <1>1, <2>1, Constants DEF Refusable
<1>3. CASE r \in {"CHECK_PRM"} \X (1..BlockNum) \X {""}
    <2>1. r[1] = "CHECK_PRM" /\ r[2] \in 1..BlockNum
        BY <1>3
    <2> QED BY <1>1, <2>1, Constants
<1>4. CASE r \in {"MDY_PRM"} \X (1..BlockNum) \X Block
    BY <1>1, <1>4, Constants DEF Refusable
<1> QED BY <1>2, <1>3, <1>4 DEF Request

LEMMA ReplyFields ==
    ASSUME NEW r \in Request, NEW memory \in [1..BlockNum -> Block]
    PROVE  /\ <<r[1], r[2], IF r[1] = "CHECK_PRM" THEN memory[r[2]] ELSE "ok">> \in Reply
           /\ r[1] \in Refuses => <<r[1], r[2], "refused">> \in Reply
<1>1. CASE r[1] = "CHECK_PRM"
    BY <1>1, RequestFields, RefusesAssumption DEF Reply, Refusable
<1>2. CASE r[1] # "CHECK_PRM"
    BY <1>2, RequestFields, RefusesAssumption DEF Reply
<1> QED BY <1>1, <1>2

\* The reply the PRM puts on the line.
LEMMA ReplyFrame ==
    ASSUME TypeInv, down # <<>>, NEW reply \in Reply
    PROVE  /\ [Head(down) EXCEPT !.body = reply] \in UpFrame
           /\ [Head(down) EXCEPT !.body = reply].body = reply
<1>1. Head(down) \in Frame(Request \cup {Noise})
    BY TakenFrames DEF TypeInv, LineTypeOK, DownFrame
<1>2. reply \in Reply \cup {Noise, Sample}
    OBVIOUS
<1> QED BY <1>1, <1>2, OtherBody DEF UpFrame

LEMMA HandlesTyped == ASSUME TypeInv, PrmHandles PROVE TypeInv'
<1>1. /\ down # <<>> /\ down' = Tail(down) /\ Head(down).body # Noise
      /\ UNCHANGED <<index_h_asw, linkVars, timer, general, caller, keepLive>>
    BY DEF PrmHandles, PrmTakes
<1>2. down' \in Seq(DownFrame) /\ Head(down) \in DownFrame
    BY <1>1, TakenFrames DEF TypeInv, LineTypeOK
<1>3. PICK r \in Request : r = Head(down).body
    BY <1>1, <1>2 DEF DownFrame, Frame
<1>4. PICK reply \in Reply : PrmReplies(reply)
    <2>1. prmMem \in [1..BlockNum -> Block]
        BY DEF TypeInv, TypeOK
    <2> QED BY <1>3, <2>1, ReplyFields DEF PrmHandles
<1>5. up' \in Seq(UpFrame)
    <2>1. up' = up \/ up' = Append(up, [Head(down) EXCEPT !.body = reply])
        BY <1>4 DEF PrmReplies
    <2> QED BY <1>1, <2>1, ReplyFrame, PutFrames DEF TypeInv, LineTypeOK
<1>6. PrmTypes'
    <2>1. /\ prmMem' \in {prmMem, IF r[1] = "MDY_PRM" THEN [prmMem EXCEPT ![r[2]] = r[3]] ELSE prmMem}
          /\ samples' \in {"ON", "OFF", samples}
          /\ silenced' \in {silenced, silenced \/ r[1] = "SEND_START"}
        BY <1>3 DEF PrmHandles
    <2>2. prmMem' \in [1..BlockNum -> Block]
        BY <2>1, RequestFields, TypeParts DEF PrmTypes
    <2> QED BY <2>1, <2>2, TypeParts DEF PrmTypes
<1> QED BY <1>1, <1>2, <1>5, <1>6, HostSame, TypeParts, TypesTogether DEF LineTypeOK

\* The line, and what else happens to the PRM and the timers.
LEMMA OutsideTyped ==
    ASSUME TypeInv, PrmIgnores \/ PrmRestarts \/ Samples \/ Damages \/ TimerFires \/ GeneralTimerFires
    PROVE  TypeInv'
<1>1. HostTypes' /\ HostOK'
    <2>1. CASE TimerFires \/ GeneralTimerFires
        BY <2>1, TypeParts DEF TimerFires, GeneralTimerFires, HostTypes, HostOK, NothingToSend, linkVars
    <2>2. CASE PrmIgnores \/ PrmRestarts \/ Samples \/ Damages
        BY <2>2, HostSame DEF PrmIgnores, PrmRestarts, Samples, Damages
    <2> QED BY <2>1, <2>2
<1>2. PrmTypes' /\ keepLive' = keepLive
    <2>1. CASE PrmRestarts
        BY <2>1, TypeParts DEF PrmRestarts, PrmTypes
    <2>2. CASE ~ PrmRestarts
        BY <2>2, PrmSame DEF PrmIgnores, Samples, Damages, TimerFires, GeneralTimerFires
    <2> QED BY <2>1, <2>2
<1>3. LineTypeOK'
    <2> USE DEF TypeInv, LineTypeOK
    <2>1. CASE PrmIgnores
        BY <2>1, TakenFrames DEF PrmIgnores, PrmTakes
    <2>2. CASE PrmRestarts
        BY <2>2 DEF PrmRestarts
    <2>3. CASE Samples
        <3>1. [index |-> NoIndex, age |-> 0, body |-> Sample] \in UpFrame
            BY Constants DEF UpFrame, Frame
        <3> QED BY <2>3, <3>1, PutFrames DEF Samples, PrmSamples
    <2>4. CASE Damages
        BY <2>4, DamagedFrames, SMTT(30) DEF Damages, LineDamages, UpFrame, DownFrame
    <2>5. CASE TimerFires \/ GeneralTimerFires
        BY <2>5 DEF TimerFires, GeneralTimerFires, lineVars
    <2> QED BY <2>1, <2>2, <2>3, <2>4, <2>5
<1> QED BY <1>1, <1>2, <1>3, TypeParts, TypesTogether

LEMMA SameTyped == ASSUME TypeInv, UNCHANGED vars PROVE TypeInv'
<1>1. LineTypeOK' /\ keepLive' = keepLive
    BY DEF vars, lineVars, LineTypeOK, TypeInv
<1> QED BY <1>1, HostSame, PrmSame, TypeParts, TypesTogether DEF vars

LEMMA NextTypeInv == ASSUME TypeInv, [Next]_vars PROVE TypeInv'
<1>1. CASE UNCHANGED vars
    BY <1>1, SameTyped
<1>2. CASE Relink \/ RelinkIdle \/ RelinkGivesUp \/ RelinkRetries
    BY <1>2, AwayTyped
<1>3. CASE LinkCycle
    BY <1>3, CycleTyped, MatchTyped DEF LinkCycle
<1>4. CASE \E n \in 0..Len(up) : Turn(n)
    BY <1>4, TurnTyped
<1>5. CASE PrmHandles
    BY <1>5, HandlesTyped
<1>6. CASE PrmIgnores \/ PrmRestarts \/ Samples \/ Damages \/ TimerFires \/ GeneralTimerFires
    BY <1>6, OutsideTyped
<1> QED BY <1>1, <1>2, <1>3, <1>4, <1>5, <1>6 DEF Next, Step

\* Every variable has its type on every line and with every PRM; in particular
\* the attempts, the refusals and the turns without a sample stay within their
\* bounds, and the block checked is never beyond the one after the last.
THEOREM LinkTypeCorrect == Spec => []TypeOK
<1>1. TypeInv => TypeOK
    BY DEF TypeInv
<1> QED BY InitTypeInv, NextTypeInv, <1>1, PTL DEF Spec

-----------------------------------------------------------------------------
(* What the host knows of the PRM.                                         *)

\* The PRM is one that answers within the timeout.
AllPrompt == \A w \in Worlds : w.prompt

Waiting == caller = "cycle" /\ cmdStatus = "CMD_RX" /\ timer # "fired"

\* A reply to the request the host waits for, which still says what is so.
RepliesToLast(body) ==
    /\ body[1] = LinkRequest[1]
    /\ body[1] = "CHECK_PRM" => body[3] = prmMem[block]
    /\ body[1] = "SEND_START" => samples = "ON" \/ silenced

\* At most one request or reply is under way, the one the host waits for.
LineInv ==
    /\ Single(down) /\ Single(up)
    /\ Live(down) # {} => Live(up) = {} /\ Waiting /\ Live(down) \subseteq {LinkRequest}
    /\ Live(up) # {} => Waiting /\ \A body \in Live(up) : RepliesToLast(body)

\* What has been checked is so, all of it when the host goes on to start the
\* samples, and these run once that is done.
KnownInv ==
    /\ CheckedStaysEqual
    /\ linkStatus \in {"LINK_SEND_START", "LINK_SUCCESS"} => block = BlockNum + 1
    /\ linkStatus = "LINK_SUCCESS" => samples = "ON" \/ silenced

SoundInv == Prompt /\ LineInv /\ KnownInv

LEMMA InitSoundInv == AllPrompt /\ Init => SoundInv
<1> SUFFICES ASSUME AllPrompt, Init PROVE SoundInv
    OBVIOUS
<1>1. Prompt
    BY DEF AllPrompt, Init, LineInit, Prompt
<1>2. down = <<>> /\ up = <<>> /\ linkStatus = "LINK_UNLINK"
    BY DEF Init, LineInit
<1>3. Single(<<>>) /\ Live(<<>>) = {}
    BY DEF Single, Live
<1>4. LineInv
    BY <1>2, <1>3 DEF LineInv
<1>5. KnownInv
    BY <1>2 DEF KnownInv, CheckedStaysEqual
<1> QED BY <1>1, <1>4, <1>5 DEF SoundInv

\* Nothing is under way unless the host waits for it.
LEMMA Silence == ASSUME SoundInv, ~ Waiting PROVE Live(down) = {} /\ Live(up) = {}
BY DEF SoundInv, LineInv

\* Nothing new comes onto a line on which nothing is under way.
LEMMA StaysSilent ==
    ASSUME SoundInv, Live(down) = {}, Live(up) = {}, Fewer(down', down), Fewer(up', up)
    PROVE  LineInv'
BY DEF SoundInv, LineInv, Fewer

\* What the PRM and the line lose leaves the rest as it was.
LEMMA LineLess ==
    ASSUME SoundInv, Fewer(down', down), Fewer(up', up),
           UNCHANGED <<linkVars, timer, caller, prmMem, samples>>, silenced => silenced'
    PROVE  LineInv'
<1>1. (Waiting <=> Waiting') /\ LinkRequest' = LinkRequest
    BY DEF Waiting, LinkRequest, linkVars
<1>2. \A body : RepliesToLast(body) => RepliesToLast(body)'
    BY <1>1 DEF RepliesToLast, linkVars
<1> QED BY <1>1, <1>2 DEF SoundInv, LineInv, Fewer

LEMMA SameFrames == ASSUME NEW s PROVE Fewer(s, s)
BY DEF Fewer

\* What the host knows changes with its status, the PRM's memory and the samples.
LEMMA KnownSame ==
    ASSUME SoundInv, UNCHANGED <<linkStatus, block, prmMem, samples>>, silenced => silenced'
    PROVE  KnownInv'
BY DEF SoundInv, KnownInv, CheckedStaysEqual

LEMMA KnowsNothing ==
    ASSUME linkStatus' \notin {"LINK_CHECK_PRM", "LINK_MDY_PRM", "LINK_SEND_START", "LINK_SUCCESS"}
    PROVE  KnownInv'
BY DEF KnownInv, CheckedStaysEqual

LEMMA TurnSound == ASSUME TypeInv, SoundInv, NEW n \in 0..Len(up), Turn(n) PROVE LineInv' /\ KnownInv'
<1> DEFINE reads == IF linkStatus = "LINK_UNLINK" THEN 0 ELSE n
<1>1. reads \in 0..Len(up)
    <2>1. Len(up) \in Nat
        BY UnreadFrames DEF TypeInv, LineTypeOK
    <2> QED BY <2>1
<1>2. caller = "away" /\ up' = Unread(reads) /\ down' = down
    BY DEF Turn
<1>3. RelinkPRM \/ UNCHANGED <<linkVars, prmVars>>
    BY DEF Turn
<1> HIDE DEF reads
<1>4. LineInv'
    <2>1. Fewer(up', up) /\ Fewer(down', down)
        BY <1>1, <1>2, UnreadFrames, SameFrames DEF TypeInv, LineTypeOK
    <2> QED BY <1>2, <2>1, Silence, StaysSilent DEF Waiting
<1>5. KnownInv'
    BY <1>3, FirstStatus, KnowsNothing, KnownSame DEF RelinkPRM, linkVars, prmVars
<1> QED BY <1>4, <1>5

LEMMA AwaySound ==
    ASSUME TypeInv, SoundInv, Relink \/ RelinkIdle \/ RelinkGivesUp \/ RelinkRetries
    PROVE  LineInv' /\ KnownInv'
<1>1. caller # "cycle" /\ UNCHANGED lineVars
    BY DEF Relink, RelinkIdle, RelinkGivesUp, RelinkRetries
<1>2. LineInv'
    BY <1>1, Silence, SameFrames, StaysSilent DEF Waiting, lineVars
<1>3. link_init \/ UNCHANGED <<linkVars, prmVars>>
    BY DEF Relink, RelinkPRM, RelinkIdle, RelinkGivesUp, RelinkRetries
<1>4. KnownInv'
    BY <1>3, FirstStatus, KnowsNothing, KnownSame DEF linkVars, prmVars
<1> QED BY <1>2, <1>4

LEMMA SendSound ==
    ASSUME TypeInv, SoundInv, NEW n \in 0..Len(up), LinkSend(n) PROVE LineInv' /\ KnownInv'
<1> DEFINE f == [index |-> next_index(index_h_asw), age |-> 0, body |-> LinkRequest]
<1>1. /\ cmdStatus = "CMD_TX" /\ caller = "cycle" /\ ~ NothingToSend
      /\ up' = Aged(Unread(n)) /\ (down' = Append(Aged(down), f) \/ down' = Aged(down))
      /\ cmdStatus' = "CMD_RX" /\ timer' = "running"
      /\ UNCHANGED <<caller, linkStatus, block, prmVars>>
    BY DEF LinkSend, Transmit
<1>2. Live(down) = {} /\ Live(up) = {}
    BY <1>1, Silence DEF Waiting
<1>3. Live(up') = {} /\ Single(up')
    <2>1. Unread(n) \in Seq(UpFrame) /\ Fewer(Unread(n), up)
        BY UnreadFrames DEF TypeInv, LineTypeOK
    <2>2. Fewer(up', Unread(n))
        BY <1>1, <2>1, AgedFrames DEF UpFrame
    <2> QED BY <1>2, <2>1, <2>2 DEF Fewer, SoundInv, LineInv
<1>4. Single(down') /\ Live(down') \subseteq {LinkRequest}
    <2>1. Aged(down) \in Seq(DownFrame) /\ Live(Aged(down)) = {} /\ Single(Aged(down))
        BY <1>2, AgedFrames DEF TypeInv, LineTypeOK, DownFrame, Fewer, SoundInv, LineInv
    <2>2. f \in DownFrame /\ f.body = LinkRequest
        <3>1. next_index(index_h_asw) \in FirstIndex..LastIndex
            BY Constants DEF next_index, TypeInv, TypeOK
        <3> QED BY <1>1, <3>1, RequestTyped, Constants DEF DownFrame, Frame
    <2> HIDE DEF f
    <2>3. Single(Append(Aged(down), f)) /\ Live(Append(Aged(down), f)) \subseteq {LinkRequest}
        BY <2>1, <2>2, PutFrames
    <2> QED BY <1>1, <2>1, <2>3
<1>5. LinkRequest' = LinkRequest /\ Waiting'
    BY <1>1 DEF LinkRequest, Waiting
<1>6. LineInv'
    BY <1>3, <1>4, <1>5 DEF LineInv
<1>7. KnownInv'
    BY <1>1, KnownSame DEF prmVars
<1> QED BY <1>6, <1>7

\* link_cycle where it neither sends nor takes a reply for the one it waits for.
LEMMA CycleSound ==
    ASSUME TypeInv, SoundInv, NEW n \in 0..Len(up),
           \/ LinkMoveOn(n) \/ LinkTimeout(n) \/ LinkNoReply(n)
           \/ \E begun \in Begun(n) : LinkMismatch(n, begun)
    PROVE  LineInv' /\ KnownInv'
<1>1. up' = Unread(n) /\ down' = down /\ UNCHANGED prmVars
    BY DEF LinkMoveOn, LinkTimeout, LinkNoReply, LinkMismatch
<1>2. /\ Fewer(up', up) /\ Fewer(down', down)
      /\ ReplyAccepted(n) => Live(up) # {} /\ (Single(up) => Live(up') = {})
    BY <1>1, UnreadFrames, SameFrames DEF TypeInv, LineTypeOK
<1>3. CASE LinkMoveOn(n) \/ LinkTimeout(n)
    <2>1. LineInv'
        BY <1>2, <1>3, Silence, StaysSilent DEF LinkMoveOn, LinkTimeout, Waiting
    <2>2. CASE linkStatus' = linkStatus
        <3>1. UNCHANGED <<block, prmMem, samples, silenced>>
            BY <1>1, <1>3 DEF LinkMoveOn, LinkTimeout, prmVars
        <3> QED BY <2>1, <2>2, <3>1, KnownSame
    <2>3. CASE linkStatus = "LINK_CHECK_PRM" /\ linkStatus' = "LINK_SEND_START"
        <3>1. block' = block /\ block = BlockNum + 1
            BY <1>3, <2>3, Constants DEF LinkMoveOn, LinkTimeout, NothingToSend, TypeInv, TypeOK
        <3> QED BY <1>1, <2>1, <2>3, <3>1 DEF SoundInv, KnownInv, CheckedStaysEqual, prmVars
    <2>4. CASE linkStatus' \in {"LINK_UNLINK", "LINK_IDLE"}
        BY <2>1, <2>4, KnowsNothing
    <2>5. \/ linkStatus' = linkStatus
          \/ linkStatus = "LINK_CHECK_PRM" /\ linkStatus' = "LINK_SEND_START"
          \/ linkStatus' \in {"LINK_UNLINK", "LINK_IDLE"}
        BY <1>3 DEF LinkMoveOn, LinkTimeout
    <2> QED BY <2>1, <2>2, <2>3, <2>4, <2>5
<1>4. CASE LinkNoReply(n)
    BY <1>1, <1>2, <1>4, LineLess, KnownSame DEF LinkNoReply, linkVars, prmVars
<1>5. CASE \E begun \in Begun(n) : LinkMismatch(n, begun)
    <2>1. Live(down) = {} /\ Live(up') = {} /\ Single(up') /\ Single(down')
        BY <1>1, <1>2, <1>5 DEF LinkMismatch, SoundInv, LineInv, Fewer
    <2>2. LineInv'
        BY <1>1, <2>1 DEF LineInv
    <2>3. KnownInv'
        BY <1>1, <1>5, KnownSame DEF LinkMismatch, prmVars
    <2> QED BY <2>2, <2>3
<1> QED BY <1>3, <1>4, <1>5

\* The reply in the buffer is noise, or what the PRM said to the last request.
LEMMA BufferHonest ==
    ASSUME TypeInv, SoundInv, NEW n \in 0..Len(up), NEW begun \in Begun(n), ReplyAccepted(n)
    PROVE  uart_get_body(n, begun) \in {Noise, Sample} \/ RepliesToLast(uart_get_body(n, begun))
<1>1. n \in 1..Len(up) /\ (begun = "body" => n + 1 \in 1..Len(up))
    BY UnreadFrames DEF TypeInv, LineTypeOK, ReplyAccepted, Begun
<1>2. PICK k \in 1..Len(up) : uart_get_body(n, begun) = up[k].body
    BY <1>1 DEF uart_get_body
<1>3. CASE Alive(up[k])
    BY <1>2, <1>3 DEF SoundInv, LineInv, Live
<1>4. CASE ~ Alive(up[k])
    BY <1>2, <1>4 DEF Alive
<1> QED BY <1>3, <1>4

LEMMA MatchSound ==
    ASSUME TypeInv, SoundInv, NEW n \in 0..Len(up), NEW begun \in Begun(n), LinkMatch(n, begun)
    PROVE  LineInv' /\ KnownInv'
<1>1. up' = Unread(n) /\ down' = down /\ UNCHANGED prmVars /\ ReplyAccepted(n)
    BY DEF LinkMatch
<1>2. Fewer(up', up) /\ Live(up) # {} /\ (Single(up) => Live(up') = {})
    BY <1>1, UnreadFrames DEF TypeInv, LineTypeOK
<1>3. LineInv'
    BY <1>1, <1>2 DEF LineInv, SoundInv, Fewer
<1>4. KnownInv'
    <2> DEFINE body == uart_get_body(n, begun)
    <2>1. body \in {Noise, Sample} \/ RepliesToLast(body)
        BY <1>1, BufferHonest
    <2>2. \/ \E ok \in StatusOK(body) : LinkStopReply(ok) \/ LinkSignOnReply(ok) \/ LinkMdyReply(ok)
          \/ LinkCheckReply(body)
          \/ LinkStartReply
        BY DEF LinkMatch
    <2> HIDE DEF body
    <2>3. CASE \E ok \in StatusOK(body) : LinkStopReply(ok)
        BY <2>3, KnowsNothing DEF LinkStopReply
    <2>4. CASE \E ok \in StatusOK(body) : LinkSignOnReply(ok)
        <3>1. \/ linkStatus' = "LINK_CHECK_PRM" /\ block' = 1
              \/ linkStatus' = "LINK_UNLINK"
            BY <2>4 DEF LinkSignOnReply
        <3> QED BY <3>1 DEF KnownInv, CheckedStaysEqual
    <2>5. CASE \E ok \in StatusOK(body) : LinkMdyReply(ok)
        <3>1. /\ linkStatus = "LINK_MDY_PRM" /\ block' = block
              /\ linkStatus' \in {"LINK_CHECK_PRM", "LINK_MDY_PRM", "LINK_UNLINK"}
            BY <2>5 DEF LinkMdyReply
        <3> QED BY <1>1, <3>1 DEF SoundInv, KnownInv, CheckedStaysEqual, prmVars
    <2>6. CASE LinkCheckReply(body)
        <3>1. CASE BlockEqual(body)
            <4>1. linkStatus = "LINK_CHECK_PRM" /\ linkStatus' = linkStatus /\ block' = block + 1
                BY <2>6, <3>1 DEF LinkCheckReply
            <4>2. prmMem[block] = HostPrm[block]
                BY <2>1, <3>1 DEF BlockEqual, RepliesToLast
            <4>3. \A b \in 1..block : prmMem[b] = HostPrm[b]
                BY <4>1, <4>2, Constants DEF SoundInv, KnownInv, CheckedStaysEqual, TypeInv, TypeOK
            <4>4. 1..block'-1 = 1..block
                BY <4>1 DEF TypeInv, TypeOK
            <4> QED BY <1>1, <4>1, <4>3, <4>4 DEF KnownInv, CheckedStaysEqual, prmVars
        <3>2. CASE ~ BlockEqual(body)
            <4>1. linkStatus = "LINK_CHECK_PRM" /\ linkStatus' = "LINK_MDY_PRM" /\ block' = block
                BY <2>6, <3>2 DEF LinkCheckReply
            <4> QED BY <1>1, <4>1 DEF SoundInv, KnownInv, CheckedStaysEqual, prmVars
        <3> QED BY <3>1, <3>2
    <2>7. CASE LinkStartReply
        <3>1. linkStatus = "LINK_SEND_START" /\ linkStatus' = "LINK_SUCCESS" /\ block' = block
            BY <2>7 DEF LinkStartReply
        <3>2. samples = "ON" \/ silenced
            BY <1>2, <3>1 DEF SoundInv, LineInv, RepliesToLast, LinkRequest
        <3> QED BY <1>1, <3>1, <3>2 DEF SoundInv, KnownInv, CheckedStaysEqual, prmVars
    <2> QED BY <2>2, <2>3, <2>4, <2>5, <2>6, <2>7
<1> QED BY <1>3, <1>4

LEMMA SameFunction ==
    ASSUME NEW S, NEW T, NEW f \in [S -> T], NEW g \in [S -> T], \A x \in S : f[x] = g[x] PROVE f = g
OBVIOUS

\* What the host asks for concerns the block it is at.
LEMMA RequestBlock ==
    ASSUME ~ NothingToSend, linkStatus \in LinkStates, LinkRequest[1] \in {"CHECK_PRM", "MDY_PRM"}
    PROVE  LinkRequest[2] = block
<1>1. linkStatus \in {"LINK_SEND_STOP", "LINK_SIGN_ON", "LINK_CHECK_PRM", "LINK_MDY_PRM", "LINK_SEND_START"}
    BY DEF NothingToSend, LinkStates
<1>2. CASE linkStatus = "LINK_CHECK_PRM"
    BY <1>2 DEF LinkRequest
<1>3. CASE linkStatus = "LINK_MDY_PRM"
    BY <1>3 DEF LinkRequest
<1>4. CASE linkStatus \in {"LINK_SEND_STOP", "LINK_SIGN_ON", "LINK_SEND_START"}
    <2>1. LinkRequest[1] \in {"SEND_STOP", "SIGN_ON", "SEND_START"}
        BY <1>4 DEF LinkRequest
    <2> QED BY <2>1
<1> QED BY <1>1, <1>2, <1>3, <1>4

LEMMA HandlesSound == ASSUME TypeInv, SoundInv, PrmHandles PROVE LineInv' /\ KnownInv'
<1>1. /\ down # <<>> /\ down' = Tail(down) /\ Head(down).body # Noise
      /\ UNCHANGED <<linkVars, timer, caller>>
    BY DEF PrmHandles, PrmTakes
<1>2. Head(down).body \in Request /\ Alive(Head(down))
    <2>1. Head(down) \in DownFrame
        BY <1>1, TakenFrames DEF TypeInv, LineTypeOK
    <2> QED BY <1>1, <2>1, RequestFields DEF DownFrame, Frame, Alive
<1>3. PICK request \in Request : request = Head(down).body
    BY <1>2
<1>4. request \in Live(down) /\ Live(down') = {} /\ Single(down')
    BY <1>1, <1>2, <1>3, TakenFrames DEF TypeInv, LineTypeOK, SoundInv, LineInv, Fewer
<1>5. request = LinkRequest /\ Live(up) = {} /\ Waiting
    BY <1>4 DEF SoundInv, LineInv
<1>6. ~ NothingToSend /\ linkStatus \in LinkStates \ {"LINK_IDLE", "LINK_UNLINK", "LINK_SUCCESS"}
    BY <1>5 DEF TypeInv, TypeOK, HostOK, Waiting, NothingToSend
<1>7. LinkRequest' = request /\ Waiting' /\ UNCHANGED <<linkStatus, block>>
    BY <1>1, <1>5 DEF LinkRequest, Waiting, linkVars
<1>8. request[1] \in {"CHECK_PRM", "MDY_PRM"} => request[2] = block
    BY <1>5, <1>6, RequestBlock
<1>9. prmMem' \in {prmMem, IF request[1] = "MDY_PRM" THEN [prmMem EXCEPT ![request[2]] = request[3]] ELSE prmMem}
    BY <1>3 DEF PrmHandles
<1>10. request[1] = "CHECK_PRM" => prmMem' = prmMem /\ prmMem'[block'] = prmMem[request[2]]
    BY <1>7, <1>8, <1>9
<1>11. PICK reply \in Reply : PrmReplies(reply) /\ RepliesToLast(reply)'
    <2>1. CASE /\ PrmReplies(<<request[1], request[2],
                               IF request[1] = "CHECK_PRM" THEN prmMem[request[2]] ELSE "ok">>)
               /\ request[1] = "SEND_START" => samples' = "ON"
        <3>1. PICK reply \in Reply : reply = <<request[1], request[2],
                                        IF request[1] = "CHECK_PRM" THEN prmMem[request[2]] ELSE "ok">>
            BY ReplyFields DEF TypeInv, TypeOK
        <3>2. /\ reply[1] = request[1]
              /\ request[1] = "CHECK_PRM" => reply[3] = prmMem[request[2]]
            BY <3>1
        <3>3. RepliesToLast(reply)'
            BY <1>7, <1>10, <2>1, <3>2 DEF RepliesToLast
        <3> QED BY <2>1, <3>1, <3>3
    <2>2. CASE /\ request[1] \in Refuses
               /\ PrmReplies(<<request[1], request[2], "refused">>)
               /\ request[1] = "SEND_START" => silenced'
        <3>1. PICK reply \in Reply : reply = <<request[1], request[2], "refused">>
            BY <2>2, ReplyFields DEF TypeInv, TypeOK
        <3>2. reply[1] = request[1] /\ request[1] # "CHECK_PRM"
            BY <2>2, <3>1, RefusesAssumption DEF Refusable
        <3>3. RepliesToLast(reply)'
            BY <1>7, <2>2, <3>2 DEF RepliesToLast
        <3> QED BY <2>2, <3>1, <3>3
    <2>3. PrmHandles
        OBVIOUS
    <2> QED BY <1>3, <2>1, <2>2, <2>3 DEF PrmHandles
<1>12. Single(up') /\ Live(up') \subseteq {reply}
    <2>1. up' = up \/ up' = Append(up, [Head(down) EXCEPT !.body = reply])
        BY <1>11 DEF PrmReplies
    <2>2. up \in Seq(UpFrame) /\ Single(up)
        BY DEF TypeInv, LineTypeOK, SoundInv, LineInv
    <2>3. PICK f \in UpFrame : f = [Head(down) EXCEPT !.body = reply] /\ f.body = reply
        BY <1>1, ReplyFrame
    <2>4. Single(Append(up, f)) /\ Live(Append(up, f)) \subseteq {reply}
        BY <1>5, <2>2, <2>3, PutFrames
    <2> QED BY <1>5, <2>1, <2>2, <2>3, <2>4
<1>13. LineInv'
    BY <1>4, <1>7, <1>11, <1>12 DEF LineInv
<1>14. KnownInv'
    <2>1. \A b \in 1..BlockNum : b # block => prmMem'[b] = prmMem[b]
        BY <1>8, <1>9 DEF TypeInv, TypeOK
    <2>2. \A b \in 1..block-1 : b \in 1..BlockNum /\ b # block
        BY Constants DEF TypeInv, TypeOK
    <2> QED BY <1>6, <1>7, <2>1, <2>2 DEF SoundInv, KnownInv, CheckedStaysEqual
<1> QED BY <1>13, <1>14

LEMMA OutsideSound ==
    ASSUME TypeInv, SoundInv,
           PrmIgnores \/ PrmRestarts \/ Samples \/ Damages \/ TimerFires \/ GeneralTimerFires
    PROVE  LineInv' /\ KnownInv'
<1>1. UNCHANGED <<linkVars, caller, prmMem>> /\ (silenced => silenced')
      /\ (samples' = samples \/ silenced')
    BY DEF PrmIgnores, PrmRestarts, Samples, Damages, TimerFires, GeneralTimerFires, prmVars
<1>2. KnownInv'
    BY <1>1 DEF SoundInv, KnownInv, CheckedStaysEqual, linkVars
<1>3. CASE TimerFires
    <2>1. Live(down) = {} /\ Live(up) = {} /\ UNCHANGED <<down, up>>
        BY <1>3 DEF TimerFires, LateTimer, SoundInv, Live, Alive, lineVars
    <2> QED BY <1>2, <2>1, SameFrames, StaysSilent
<1>4. CASE PrmRestarts
    <2>1. down' = <<>> /\ up' = up /\ UNCHANGED <<linkVars, timer, caller, prmMem>> /\ silenced'
        BY <1>4 DEF PrmRestarts
    <2>2. Single(down') /\ Live(down') = {}
        BY <2>1 DEF Single, Live
    <2>3. (Waiting <=> Waiting') /\ LinkRequest' = LinkRequest
        BY <2>1 DEF Waiting, LinkRequest, linkVars
    <2>4. \A body : RepliesToLast(body) => RepliesToLast(body)'
        BY <2>1, <2>3 DEF RepliesToLast, linkVars
    <2>5. LineInv'
        BY <2>1, <2>2, <2>3, <2>4 DEF SoundInv, LineInv
    <2> QED BY <1>2, <2>5
<1>5. CASE PrmIgnores \/ Samples \/ Damages \/ GeneralTimerFires
    <2>1. Fewer(down', down) /\ Fewer(up', up)
        <3> USE SameFrames DEF TypeInv, LineTypeOK
        <3>1. CASE PrmIgnores
            BY <3>1, TakenFrames DEF PrmIgnores, PrmTakes
        <3>2. CASE Samples
            <4> DEFINE f == [index |-> NoIndex, age |-> 0, body |-> Sample]
            <4>1. f \in UpFrame /\ ~ Alive(f)
                BY Constants DEF UpFrame, Frame, Alive
            <4>2. up' = Append(up, f) /\ down' = down
                BY <3>2 DEF Samples, PrmSamples
            <4> HIDE DEF f
            <4> QED BY <4>1, <4>2, PutFrames
        <3>3. CASE Damages
            BY <3>3, DamagedFrames DEF Damages, LineDamages, UpFrame, DownFrame
        <3>4. CASE GeneralTimerFires
            BY <3>4 DEF GeneralTimerFires, lineVars
        <3> QED BY <1>5, <3>1, <3>2, <3>3, <3>4
    <2>2. UNCHANGED <<linkVars, timer, caller, prmMem, samples>> /\ (silenced => silenced')
        BY <1>5 DEF PrmIgnores, Samples, Damages, GeneralTimerFires, prmVars
    <2> QED BY <1>2, <2>1, <2>2, LineLess
<1> QED BY <1>3, <1>4, <1>5

LEMMA NextSoundInv == ASSUME TypeInv, SoundInv, [Next]_vars PROVE SoundInv'
<1>1. Prompt'
    BY DEF SoundInv, Prompt, Next, vars
<1>2. CASE UNCHANGED vars
    BY <1>1, <1>2, SameFrames, LineLess, KnownSame DEF vars, lineVars, linkVars, prmVars, SoundInv
<1>3. CASE Relink \/ RelinkIdle \/ RelinkGivesUp \/ RelinkRetries
    BY <1>1, <1>3, AwaySound DEF SoundInv
<1>4. CASE LinkCycle
    BY <1>1, <1>4, SendSound, CycleSound, MatchSound DEF LinkCycle, SoundInv
<1>5. CASE \E n \in 0..Len(up) : Turn(n)
    BY <1>1, <1>5, TurnSound DEF SoundInv
<1>6. CASE PrmHandles
    BY <1>1, <1>6, HandlesSound DEF SoundInv
<1>7. CASE PrmIgnores \/ PrmRestarts \/ Samples \/ Damages \/ TimerFires \/ GeneralTimerFires
    BY <1>1, <1>7, OutsideSound DEF SoundInv
<1> QED BY <1>2, <1>3, <1>4, <1>5, <1>6, <1>7 DEF Next, Step

\* With PRMs that answer within the timeout, a block that has been checked stays
\* equal to the host's, for any parameters, whatever the line loses or damages and
\* the PRM refuses, and however often it restarts.
THEOREM CheckedBlocksStay == ASSUME AllPrompt PROVE Spec => []CheckedStaysEqual
<1>1. Init => TypeInv /\ SoundInv
    BY AllPrompt, InitTypeInv, InitSoundInv
<1>2. TypeInv /\ SoundInv /\ [Next]_vars => TypeInv' /\ SoundInv'
    BY NextTypeInv, NextSoundInv
<1>3. SoundInv => CheckedStaysEqual
    BY DEF SoundInv, KnownInv
<1> QED BY <1>1, <1>2, <1>3, PTL DEF Spec

\* With such PRMs the link is reported made only when all parameters agree and
\* the samples run, unless the PRM refused to send them or was restarted.
THEOREM LinkIsReady == ASSUME AllPrompt PROVE Spec => LinkedMeansReady
<1>1. Init => TypeInv /\ SoundInv
    BY AllPrompt, InitTypeInv, InitSoundInv
<1>2. TypeInv /\ SoundInv /\ [Next]_vars => TypeInv' /\ SoundInv'
    BY NextTypeInv, NextSoundInv
<1> DEFINE A == linkStatus' = "LINK_IDLE" /\ linkStatus # "LINK_IDLE"
                => prmMem = HostPrm /\ (samples = "ON" \/ silenced)
<1>3. TypeInv /\ SoundInv /\ [Next]_vars => [A]_vars
    <2> SUFFICES ASSUME TypeInv, SoundInv, [Next]_vars,
                        linkStatus' = "LINK_IDLE", linkStatus # "LINK_IDLE"
                 PROVE  prmMem = HostPrm /\ (samples = "ON" \/ silenced)
        OBVIOUS
    <2>1. linkStatus = "LINK_SUCCESS"
        <3>1. CASE UNCHANGED vars \/ PrmHandles \/ PrmIgnores \/ PrmRestarts \/ Samples \/ Damages
                   \/ TimerFires \/ GeneralTimerFires \/ RelinkIdle \/ RelinkGivesUp
            BY <3>1 DEF vars, linkVars, PrmHandles, PrmIgnores, PrmRestarts, Samples, Damages,
                        TimerFires, GeneralTimerFires, RelinkIdle, RelinkGivesUp
        <3>2. CASE Relink \/ RelinkRetries \/ \E n \in 0..Len(up) : Turn(n)
            BY <3>2, FirstStatus DEF Relink, RelinkPRM, RelinkRetries, Turn, linkVars
        <3>3. CASE LinkCycle
            <4>1. ASSUME NEW n \in 0..Len(up),
                         \/ LinkSend(n) \/ LinkMoveOn(n) \/ LinkTimeout(n) \/ LinkNoReply(n)
                         \/ \E begun \in Begun(n) : LinkMismatch(n, begun)
                  PROVE  linkStatus = "LINK_SUCCESS"
                BY <4>1 DEF LinkSend, LinkMoveOn, LinkTimeout, LinkNoReply, LinkMismatch, linkVars
            <4>2. ASSUME NEW n \in 0..Len(up), NEW begun \in Begun(n), LinkMatch(n, begun)
                  PROVE  FALSE
                BY <4>2, ReplyTyped DEF LinkMatch
            <4> QED BY <3>3, <4>1, <4>2 DEF LinkCycle
        <3> QED BY <3>1, <3>2, <3>3 DEF Next, Step
    <2>2. prmMem \in [1..BlockNum -> Block] /\ HostPrm \in [1..BlockNum -> Block]
        BY HostPrmAssumption DEF TypeInv, TypeOK, BlockNum
    <2>3. \A b \in 1..BlockNum : prmMem[b] = HostPrm[b]
        BY <2>1, Constants DEF SoundInv, KnownInv, CheckedStaysEqual
    <2>4. prmMem = HostPrm
        <3>1. \A f, g \in [1..BlockNum -> Block] : (\A b \in 1..BlockNum : f[b] = g[b]) => f = g
            BY SameFunction
        <3> QED BY <2>2, <2>3, <3>1, Zenon
    <2> QED BY <2>1, <2>4 DEF SoundInv, KnownInv
<1> QED BY <1>1, <1>2, <1>3, PTL DEF Spec, LinkedMeansReady
-----------------------------------------------------------------------------
(* What RelinkPRM leaves behind.                                           *)

\* Outside its loop the host has linked or has given up.
Settled == caller # "cycle" => linkStatus \in {"LINK_UNLINK", "LINK_IDLE"}

LEMMA SettledStep == ASSUME Settled, "LINK_IDLE" \notin Garbage, [Next]_vars PROVE Settled'
<1>1. ASSUME NEW n \in 0..Len(up), Turn(n) PROVE Settled'
    BY <1>1 DEF Turn, RelinkPRM, linkVars, Settled
<1>2. CASE Relink \/ RelinkIdle \/ RelinkGivesUp \/ RelinkRetries
    BY <1>2 DEF Relink, RelinkPRM, RelinkIdle, RelinkGivesUp, RelinkRetries, linkVars, Settled
<1>3. ASSUME NEW n \in 0..Len(up), LinkSend(n) \/ LinkMoveOn(n) \/ LinkTimeout(n) \/ LinkNoReply(n)
      PROVE  Settled'
    BY <1>3 DEF LinkSend, LinkMoveOn, LinkTimeout, LinkNoReply, Returned, linkVars, Settled
<1>4. ASSUME NEW n \in 0..Len(up), NEW begun \in Begun(n), LinkMismatch(n, begun) \/ LinkMatch(n, begun)
      PROVE  Settled'
    BY <1>4 DEF LinkMismatch, LinkMatch, Returned, Settled
<1>5. CASE UNCHANGED vars \/ PrmHandles \/ PrmIgnores \/ PrmRestarts \/ Samples \/ Damages
           \/ TimerFires \/ GeneralTimerFires
    BY <1>5 DEF vars, PrmHandles, PrmIgnores, PrmRestarts, Samples, Damages, TimerFires, GeneralTimerFires,
                linkVars, Settled
<1> QED BY <1>1, <1>2, <1>3, <1>4, <1>5 DEF Next, Step, LinkCycle

\* RelinkPRM leaves a host that has linked or one that is known to have no
\* link, on every line and with every PRM, unless the local variable that
\* nothing has set held LINK_IDLE: without that, Skipped is never seen.
THEOREM LinkingEnds ==
    ASSUME "LINK_IDLE" \notin Garbage
    PROVE  Spec => [](caller = "away" => linkStatus \in {"LINK_UNLINK", "LINK_IDLE"})
<1>1. Init => Settled
    BY DEF Init, Settled
<1>2. Settled /\ [Next]_vars => Settled'
    BY SettledStep
<1>3. Settled => (caller = "away" => linkStatus \in {"LINK_UNLINK", "LINK_IDLE"})
    BY DEF Settled
<1> QED BY <1>1, <1>2, <1>3, PTL DEF Spec
=============================================================================
