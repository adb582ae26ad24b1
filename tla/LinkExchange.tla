---------------------------- MODULE LinkExchange ----------------------------
(***************************************************************************)
(* How the host links up with the lower controller (PRM): RelinkPRM        *)
(* (global.c) and PowerOnLink (initial.c) loop over link_cycle (cmd.c),    *)
(* which stops the samples, signs on, reads the PRM's parameters block by  *)
(* block, rewrites each block that differs from the host's copy until it   *)
(* reads back equal, and starts the samples again.  In between the main    *)
(* page turns its loop and counts the turns since the last sample          *)
(* (CheckOfflineCycle): when there were too many it links again.           *)
(*                                                                         *)
(* A request or reply is a triple: what it asks for, the block it concerns *)
(* and its data.  A reply repeats the triple with the block it has read or *)
(* with its status.                                                        *)
(***************************************************************************)
EXTENDS PrmLine

CONSTANTS HostPrm,      \* the host's parameters: a sequence of blocks
          Block,        \* contents of a block
          MAX_KEEP_LIVE_TIME,   \* turns without a sample, 5 * CTRL_FREQ in the code
          Refuses,      \* requests the PRM may refuse
          Garbage       \* what an uninitialised linkStatus may hold

BlockNum == Len(HostPrm)        \* PRM_MEM_SIZE / PRM_BUFF_CHECK, rounded up

ASSUME HostPrmAssumption == HostPrm \in Seq(Block) /\ BlockNum > 0
ASSUME KeepLiveAssumption == MAX_KEEP_LIVE_TIME \in Nat

\* What requests and replies say.  A read is never refused: it is answered with
\* the block.
Request ==
    ({"SEND_STOP", "SIGN_ON", "SEND_START"} \X {0} \X {""})
        \cup ({"CHECK_PRM"} \X (1..BlockNum) \X {""})
        \cup ({"MDY_PRM"} \X (1..BlockNum) \X Block)
Refusable == {"SEND_STOP", "SIGN_ON", "MDY_PRM", "SEND_START"}
Reply ==
    (Refusable \X (0..BlockNum) \X {"ok", "refused"}) \cup ({"CHECK_PRM"} \X (1..BlockNum) \X Block)

ASSUME BodyAssumption == Sample \notin Request \cup Reply /\ Noise \notin Request \cup Reply
ASSUME RefusesAssumption == Refuses \subseteq Refusable

VARIABLES linkStatus, cmdStatus, sendIndex, sendCnt, mdyCnt,    \* g_linkMutual
          block,            \* g_WritePrm: block at targetAddr; len is what follows
          timer, general,   \* LINK_MUTUAL_TIMING and GENERAL_TIMEOUT_TIMING
          keepLive,         \* g_linkMutual.keepLiveCount
          caller,           \* where RelinkPRM or PowerOnLink is; "away": the main page
          prmMem, samples,  \* the PRM's parameters; does it send samples?
          silenced          \* history: the PRM refused to send samples, or was restarted

linkVars == <<linkStatus, cmdStatus, sendIndex, sendCnt, mdyCnt, block>>
prmVars == <<prmMem, samples, silenced>>
vars == <<world, lineVars, linkVars, timer, general, caller, prmVars, keepLive>>

MAX_LINK_CMD_LUSSED_CNT == 3
LSSUED_PARA_TRY_CNT == 3

LinkStates == {"LINK_UNLINK", "LINK_SEND_STOP", "LINK_SIGN_ON", "LINK_CHECK_PRM", "LINK_MDY_PRM",
               "LINK_SEND_START", "LINK_SUCCESS", "LINK_IDLE"}

Init ==
    /\ LineInit
    /\ linkStatus = "LINK_UNLINK" /\ cmdStatus = "CMD_IDLE"
    /\ sendIndex = 0 /\ sendCnt = 0 /\ mdyCnt = 0
    /\ block = 1
    /\ timer = "stopped" /\ general = "stopped"
    /\ caller = "away"
    /\ keepLive = 0
    /\ prmMem \in [1..BlockNum -> Block] /\ samples \in {"ON", "OFF"} /\ silenced = FALSE

-----------------------------------------------------------------------------
(* RelinkPRM and PowerOnLink.                                              *)

link_init ==
    /\ cmdStatus' = "CMD_TX"
    /\ linkStatus' = "LINK_SEND_STOP"
    /\ sendIndex' = 0 /\ sendCnt' = 0 /\ mdyCnt' = 0
    /\ silenced' = FALSE

\* The loop is entered unless the local variable linkStatus, which nothing has
\* set, happens to hold LINK_IDLE.
RelinkPRM ==
    /\ link_init
    /\ general' = "running"
    /\ \E local \in Garbage : caller' = IF local = "LINK_IDLE" THEN "away" ELSE "cycle"
    /\ UNCHANGED <<block, timer, prmMem, samples>>

\* PowerOnLink, and LssuedParameterProcess when the operator has changed the
\* parameters of the machine.
Relink ==
    /\ caller = "away"
    /\ RelinkPRM
    /\ UNCHANGED <<lineVars, keepLive>>

SampleRead(n) == \E i \in 1..n : up[i].body = Sample

TurnReadsAlways(n) ==           \* mutant: the line is read although there is no link
    LET count == IF SampleRead(n) THEN 0 ELSE keepLive
    IN  /\ caller = "away"
        /\ up' = Unread(n)
        /\ IF count > MAX_KEEP_LIVE_TIME
           THEN RelinkPRM /\ keepLive' = 0
           ELSE /\ keepLive' = count + 1
                /\ UNCHANGED <<linkVars, timer, general, caller, prmVars>>
        /\ UNCHANGED <<index_h_asw, down>>

\* A turn of the main page: PCM_CmdSendCycle, with no command issued, and
\* CheckOfflineCycle.  Nobody looks at the counter while RelinkPRM runs, so
\* that it may be reset before.
Turn(n) ==
    LET reads == IF linkStatus = "LINK_UNLINK" THEN 0 ELSE n
        count == IF SampleRead(reads) THEN 0 ELSE keepLive
    IN  /\ caller = "away"
        /\ up' = Unread(reads)
        /\ IF count > MAX_KEEP_LIVE_TIME
           THEN RelinkPRM /\ keepLive' = 0
           ELSE /\ keepLive' = count + 1
                /\ UNCHANGED <<linkVars, timer, general, caller, prmVars>>
        /\ UNCHANGED <<index_h_asw, down>>

\* After a link_cycle that has returned LINK_IDLE or LINK_UNLINK; every other
\* result leads to the next link_cycle.
Returned(status) == IF status \in {"LINK_IDLE", "LINK_UNLINK"} THEN "returned" ELSE "cycle"

RelinkIdle ==
    /\ caller = "returned" /\ linkStatus = "LINK_IDLE"
    /\ caller' = "away"
    /\ UNCHANGED <<lineVars, linkVars, timer, general, prmVars, keepLive>>

RelinkGivesUp ==
    /\ caller = "returned" /\ linkStatus = "LINK_UNLINK" /\ general = "fired"
    /\ general' = "stopped"
    /\ caller' = "away"
    /\ UNCHANGED <<lineVars, linkVars, timer, prmVars, keepLive>>

RelinkRetries ==
    /\ caller = "returned" /\ linkStatus = "LINK_UNLINK" /\ general # "fired"
    /\ link_init
    /\ caller' = "cycle"
    /\ UNCHANGED <<lineVars, block, timer, general, prmMem, samples, keepLive>>

-----------------------------------------------------------------------------
(* link_cycle with CMD_TX: LinkCmdSendBody.                                *)

LinkRequest ==
    CASE linkStatus = "LINK_SEND_STOP" -> <<"SEND_STOP", 0, "">>
      [] linkStatus = "LINK_SIGN_ON" -> <<"SIGN_ON", 0, "">>
      [] linkStatus = "LINK_CHECK_PRM" -> <<"CHECK_PRM", block, "">>
      [] linkStatus = "LINK_MDY_PRM" -> <<"MDY_PRM", block, HostPrm[block]>>
      [] linkStatus = "LINK_SEND_START" -> <<"SEND_START", 0, "">>

NothingToSendEarly ==           \* mutant: the last, shorter block is left out
    \/ linkStatus = "LINK_CHECK_PRM" /\ block >= BlockNum
    \/ linkStatus \in {"LINK_SUCCESS", "LINK_IDLE", "LINK_UNLINK"}

\* The status requests nothing: all blocks are checked, or the link is made.
NothingToSend ==
    \/ linkStatus = "LINK_CHECK_PRM" /\ block > BlockNum
    \/ linkStatus \in {"LINK_SUCCESS", "LINK_IDLE", "LINK_UNLINK"}

LinkSend(n) ==
    /\ caller = "cycle" /\ cmdStatus = "CMD_TX" /\ ~ NothingToSend
    /\ Transmit(LinkRequest)
    /\ up' = Aged(Unread(n))
    /\ cmdStatus' = "CMD_RX"
    /\ sendIndex' = index_h_asw'
    /\ timer' = "running"
    /\ UNCHANGED <<linkStatus, sendCnt, mdyCnt, block, general, caller, prmVars, keepLive>>

LinkMoveOn(n) ==
    /\ caller = "cycle" /\ cmdStatus = "CMD_TX" /\ NothingToSend
    /\ up' = Unread(n)
    /\ IF linkStatus = "LINK_CHECK_PRM"
       THEN linkStatus' = "LINK_SEND_START" /\ cmdStatus' = "CMD_TX"
       ELSE /\ linkStatus' = IF linkStatus = "LINK_SUCCESS" THEN "LINK_IDLE" ELSE linkStatus
            /\ cmdStatus' = "CMD_RX"
    /\ sendIndex' = index_h_asw
    /\ timer' = "running"
    /\ caller' = Returned(linkStatus')
    /\ UNCHANGED <<index_h_asw, down, sendCnt, mdyCnt, block, general, prmVars, keepLive>>

-----------------------------------------------------------------------------
(* link_cycle with CMD_RX: LinkCmdReceiveBody.                             *)

LinkTimeoutFour(n) ==           \* mutant: one timeout too many
    /\ caller = "cycle" /\ cmdStatus = "CMD_RX" /\ timer = "fired"
    /\ timer' = "stopped"
    /\ sendCnt' = sendCnt + 1
    /\ IF sendCnt + 1 > MAX_LINK_CMD_LUSSED_CNT
       THEN cmdStatus' = "CMD_UNLINK" /\ linkStatus' = "LINK_UNLINK"
       ELSE cmdStatus' = "CMD_TX" /\ UNCHANGED linkStatus
    /\ caller' = Returned(linkStatus')
    /\ up' = Unread(n)
    /\ UNCHANGED <<index_h_asw, down, sendIndex, mdyCnt, block, general, prmVars, keepLive>>

LinkTimeout(n) ==
    /\ caller = "cycle" /\ cmdStatus = "CMD_RX" /\ timer = "fired"
    /\ timer' = "stopped"
    /\ sendCnt' = sendCnt + 1           \* over all requests of this link_init
    /\ IF sendCnt + 1 >= MAX_LINK_CMD_LUSSED_CNT
       THEN cmdStatus' = "CMD_UNLINK" /\ linkStatus' = "LINK_UNLINK"
       ELSE cmdStatus' = "CMD_TX" /\ UNCHANGED linkStatus
    /\ caller' = Returned(linkStatus')
    /\ up' = Unread(n)
    /\ UNCHANGED <<index_h_asw, down, sendIndex, mdyCnt, block, general, prmVars, keepLive>>

LinkNoReply(n) ==
    /\ caller = "cycle" /\ cmdStatus = "CMD_RX" /\ timer # "fired"
    /\ ~ ReplyAccepted(n)
    /\ up' = Unread(n)
    /\ UNCHANGED <<index_h_asw, down, linkVars, timer, general, caller, prmVars, keepLive>>

LinkMismatch(n, begun) ==
    /\ caller = "cycle" /\ cmdStatus = "CMD_RX" /\ timer # "fired"
    /\ ReplyAccepted(n) /\ uart_get_index(n, begun) # sendIndex
    /\ cmdStatus' = "CMD_TX"
    /\ up' = Unread(n)
    /\ UNCHANGED <<index_h_asw, down, linkStatus, sendCnt, mdyCnt, block, sendIndex, timer,
                   general, caller, prmVars, keepLive>>

\* The status and the block in the receive buffer: of whatever reply is in it,
\* anything when it holds a damaged frame.
StatusOK(body) ==
    IF body \in {Noise, Sample} THEN {TRUE, FALSE} ELSE {body[3] # "refused"}
BlockEqual(body) ==
    body \notin {Noise, Sample} /\ body[1] = "CHECK_PRM" /\ body[3] = HostPrm[block]

LinkStopReply(ok) ==
    /\ linkStatus = "LINK_SEND_STOP"
    /\ linkStatus' = IF ok THEN "LINK_SIGN_ON" ELSE "LINK_UNLINK"
    /\ UNCHANGED <<block, mdyCnt>>

LinkSignOnReply(ok) ==
    /\ linkStatus = "LINK_SIGN_ON"
    /\ linkStatus' = IF ok THEN "LINK_CHECK_PRM" ELSE "LINK_UNLINK"
    /\ block' = IF ok THEN 1 ELSE block         \* WritePrmParameterInit
    /\ UNCHANGED mdyCnt

LinkCheckReply(body) ==
    /\ linkStatus = "LINK_CHECK_PRM"
    /\ IF BlockEqual(body)
       THEN block' = block + 1 /\ UNCHANGED linkStatus
       ELSE linkStatus' = "LINK_MDY_PRM" /\ UNCHANGED block
    /\ UNCHANGED mdyCnt

LinkMdyReplyTrusting(ok) ==     \* mutant: a written block is not read back
    /\ linkStatus = "LINK_MDY_PRM"
    /\ linkStatus' = "LINK_CHECK_PRM"
    /\ mdyCnt' = 0
    /\ block' = block + 1

LinkMdyReplyEndless(ok) ==      \* mutant: refusals are not counted
    /\ linkStatus = "LINK_MDY_PRM"
    /\ linkStatus' = IF ok THEN "LINK_CHECK_PRM" ELSE linkStatus
    /\ UNCHANGED <<block, mdyCnt>>

LinkMdyReply(ok) ==
    /\ linkStatus = "LINK_MDY_PRM"
    /\ IF ok
       THEN linkStatus' = "LINK_CHECK_PRM" /\ mdyCnt' = 0
       ELSE IF mdyCnt + 1 >= LSSUED_PARA_TRY_CNT
            THEN linkStatus' = "LINK_UNLINK" /\ mdyCnt' = 0
            ELSE mdyCnt' = mdyCnt + 1 /\ UNCHANGED linkStatus
    /\ UNCHANGED block

LinkStartReply ==               \* its status is not looked at
    /\ linkStatus = "LINK_SEND_START"
    /\ linkStatus' = "LINK_SUCCESS"
    /\ UNCHANGED <<block, mdyCnt>>

LinkMatch(n, begun) ==
    /\ caller = "cycle" /\ cmdStatus = "CMD_RX" /\ timer # "fired"
    /\ ReplyAccepted(n) /\ uart_get_index(n, begun) = sendIndex
    /\ LET body == uart_get_body(n, begun) IN
       \/ \E ok \in StatusOK(body) : LinkStopReply(ok) \/ LinkSignOnReply(ok) \/ LinkMdyReply(ok)
       \/ LinkCheckReply(body)
       \/ LinkStartReply
    /\ cmdStatus' = "CMD_TX"
    /\ caller' = Returned(linkStatus')
    /\ up' = Unread(n)
    /\ UNCHANGED <<index_h_asw, down, sendIndex, sendCnt, timer, general, prmVars, keepLive>>

-----------------------------------------------------------------------------
(* The environment: the PRM, the line and the timers.                      *)

PrmHandles ==
    /\ PrmTakes
    /\ LET request == Head(down).body IN
       /\ request # Noise
       /\ \/ /\ PrmReplies(<<request[1], request[2],
                             IF request[1] = "CHECK_PRM" THEN prmMem[request[2]] ELSE "ok">>)
             /\ prmMem' = IF request[1] = "MDY_PRM"
                          THEN [prmMem EXCEPT ![request[2]] = request[3]] ELSE prmMem
             /\ samples' = CASE request[1] = "SEND_STOP" -> "OFF"
                             [] request[1] = "SEND_START" -> "ON"
                             [] OTHER -> samples
             /\ UNCHANGED silenced
          \/ /\ request[1] \in Refuses
             /\ PrmReplies(<<request[1], request[2], "refused">>)
             /\ silenced' = (silenced \/ request[1] = "SEND_START")
             /\ UNCHANGED <<prmMem, samples>>
    /\ UNCHANGED <<index_h_asw, linkVars, timer, general, caller, keepLive>>

PrmIgnores ==
    /\ PrmTakes
    /\ Head(down).body = Noise
    /\ UNCHANGED <<index_h_asw, up, linkVars, timer, general, caller, prmVars, keepLive>>

\* Its parameters are kept; it does not send samples until it is told to.
PrmRestarts ==
    /\ down' = <<>> /\ samples' = "OFF" /\ silenced' = TRUE
    /\ UNCHANGED <<index_h_asw, up, linkVars, timer, general, caller, prmMem, keepLive>>

LateTimer == Prompt => \A s \in {down, up} : \A i \in 1..Len(s) : s[i].body \in {Noise, Sample}

TimerFires ==
    /\ timer = "running" /\ LateTimer
    /\ timer' = "fired"
    /\ UNCHANGED <<lineVars, linkVars, general, caller, prmVars, keepLive>>

GeneralTimerFires ==
    /\ general = "running"
    /\ general' = "fired"
    /\ UNCHANGED <<lineVars, linkVars, timer, caller, prmVars, keepLive>>

Samples ==
    /\ samples = "ON"
    /\ PrmSamples
    /\ UNCHANGED <<linkVars, timer, general, caller, prmVars, keepLive>>

Damages ==
    /\ LineDamages
    /\ UNCHANGED <<linkVars, timer, general, caller, prmVars, keepLive>>

LinkCycle ==
    \E n \in 0..Len(up) :
        \/ LinkSend(n) \/ LinkMoveOn(n) \/ LinkTimeout(n) \/ LinkNoReply(n)
        \/ \E begun \in Begun(n) : LinkMismatch(n, begun) \/ LinkMatch(n, begun)

Step ==
    \/ Relink \/ RelinkIdle \/ RelinkGivesUp \/ RelinkRetries
    \/ LinkCycle
    \/ \E n \in 0..Len(up) : Turn(n)
    \/ PrmHandles \/ PrmIgnores \/ PrmRestarts
    \/ Samples
    \/ Damages
    \/ TimerFires \/ GeneralTimerFires

Next == Step /\ UNCHANGED world

Spec == Init /\ [][Next]_vars

\* The foreground loops, in RelinkPRM and on the main page, bytes on the line
\* arrive, the PRM works on and both timers run down; LINK_MUTUAL_TIMING unless a request starts it anew, the
\* 10 s of GENERAL_TIMEOUT_TIMING in any case.  A reply that arrives again and
\* again is once read before the next frame begins (strong fairness): the host
\* polls without regard to when the PRM sends its samples.
FairSpec ==
    /\ Spec
    /\ WF_vars(UNCHANGED world /\ \E n \in 0..Len(up) : Turn(n))
    /\ WF_vars(UNCHANGED world /\ (RelinkIdle \/ RelinkGivesUp \/ RelinkRetries))
    /\ WF_vars(UNCHANGED world /\ \E n \in 0..Len(up) : LinkSend(n) \/ LinkMoveOn(n) \/ LinkTimeout(n))
    /\ WF_vars(UNCHANGED world /\ \E n \in 1..Len(up) : LinkNoReply(n))
    /\ WF_vars(UNCHANGED world /\ \E n \in 1..Len(up) : \E begun \in Begun(n) :
                LinkMismatch(n, begun) \/ LinkMatch(n, begun))
    /\ SF_vars(UNCHANGED world /\ \E n \in 1..Len(up) : LinkMatch(n, "nothing"))
    /\ WF_vars(UNCHANGED world /\ (PrmHandles \/ PrmIgnores))
    /\ WF_vars(UNCHANGED world /\ cmdStatus = "CMD_RX" /\ TimerFires)
    /\ WF_vars(UNCHANGED world /\ GeneralTimerFires)

-----------------------------------------------------------------------------
(* Properties.                                                             *)

\* The type invariant.
TypeOK ==
    /\ index_h_asw \in FirstIndex..LastIndex
    /\ linkStatus \in LinkStates
    /\ cmdStatus \in {"CMD_IDLE", "CMD_TX", "CMD_RX", "CMD_UNLINK"}
    /\ sendCnt \in 0..MAX_LINK_CMD_LUSSED_CNT /\ mdyCnt \in 0..LSSUED_PARA_TRY_CNT-1
    /\ block \in 1..BlockNum+1
    /\ timer \in {"stopped", "running", "fired"} /\ general \in {"stopped", "running", "fired"}
    /\ caller \in {"away", "cycle", "returned"}
    /\ prmMem \in [1..BlockNum -> Block] /\ samples \in {"ON", "OFF"} /\ silenced \in BOOLEAN
    /\ keepLive \in 0..MAX_KEEP_LIVE_TIME+1

\* The link is reported made only when the PRM's parameters are the host's and
\* the PRM sends samples, unless it refused to or was restarted: no lost,
\* repeated or damaged write, refused write or stale block read gets past the
\* check.
LinkedMeansReady ==
    [][linkStatus' = "LINK_IDLE" /\ linkStatus # "LINK_IDLE"
       => prmMem = HostPrm /\ (samples = "ON" \/ silenced)]_vars

\* A block that has been checked stays equal to the host's while the others are
\* checked: no write of an earlier attempt that is still under way undoes it.
CheckedStaysEqual ==
    linkStatus \in {"LINK_CHECK_PRM", "LINK_MDY_PRM", "LINK_SEND_START", "LINK_SUCCESS"}
        => \A b \in 1..block-1 : prmMem[b] = HostPrm[b]

\* With a PRM that answers within 50 ms, whatever the line loses and the PRM
\* refuses, linking ends: RelinkPRM returns.
RelinkReturns == (Prompt /\ caller # "away") ~> caller = "away"

\* What RelinkPRM leaves behind when it does not even enter its loop.
Skipped == caller = "away" /\ linkStatus = "LINK_SEND_STOP"

\* A host without a link, or one that no longer hears its PRM, links again: a
\* failed linking is tried again also while the PRM goes on sending samples, and
\* a PRM that was taken for linked but sends nothing is noticed.
LinksAgain ==
    (caller = "away" /\ (linkStatus = "LINK_UNLINK" \/ samples = "OFF"))
        ~> (caller # "away" \/ Skipped \/ (linkStatus = "LINK_IDLE" /\ samples = "ON"))

\* The same of every host that has not linked, whatever the local variable of
\* RelinkPRM held.
OfflineIsNoticed == (caller = "away" /\ linkStatus # "LINK_IDLE") ~> caller # "away"
=============================================================================
