---------------------------- MODULE CmdExchange ----------------------------
(***************************************************************************)
(* How the host has a command carried out by the lower controller: the     *)
(* *_pkg functions of cmd.c issue it, and PCM_CmdSendCycle (global.c)      *)
(* blocks the foreground in comm_cycle until it is done or given up.  One  *)
(* call of comm_cycle reads the frames that have arrived and then runs     *)
(* CmdMutualBody once.                                                     *)
(*                                                                         *)
(* The PRM, the line and the soft timer are the environment.  The timer    *)
(* counts down in SysTick_ISR; CMD_MUTUAL_TIMING is a one-shot timer, so   *)
(* only whether it runs or has set its flag matters.  RelinkPRM is one     *)
(* step here: it sends requests of its own and leaves a link status.       *)
(***************************************************************************)
EXTENDS PrmLine

CONSTANTS Command,      \* the commands the host issues
          NoCommand     \* before the first command and the first reply

ASSUME CommandAssumption ==
    /\ NoCommand \notin Command /\ Sample \notin Command /\ Noise \notin Command

VARIABLES linkStatus,       \* g_linkMutual.linkStatus between two relinks
          cmdStatus, sendCnt, pcmLssued, sendIndex,   \* g_cmdMutual
          prmReply,         \* the command whose reply was copied last
          timer,            \* CMD_MUTUAL_TIMING
          sent, runs        \* requests sent for this command, times it was carried out

hostVars == <<linkStatus, cmdStatus, sendCnt, pcmLssued, sendIndex, prmReply>>
vars == <<world, lineVars, hostVars, timer, sent, runs>>

MAX_CMD_LUSSED_CNT == 3
Pending == {"CMD_TX", "CMD_RX"}
LinkStates == {"LINK_IDLE", "LINK_UNLINK", "LINK_SEND_STOP"}

Cap(n, max) == IF n > max THEN max ELSE n     \* bound of the two counts kept for the properties

Init ==
    /\ LineInit
    /\ linkStatus = "LINK_UNLINK"
    /\ cmdStatus = "CMD_IDLE" /\ sendCnt = 0
    /\ pcmLssued = NoCommand /\ sendIndex = NoIndex /\ prmReply = NoCommand
    /\ timer = "stopped"
    /\ sent = 0 /\ runs = 0

-----------------------------------------------------------------------------
(* The callers.                                                            *)

\* A *_pkg function.  Its caller does not issue the next command before
\* PCM_CmdSendCycle has returned.
Issue(c) ==
    /\ cmdStatus \notin Pending
    /\ IF linkStatus = "LINK_IDLE"
       THEN cmdStatus' = "CMD_TX" /\ sendCnt' = 0 /\ pcmLssued' = c
       ELSE cmdStatus' = "CMD_BUSY" /\ UNCHANGED <<sendCnt, pcmLssued>>
    /\ sent' = 0 /\ runs' = 0
    /\ UNCHANGED <<lineVars, linkStatus, sendIndex, prmReply, timer>>

\* RelinkPRM or PowerOnLink, as far as it concerns the exchange of commands:
\* further requests, and any status its loop can end with.
Relink(status) ==
    /\ cmdStatus \notin Pending
    /\ linkStatus' = status
    /\ index_h_asw' = next_index(index_h_asw)
    /\ down' = Aged(down) /\ up' = Aged(up)
    /\ UNCHANGED <<cmdStatus, sendCnt, pcmLssued, sendIndex, prmReply, timer, sent, runs>>

-----------------------------------------------------------------------------
(* comm_cycle, which reads n frames and the beginning of another, followed *)
(* by the branch of CmdMutualBody it takes.                                *)

CyclePoll(n) ==
    /\ cmdStatus \notin Pending
    /\ up' = Unread(n)
    /\ UNCHANGED <<index_h_asw, down, hostVars, timer, sent, runs>>

CycleSendIndexFirst(n) ==                   \* mutant: index_get before the request is sent
    /\ cmdStatus = "CMD_TX"
    /\ Transmit(pcmLssued)
    /\ up' = Aged(Unread(n))
    /\ cmdStatus' = "CMD_RX"
    /\ timer' = "running"
    /\ sendIndex' = index_h_asw
    /\ sent' = Cap(sent + 1, Window)
    /\ UNCHANGED <<linkStatus, sendCnt, pcmLssued, prmReply, runs>>

CycleSend(n) ==                             \* CMD_TX
    /\ cmdStatus = "CMD_TX"
    /\ Transmit(pcmLssued)
    /\ up' = Aged(Unread(n))
    /\ cmdStatus' = "CMD_RX"
    /\ timer' = "running"
    /\ sendIndex' = index_h_asw'
    /\ sent' = Cap(sent + 1, Window)
    /\ UNCHANGED <<linkStatus, sendCnt, pcmLssued, prmReply, runs>>

CycleTimeoutFour(n) ==                      \* mutant: one timeout too many
    /\ cmdStatus = "CMD_RX" /\ timer = "fired"
    /\ timer' = "stopped"
    /\ sendCnt' = sendCnt + 1
    /\ cmdStatus' = IF sendCnt + 1 > MAX_CMD_LUSSED_CNT THEN "CMD_UNLINK" ELSE "CMD_TX"
    /\ up' = Unread(n)
    /\ UNCHANGED <<index_h_asw, down, linkStatus, pcmLssued, sendIndex, prmReply, sent, runs>>

CycleTimeoutForever(n) ==                   \* mutant: timeouts are not counted
    /\ cmdStatus = "CMD_RX" /\ timer = "fired"
    /\ timer' = "stopped"
    /\ cmdStatus' = "CMD_TX"
    /\ up' = Unread(n)
    /\ UNCHANGED <<index_h_asw, down, linkStatus, sendCnt, pcmLssued, sendIndex, prmReply, sent, runs>>

CycleTimeout(n) ==                          \* before any reply is looked at
    /\ cmdStatus = "CMD_RX" /\ timer = "fired"
    /\ timer' = "stopped"
    /\ sendCnt' = sendCnt + 1
    /\ cmdStatus' = IF sendCnt + 1 >= MAX_CMD_LUSSED_CNT THEN "CMD_UNLINK" ELSE "CMD_TX"
    /\ up' = Unread(n)
    /\ UNCHANGED <<index_h_asw, down, linkStatus, pcmLssued, sendIndex, prmReply, sent, runs>>

CycleNoReply(n) ==
    /\ cmdStatus = "CMD_RX" /\ timer # "fired"
    /\ ~ ReplyAccepted(n)
    /\ up' = Unread(n)
    /\ UNCHANGED <<index_h_asw, down, hostVars, timer, sent, runs>>

CycleMismatch(n, begun) ==                  \* sent again, and not counted
    /\ cmdStatus = "CMD_RX" /\ timer # "fired"
    /\ ReplyAccepted(n) /\ uart_get_index(n, begun) # sendIndex
    /\ cmdStatus' = "CMD_TX"
    /\ up' = Unread(n)
    /\ UNCHANGED <<index_h_asw, down, linkStatus, sendCnt, pcmLssued, sendIndex, prmReply, timer, sent, runs>>

CycleMatchAny(n, begun) ==                  \* mutant: the index is not compared
    /\ cmdStatus = "CMD_RX" /\ timer # "fired"
    /\ ReplyAccepted(n)
    /\ cmdStatus' = "CMD_IDLE"
    /\ up' = Unread(n)
    /\ UNCHANGED <<index_h_asw, down, linkStatus, sendCnt, pcmLssued, sendIndex, prmReply, timer, sent, runs>>

\* CmdReceiveBody goes by the command in the buffer, not by the one issued,
\* and copies nothing when it does not know the command.
CycleMatch(n, begun) ==
    /\ cmdStatus = "CMD_RX" /\ timer # "fired"
    /\ ReplyAccepted(n) /\ uart_get_index(n, begun) = sendIndex
    /\ cmdStatus' = "CMD_IDLE"
    /\ prmReply' = IF uart_get_body(n, begun) \in Command THEN uart_get_body(n, begun) ELSE prmReply
    /\ up' = Unread(n)
    /\ UNCHANGED <<index_h_asw, down, linkStatus, sendCnt, pcmLssued, sendIndex, timer, sent, runs>>

-----------------------------------------------------------------------------
(* The environment.                                                        *)

ForThisCommand(f) == f.index # NoIndex /\ f.age < sent

\* The PRM carries out its oldest request and replies to it.
PrmExecutes ==
    /\ PrmTakes
    /\ Head(down).body # Noise
    /\ PrmReplies(Head(down).body)
    /\ runs' = IF ForThisCommand(Head(down)) THEN Cap(runs + 1, 2) ELSE runs
    /\ UNCHANGED <<index_h_asw, hostVars, timer, sent>>

PrmIgnores ==
    /\ PrmTakes
    /\ Head(down).body = Noise
    /\ UNCHANGED <<index_h_asw, up, hostVars, timer, sent, runs>>

LateTimer ==            \* a prompt PRM leaves nothing unanswered for 50 ms
    Prompt => \A s \in {down, up} : \A i \in 1..Len(s) : s[i].body \in {Noise, Sample}

TimerFires ==           \* bsp_SoftTimerDec counts down to zero
    /\ timer = "running" /\ LateTimer
    /\ timer' = "fired"
    /\ UNCHANGED <<lineVars, hostVars, sent, runs>>

Cycle ==
    \E n \in 0..Len(up) :
        \/ CyclePoll(n) \/ CycleSend(n) \/ CycleTimeout(n) \/ CycleNoReply(n)
        \/ \E begun \in Begun(n) : CycleMismatch(n, begun) \/ CycleMatch(n, begun)

Step ==
    \/ \E c \in Command : Issue(c)
    \/ \E status \in LinkStates : Relink(status)
    \/ Cycle
    \/ PrmExecutes
    \/ PrmIgnores
    \/ Sampling /\ PrmSamples /\ UNCHANGED <<hostVars, timer, sent, runs>>
    \/ LineDamages /\ UNCHANGED <<hostVars, timer, sent, runs>>
    \/ TimerFires

Next == Step /\ UNCHANGED world

Spec == Init /\ [][Next]_vars

\* The foreground calls comm_cycle without a pause while a command is
\* pending, bytes on the line arrive, and the PRM works on.  A timer that is
\* started anew before it has run down need not fire: hence "CMD_RX" in the
\* last conjunct, which every new start leaves.  A reply to the last request
\* that arrives again and again is once read before the next frame begins: the
\* host polls without regard to when the PRM sends its samples.
FairSpec ==
    /\ Spec
    /\ WF_vars(UNCHANGED world /\ \E n \in 0..Len(up) : CycleSend(n) \/ CycleTimeout(n))
    /\ WF_vars(UNCHANGED world /\ \E n \in 1..Len(up) : CycleNoReply(n))
    /\ WF_vars(UNCHANGED world /\ \E n \in 1..Len(up) : \E begun \in Begun(n) :
                CycleMismatch(n, begun) \/ CycleMatch(n, begun))
    /\ SF_vars(UNCHANGED world /\ \E n \in 1..Len(up) : CycleMatch(n, "nothing"))
    /\ WF_vars(UNCHANGED world /\ (PrmExecutes \/ PrmIgnores))
    /\ WF_vars(UNCHANGED world /\ cmdStatus = "CMD_RX" /\ TimerFires)

-----------------------------------------------------------------------------
(* Properties.                                                             *)

Frame == [index : (FirstIndex..LastIndex) \cup {NoIndex}, age : 0..Window,
          body : Command \cup {Sample, Noise}]

\* The type invariant.
TypeOK ==
    /\ index_h_asw \in FirstIndex..LastIndex
    /\ down \in Seq(Frame) /\ up \in Seq(Frame)
    /\ linkStatus \in LinkStates
    /\ cmdStatus \in Pending \cup {"CMD_IDLE", "CMD_BUSY", "CMD_UNLINK"}
    /\ sendCnt \in 0..MAX_CMD_LUSSED_CNT
    /\ pcmLssued \in Command \cup {NoCommand} /\ prmReply \in Command \cup {NoCommand}
    /\ sendIndex \in (FirstIndex..LastIndex) \cup {NoIndex}
    /\ timer \in {"stopped", "running", "fired"}
    /\ sent \in 0..Window /\ runs \in 0..2

\* When PCM_CmdSendCycle reports CMD_IDLE the PRM has carried out the command
\* issued last, at least once: no late reply to an earlier command, reused
\* index, overwritten receive buffer or repeated request leads to a success
\* that did not happen.
Op == CASE cmdStatus \in Pending -> "pending"
        [] cmdStatus = "CMD_IDLE" -> IF sent = 0 THEN "none" ELSE "done"
        [] OTHER -> "failed"
Ran == IF runs > 0 THEN "YES" ELSE "NO"
Promise == INSTANCE AtLeastOnce WITH op <- Op, ran <- Ran
SuccessMeansExecuted == Promise!Spec

\* With a PRM that answers within 50 ms, on a line that may lose frames, every
\* command ends: CMD_IDLE, or CMD_UNLINK after three timeouts.
Terminates == (Prompt /\ cmdStatus \in Pending) ~> cmdStatus \notin Pending

\* On a line that loses nothing a prompt PRM that sends no samples meanwhile
\* carries a command out once: it is not repeated while its reply is on the
\* way, and it is never given up.
CarriedOutOnce ==
    Prompt /\ ~Lossy /\ ~Sampling =>
        /\ runs <= 1
        /\ cmdStatus # "CMD_UNLINK"

\* The status that GetPrmReplyStatus returns after a success is that of the
\* reply to the command issued last.
StatusIsOfThisCommand == cmdStatus = "CMD_IDLE" /\ sent > 0 => prmReply = pcmLssued
=============================================================================
