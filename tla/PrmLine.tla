------------------------------ MODULE PrmLine ------------------------------
(***************************************************************************)
(* The serial line between the host and the lower controller (PRM), as     *)
(* cmd.c and protocol.c use it: the frames on their way in each direction, *)
(* the index every request carries and its reply repeats, and the one      *)
(* receive buffer g_uartPackageRxBuff into which all frames are parsed.    *)
(*                                                                         *)
(* A frame is a record.  "age" is not transmitted: it counts the requests  *)
(* sent after the one the frame belongs to.  Indices are reused, so the    *)
(* line is assumed to be done with a frame before Window further requests  *)
(* have been sent (a request is repeated every 50 ms).                     *)
(***************************************************************************)
EXTENDS Integers, Sequences

CONSTANTS FirstIndex, LastIndex,    \* range of INDEX_H_ASW: 0x20 .. 0x7F
          Window,                   \* a frame is gone after that many further requests
          LineCap,                  \* bound: frames under way in one direction
          Worlds,                   \* the lines and lower controllers considered
          NoIndex,                  \* index of a frame that answers no request
          Sample,                   \* body of a RTM_SAMPLE_* frame
          Noise                     \* body of a frame with a wrong CRC

IndexNum == LastIndex - FirstIndex + 1

ASSUME IndexAssumption ==
    /\ FirstIndex \in Nat /\ LastIndex \in Nat /\ Window \in Nat \ {0}
    /\ Window <= IndexNum
    /\ NoIndex \notin Nat
ASSUME LineAssumption ==
    /\ LineCap \in Nat \ {0} /\ Sample # Noise
    /\ Worlds \subseteq [lossy : BOOLEAN, prompt : BOOLEAN, sampling : BOOLEAN]

VARIABLES world,            \* what the line and the PRM are like; never changes
          index_h_asw,      \* the index of the last request sent
          down, up          \* frames under way to the PRM, to the host

Lossy == world.lossy            \* may the line lose and damage frames?
Prompt == world.prompt          \* does the PRM always answer within 50 ms?
Sampling == world.sampling      \* does the PRM send samples between its replies?

lineVars == <<index_h_asw, down, up>>

LineInit == world \in Worlds /\ index_h_asw = LastIndex /\ down = <<>> /\ up = <<>>

NextIndexEarly(i) == IF i + 1 > LastIndex - 1 THEN FirstIndex ELSE i + 1    \* mutant: reuses sooner

next_index(i) == IF i + 1 > LastIndex THEN FirstIndex ELSE i + 1

Forgotten == [index |-> NoIndex, age |-> Window, body |-> Noise]

Older(f) == IF f.index = NoIndex THEN f
            ELSE IF f.age + 1 < Window THEN [f EXCEPT !.age = f.age + 1]
            ELSE Forgotten
Aged(s) == [i \in 1..Len(s) |-> Older(s[i])]

\* uart_send_package with the next index.  ComSend drops what does not fit
\* into the send buffer and its result is ignored: the request is cut short.
Transmit(request) ==
    /\ index_h_asw' = next_index(index_h_asw)
    /\ \/ /\ Len(down) < LineCap
          /\ down' = Append(Aged(down), [index |-> next_index(index_h_asw), age |-> 0, body |-> request])
       \/ /\ Lossy \/ Len(down) >= LineCap
          /\ down' = Aged(down)

\* The PRM takes its oldest request off the line and replies, unless the
\* request reached it damaged.
PrmTakes == down # <<>> /\ down' = Tail(down)
PrmReplies(reply) ==
    \/ /\ Len(up) < LineCap
       /\ up' = Append(up, [Head(down) EXCEPT !.body = reply])
    \/ /\ Lossy \/ Len(up) >= LineCap
       /\ up' = up

PrmSamples ==
    /\ Len(up) < LineCap
    /\ up' = Append(up, [index |-> NoIndex, age |-> 0, body |-> Sample])
    /\ UNCHANGED <<index_h_asw, down>>

LineDamages ==
    /\ Lossy
    /\ \/ /\ \E i \in 1..Len(up) : up' = [up EXCEPT ![i].body = Noise]
          /\ UNCHANGED down
       \/ /\ \E i \in 1..Len(down) : down' = [down EXCEPT ![i].body = Noise]
          /\ UNCHANGED up
    /\ UNCHANGED index_h_asw

-----------------------------------------------------------------------------
(* What one call of comm_cycle or link_cycle reads: the first n frames of  *)
(* up completely and, when more bytes have arrived, the beginning of the   *)
(* next one, as far as its index or as far as its body.                    *)

Begun(n) == IF n < Len(up) THEN {"nothing", "index", "body"} ELSE {"nothing"}

Unread(n) == SubSeq(up, n + 1, Len(up))

ReplyAccepted(n) == \E i \in 1..n : up[i].body \notin {Sample, Noise}

\* What g_uartPackageRxBuff then holds (n = 0: the frame before, never used).
uart_get_index(n, begun) == IF begun = "nothing" THEN up[n].index ELSE up[n + 1].index
uart_get_body(n, begun) == IF begun = "body" THEN up[n + 1].body ELSE up[n].body

-----------------------------------------------------------------------------
\* The index carried by the request n requests before the one with index i.
IndexBefore(i, n) == IF i - n >= FirstIndex THEN i - n ELSE i - n + IndexNum

\* The index identifies the request as long as frames are not older than the
\* line allows, also where protocol.c wraps from 0x7F back to 0x20: only a
\* frame that belongs to the last request carries the index of the last one.
IndexIdentifies ==
    \A f \in {up[i] : i \in 1..Len(up)} \cup {down[i] : i \in 1..Len(down)} :
        f.index = index_h_asw => f.age = 0
=============================================================================
