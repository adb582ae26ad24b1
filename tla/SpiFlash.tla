------------------------------ MODULE SpiFlash ------------------------------
(***************************************************************************)
(* The serial flash as bsp_spi_flash.c writes it.  Each area of parameters *)
(* has a sector; what a sector holds is the set of its bits that are 1.    *)
(* Erasing a sector sets its bits, programming can only clear them.        *)
(*                                                                         *)
(* sf_AutoWritePage writes nothing when the sector already holds the data, *)
(* erases only when a bit must go from 0 to 1, reads back what it          *)
(* programmed, and tries at most three times.  The power may be cut        *)
(* between and in the middle of the chip's operations, and an operation of *)
(* the chip may do its work on a part of the bits only.                    *)
(***************************************************************************)
EXTENDS Integers

CONSTANTS Area,         \* the areas of parameters
          Bits,         \* Bits[a]: the bits of area a
          Reached,      \* the areas whose addresses lie below g_tSF.TotalSize
          NoWrite,      \* no write is under way
          Tries,        \* attempts of sf_AutoWritePage, 3 in the code
          MaxFaults     \* bound: attempts of one write the chip may fail in

ASSUME FlashAssumption ==
    /\ Tries \in Nat \ {0} /\ MaxFaults \in Nat /\ MaxFaults < Tries
    /\ Reached \subseteq Area
    /\ NoWrite \notin [area : Area, data : UNION {SUBSET Bits[a] : a \in Area}]

VARIABLES flash,        \* flash[a]: the bits of the sector of a that are 1
          write,        \* the area and the data of the write under way
          step,         \* what sf_AutoWritePage does next
          needErase,    \* ucNeedErase
          tried,        \* i, the attempts that have failed
          faults,       \* history: attempts of this write that the chip failed in
          before,       \* history: what the sector held when this write began
          power

flashVars == <<flash, write, step, needErase, tried, faults, before, power>>

Content(a) == SUBSET Bits[a]
Blank(a) == Bits[a]         \* all bytes 0xff

FlashInit ==
    /\ write = NoWrite /\ step = "idle" /\ needErase = 0 /\ tried = 0 /\ faults = 0 /\ before = {}
    /\ power = "on"

Idle == power = "on" /\ write = NoWrite

-----------------------------------------------------------------------------
\* The callers do not look at what it returns.
sf_WriteBuffer(a, data) ==
    /\ Idle
    /\ IF a \in Reached
       THEN write' = [area |-> a, data |-> data] /\ step' = "compare" /\ before' = flash[a]
       ELSE UNCHANGED <<write, step, before>>
    /\ UNCHANGED <<flash, needErase, tried, faults, power>>

sf_NeedErase(old, new) == IF new \subseteq old THEN 0 ELSE 1

FinishedUnmarked ==     \* mutant: the write stays under way
    step' = "idle" /\ UNCHANGED write /\ needErase' = 0 /\ tried' = 0 /\ faults' = 0 /\ before' = {}

Finished == write' = NoWrite /\ step' = "idle" /\ needErase' = 0 /\ tried' = 0 /\ faults' = 0 /\ before' = {}

Compare ==
    /\ power = "on" /\ step = "compare"
    /\ IF flash[write.area] = write.data
       THEN Finished
       ELSE /\ needErase' = sf_NeedErase(flash[write.area], write.data)
            /\ step' = IF needErase' = 1 THEN "erase" ELSE "program"
            /\ UNCHANGED <<write, tried, faults, before>>
    /\ UNCHANGED <<flash, power>>

\* What an operation of the chip leaves behind that did not do all of its work.
PartlyErased(a) == {s \in Content(a) : flash[a] \subseteq s}
PartlyProgrammed(a, data) == {s \in Content(a) : flash[a] \cap data \subseteq s /\ s \subseteq flash[a]}

Fails == tried < MaxFaults /\ faults' = tried + 1       \* the chip, in this attempt

sf_EraseSector ==
    /\ power = "on" /\ step = "erase"
    /\ step' = "program"
    /\ \/ /\ flash' = [flash EXCEPT ![write.area] = Blank(write.area)]
          /\ UNCHANGED faults
       \/ /\ Fails
          /\ \E s \in PartlyErased(write.area) : flash' = [flash EXCEPT ![write.area] = s]
    /\ UNCHANGED <<write, needErase, tried, before, power>>

sf_PageWrite ==
    /\ power = "on" /\ step = "program"
    /\ step' = "verify"
    /\ \/ /\ flash' = [flash EXCEPT ![write.area] = @ \cap write.data]
          /\ UNCHANGED faults
       \/ /\ Fails
          /\ \E s \in PartlyProgrammed(write.area, write.data) :
                flash' = [flash EXCEPT ![write.area] = s]
    /\ UNCHANGED <<write, needErase, tried, before, power>>

VerifyOnce ==           \* mutant: one attempt less
    /\ power = "on" /\ step = "verify"
    /\ IF flash[write.area] = write.data \/ tried + 2 >= Tries
       THEN Finished
       ELSE /\ tried' = tried + 1
            /\ step' = IF needErase = 1 THEN "erase" ELSE "program"
            /\ UNCHANGED <<write, needErase, faults, before>>
    /\ UNCHANGED <<flash, power>>

sf_CmpData ==
    /\ power = "on" /\ step = "verify"
    /\ IF flash[write.area] = write.data \/ tried + 1 = Tries
       THEN Finished
       ELSE /\ tried' = tried + 1
            /\ step' = IF needErase = 1 THEN "erase" ELSE "program"
            /\ UNCHANGED <<write, needErase, faults, before>>
    /\ UNCHANGED <<flash, power>>

FlashStep == Compare \/ sf_EraseSector \/ sf_PageWrite \/ sf_CmpData

-----------------------------------------------------------------------------
\* The power is cut; the operation the chip is at is left where it is.
PowerCut ==
    /\ power = "on" /\ power' = "off"
    /\ \/ UNCHANGED flash
       \/ step = "erase" /\ \E s \in PartlyErased(write.area) :
                                flash' = [flash EXCEPT ![write.area] = s]
       \/ step = "program" /\ \E s \in PartlyProgrammed(write.area, write.data) :
                                flash' = [flash EXCEPT ![write.area] = s]
    /\ Finished

PowerOn ==
    /\ power = "off" /\ power' = "on"
    /\ UNCHANGED <<flash, write, step, needErase, tried, faults, before>>

\* Any user of the flash.
FlashNext ==
    \/ \E a \in Area : \E data \in Content(a) : sf_WriteBuffer(a, data)
    \/ FlashStep
    \/ PowerCut \/ PowerOn

FlashStart == flash \in [Area -> UNION {Content(a) : a \in Area}] /\ \A a \in Area : flash[a] \in Content(a)

FlashSpec == FlashInit /\ FlashStart /\ [][FlashNext]_flashVars

-----------------------------------------------------------------------------
FlashTypeOK ==
    /\ DOMAIN flash = Area /\ \A a \in Area : flash[a] \in Content(a)
    /\ write # NoWrite => /\ write = [area |-> write.area, data |-> write.data]
                          /\ write.area \in Reached /\ write.data \in Content(write.area)
    /\ step \in {"idle", "compare", "erase", "program", "verify"}
    /\ (step = "idle") = (write = NoWrite)
    /\ needErase \in {0, 1} /\ power \in {"on", "off"}
    /\ tried \in 0..(Tries - 1) /\ faults \in 0..MaxFaults /\ faults <= tried + 1

-----------------------------------------------------------------------------
\* The driver is a register for each area, of which no save is lost while the
\* chip fails in fewer attempts than the driver makes: the sector a save is in
\* the middle of stands for what it held before.
Register == INSTANCE FlashRegister WITH
    stored <- [a \in Area |-> IF write # NoWrite /\ write.area = a THEN before ELSE flash[a]],
    asked <- write, NoSave <- NoWrite

SavesAreKept == Register!Spec
=============================================================================
