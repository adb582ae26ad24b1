--------------------------- MODULE SpiFlashProofs ---------------------------
(***************************************************************************)
(* Proof that the flash driver keeps what it is given to save, for every   *)
(* set of areas, every size of them and every number of attempts, while    *)
(* the chip fails in fewer attempts than the driver makes: FlashSpec       *)
(* implements FlashRegister.                                               *)
(***************************************************************************)
EXTENDS SpiFlash, TLAPS

Stored == [a \in Area |-> IF write # NoWrite /\ write.area = a THEN before ELSE flash[a]]

Requests == UNION {[area : {a}, data : Content(a)] : a \in Area}

-----------------------------------------------------------------------------
(* The inductive invariant.                                                *)

SectorsOK == flash = [a \in Area |-> flash[a]] /\ \A a \in Area : flash[a] \in Content(a)

WriteOK ==
    /\ step = "idle" <=> write = NoWrite
    /\ write # NoWrite => /\ write \in Requests
                          /\ write.area \in Area
                          /\ write.data \in Content(write.area)
                          /\ before \in Content(write.area)

CountersOK ==
    /\ tried \in Nat /\ faults \in Nat
    /\ faults <= MaxFaults /\ tried <= faults /\ faults <= tried + 1

\* The chip has worked in this attempt.
Sound == faults = tried

\* Where no erasing was needed the bits of the data are set in the sector from
\* the first comparison on; where it was, a sound attempt has set them.
AttemptOK ==
    /\ step \in {"idle", "compare"} => needErase = 0 /\ Sound
    /\ step = "compare" => flash[write.area] = before
    /\ step = "erase" => Sound /\ needErase = 1
    /\ step \in {"program", "verify"} /\ needErase # 1 => write.data \subseteq flash[write.area]
    /\ step = "program" /\ Sound => write.data \subseteq flash[write.area]
    /\ step = "verify" /\ Sound => flash[write.area] = write.data
    /\ step \in {"idle", "compare", "erase", "program", "verify"}

IInv == SectorsOK /\ WriteOK /\ CountersOK /\ AttemptOK

-----------------------------------------------------------------------------
LEMMA InitInv == FlashInit /\ FlashStart => IInv
<1> SUFFICES ASSUME FlashInit, FlashStart PROVE IInv
    OBVIOUS
<1>1. SectorsOK
    BY DEF FlashStart, SectorsOK
<1>2. WriteOK /\ AttemptOK
    BY DEF FlashInit, WriteOK, AttemptOK, Sound
<1>3. CountersOK
    BY FlashAssumption DEF FlashInit, CountersOK
<1> QED BY <1>1, <1>2, <1>3 DEF IInv

\* A request is a record with the area and the data it was made of.
LEMMA RequestRecord ==
    ASSUME NEW a \in Area, NEW data \in Content(a)
    PROVE  /\ [area |-> a, data |-> data] \in Requests
           /\ [area |-> a, data |-> data] # NoWrite
<1>1. [area |-> a, data |-> data] \in [area : {a}, data : Content(a)]
    OBVIOUS
<1>2. [area |-> a, data |-> data] \in Requests
    BY <1>1 DEF Requests
<1>3. data \in UNION {SUBSET Bits[b] : b \in Area}
    BY DEF Content
<1>4. [area |-> a, data |-> data] \in [area : Area, data : UNION {SUBSET Bits[b] : b \in Area}]
    BY <1>3
<1> QED BY <1>2, <1>4, FlashAssumption DEF FlashAssumption
(* What each step does to a sector, apart from the rest of the state.      *)

LEMMA SectorUpdate ==
    ASSUME SectorsOK, NEW a \in Area, NEW bits \in Content(a),
           flash' = [flash EXCEPT ![a] = bits]
    PROVE  SectorsOK' /\ flash'[a] = bits /\ \A b \in Area \ {a} : flash'[b] = flash[b]
<1>1. flash'[a] = bits /\ \A b \in Area \ {a} : flash'[b] = flash[b]
    BY DEF SectorsOK
<1>2. \A b \in Area : flash'[b] \in Content(b)
    BY <1>1 DEF SectorsOK
<1>3. flash' = [b \in Area |-> flash'[b]]
    BY DEF SectorsOK
<1> QED BY <1>1, <1>2, <1>3 DEF SectorsOK, Content

\* An operation of the chip touches no other sector than the one being written.
OneSector(a) ==
    /\ flash'[a] \in Content(a)
    /\ flash' = [flash EXCEPT ![a] = flash'[a]]

LEMMA ErasedSector ==
    ASSUME IInv, sf_EraseSector
    PROVE  /\ write # NoWrite /\ SectorsOK' /\ OneSector(write.area)
           /\ \/ flash'[write.area] = Blank(write.area) /\ faults' = faults
              \/ Fails
<1>1. write # NoWrite /\ write.area \in Area
    BY DEF IInv, WriteOK, sf_EraseSector
<1>2. SectorsOK
    BY DEF IInv
<1>3. CASE flash' = [flash EXCEPT ![write.area] = Blank(write.area)] /\ UNCHANGED faults
    <2>1. Blank(write.area) \in Content(write.area)
        BY DEF Blank, Content
    <2> QED BY <1>1, <1>2, <1>3, <2>1, SectorUpdate DEF OneSector
<1>4. CASE Fails /\ \E s \in PartlyErased(write.area) : flash' = [flash EXCEPT ![write.area] = s]
    <2>1. PICK s \in PartlyErased(write.area) : flash' = [flash EXCEPT ![write.area] = s]
        BY <1>4
    <2>2. s \in Content(write.area)
        BY <2>1 DEF PartlyErased
    <2> QED BY <1>1, <1>2, <1>4, <2>1, <2>2, SectorUpdate DEF OneSector
<1> QED BY <1>3, <1>4 DEF sf_EraseSector

LEMMA ProgrammedSector ==
    ASSUME IInv, sf_PageWrite
    PROVE  /\ write # NoWrite /\ SectorsOK' /\ OneSector(write.area)
           /\ flash[write.area] \cap write.data \subseteq flash'[write.area]
           /\ \/ flash'[write.area] = flash[write.area] \cap write.data /\ faults' = faults
              \/ Fails
<1>1. write # NoWrite /\ write.area \in Area /\ write.data \in Content(write.area)
    BY DEF IInv, WriteOK, sf_PageWrite
<1>2. SectorsOK
    BY DEF IInv
<1>3. CASE flash' = [flash EXCEPT ![write.area] = flash[write.area] \cap write.data] /\ UNCHANGED faults
    <2>1. flash[write.area] \cap write.data \in Content(write.area)
        BY <1>1 DEF Content
    <2> QED BY <1>1, <1>2, <1>3, <2>1, SectorUpdate DEF OneSector
<1>4. CASE Fails /\ \E s \in PartlyProgrammed(write.area, write.data) :
                        flash' = [flash EXCEPT ![write.area] = s]
    <2>1. PICK s \in PartlyProgrammed(write.area, write.data) :
                flash' = [flash EXCEPT ![write.area] = s]
        BY <1>4
    <2>2. s \in Content(write.area) /\ flash[write.area] \cap write.data \subseteq s
        BY <2>1 DEF PartlyProgrammed
    <2>3. SectorsOK' /\ flash'[write.area] = s
        BY <1>1, <1>2, <2>1, <2>2, SectorUpdate
    <2>4. OneSector(write.area)
        BY <2>1, <2>2, <2>3 DEF OneSector
    <2> QED BY <1>1, <1>4, <2>2, <2>3, <2>4
<1> QED BY <1>3, <1>4 DEF sf_PageWrite

LEMMA CutSector ==
    ASSUME IInv, PowerCut
    PROVE  /\ SectorsOK'
           /\ write = NoWrite => flash' = flash
           /\ write # NoWrite => OneSector(write.area)
<1>1. SectorsOK
    BY DEF IInv
<1>2. CASE UNCHANGED flash
    <2>1. write # NoWrite => write.area \in Area
        BY DEF IInv, WriteOK
    <2>2. SectorsOK'
        BY <1>1, <1>2 DEF SectorsOK, Content
    <2>3. \A a \in Area : flash = [flash EXCEPT ![a] = flash[a]]
        BY <1>1 DEF SectorsOK
    <2>4. \A a \in Area : flash[a] \in Content(a)
        BY <1>1 DEF SectorsOK
    <2>5. write # NoWrite => OneSector(write.area)
        BY <1>2, <2>1, <2>3, <2>4 DEF OneSector
    <2> QED BY <1>2, <2>2, <2>5
<1>3. CASE step = "erase" /\ \E s \in PartlyErased(write.area) : flash' = [flash EXCEPT ![write.area] = s]
    <2>1. write # NoWrite /\ write.area \in Area
        BY <1>3 DEF IInv, WriteOK
    <2>2. PICK s \in PartlyErased(write.area) : flash' = [flash EXCEPT ![write.area] = s]
        BY <1>3
    <2>3. s \in Content(write.area)
        BY <2>2 DEF PartlyErased
    <2> QED BY <1>1, <2>1, <2>2, <2>3, SectorUpdate DEF OneSector
<1>4. CASE step = "program" /\ \E s \in PartlyProgrammed(write.area, write.data) :
                                    flash' = [flash EXCEPT ![write.area] = s]
    <2>1. write # NoWrite /\ write.area \in Area
        BY <1>4 DEF IInv, WriteOK
    <2>2. PICK s \in PartlyProgrammed(write.area, write.data) :
                flash' = [flash EXCEPT ![write.area] = s]
        BY <1>4
    <2>3. s \in Content(write.area)
        BY <2>2 DEF PartlyProgrammed
    <2> QED BY <1>1, <2>1, <2>2, <2>3, SectorUpdate DEF OneSector
<1> QED BY <1>2, <1>3, <1>4 DEF PowerCut

-----------------------------------------------------------------------------
(* The invariant is inductive: one lemma for each step.                    *)

LEMMA BeginInv ==
    ASSUME IInv, NEW a \in Area, NEW data \in Content(a), sf_WriteBuffer(a, data)
    PROVE  IInv'
<1>1. CASE a \notin Reached
    <2>1. UNCHANGED flashVars
        BY <1>1 DEF sf_WriteBuffer, flashVars
    <2> QED BY <2>1 DEF IInv, flashVars, SectorsOK, WriteOK, CountersOK, AttemptOK, Sound, Requests, Content
<1>2. CASE a \in Reached
    <2>1. write' = [area |-> a, data |-> data] /\ step' = "compare" /\ before' = flash[a]
        BY <1>2 DEF sf_WriteBuffer
    <2>2. write' # NoWrite /\ write' \in Requests /\ write'.area = a /\ write'.data = data
        BY <2>1, RequestRecord
    <2>3. UNCHANGED <<flash, needErase, tried, faults>>
        BY DEF sf_WriteBuffer
    <2>4. SectorsOK'
        BY <2>3 DEF IInv, SectorsOK, Content
    <2>5. WriteOK'
        BY <2>1, <2>2 DEF IInv, WriteOK, SectorsOK, Requests, Content
    <2>6. CountersOK'
        BY <2>3 DEF IInv, CountersOK
    <2>7. needErase = 0 /\ Sound
        BY DEF sf_WriteBuffer, Idle, IInv, WriteOK, AttemptOK, CountersOK, Sound
    <2> QED BY <2>1, <2>2, <2>3, <2>4, <2>5, <2>6, <2>7 DEF IInv, AttemptOK, Sound
<1> QED BY <1>1, <1>2
LEMMA CompareInv == ASSUME IInv, Compare PROVE IInv'
<1>1. write # NoWrite /\ write.area \in Area /\ tried = faults /\ needErase = 0
    BY DEF IInv, WriteOK, AttemptOK, Sound, Compare
<1>2. SectorsOK'
    BY DEF IInv, SectorsOK, Compare, Content
<1>3. CASE flash[write.area] = write.data
    <2>1. write' = NoWrite /\ step' = "idle" /\ needErase' = 0 /\ tried' = 0 /\ faults' = 0
        BY <1>3 DEF Compare, Finished
    <2> QED BY <1>2, <2>1, FlashAssumption DEF IInv, WriteOK, CountersOK, AttemptOK, Sound, FlashAssumption
<1>4. CASE flash[write.area] # write.data
    <2>1. UNCHANGED <<flash, write, tried, faults, before>>
        BY <1>4 DEF Compare
    <2>2. needErase' = sf_NeedErase(flash[write.area], write.data)
          /\ step' = IF needErase' = 1 THEN "erase" ELSE "program"
        BY <1>4 DEF Compare
    <2>3. WriteOK'
        BY <1>1, <2>1, <2>2 DEF IInv, WriteOK, Requests, Content
    <2>4. CountersOK'
        BY <2>1 DEF IInv, CountersOK
    <2>5. AttemptOK'
        BY <1>1, <2>1, <2>2 DEF AttemptOK, Sound, sf_NeedErase
    <2> QED BY <1>2, <2>3, <2>4, <2>5 DEF IInv
<1> QED BY <1>3, <1>4

\* The chip does not fail in more attempts than the bound allows.
LEMMA FailsCounted ==
    ASSUME IInv, UNCHANGED tried, faults' = faults \/ Fails
    PROVE  CountersOK' /\ (faults' # faults => faults' = tried + 1) /\ (Sound' => Sound /\ faults' = faults)
<1> QED BY FlashAssumption DEF IInv, CountersOK, Fails, Sound, FlashAssumption

LEMMA EraseInv == ASSUME IInv, sf_EraseSector PROVE IInv'
<1>1. write # NoWrite /\ SectorsOK' /\ ((flash'[write.area] = Blank(write.area) /\ faults' = faults) \/ Fails)
    BY ErasedSector
<1>2. UNCHANGED <<write, needErase, tried, before>> /\ step = "erase" /\ step' = "program"
    BY DEF sf_EraseSector
<1>3. CountersOK' /\ (Sound' => Sound /\ faults' = faults)
    BY <1>1, <1>2, FailsCounted
<1>4. WriteOK'
    BY <1>1, <1>2 DEF IInv, WriteOK, Requests, Content
<1>5. needErase = 1
    BY <1>2 DEF IInv, AttemptOK
<1>6. Sound' => write.data \subseteq flash'[write.area]
    <2> SUFFICES ASSUME Sound' PROVE write.data \subseteq flash'[write.area]
        OBVIOUS
    <2>1. faults' = faults
        BY <1>3
    <2>2. ~Fails
        BY <1>3, <2>1 DEF Fails, IInv, CountersOK, Sound
    <2>3. write.data \in Content(write.area)
        BY <1>1 DEF IInv, WriteOK
    <2> QED BY <1>1, <2>2, <2>3 DEF Blank, Content
<1>7. AttemptOK'
    BY <1>2, <1>5, <1>6 DEF AttemptOK
<1> QED BY <1>1, <1>3, <1>4, <1>7 DEF IInv

LEMMA ProgramInv == ASSUME IInv, sf_PageWrite PROVE IInv'
<1>1. /\ write # NoWrite /\ SectorsOK'
      /\ flash[write.area] \cap write.data \subseteq flash'[write.area]
      /\ (flash'[write.area] = flash[write.area] \cap write.data /\ faults' = faults) \/ Fails
    BY ProgrammedSector
<1>2. UNCHANGED <<write, needErase, tried, before>> /\ step = "program" /\ step' = "verify"
    BY DEF sf_PageWrite
<1>3. CountersOK' /\ (Sound' => Sound /\ faults' = faults)
    BY <1>1, <1>2, FailsCounted
<1>4. WriteOK'
    BY <1>1, <1>2 DEF IInv, WriteOK, Requests, Content
<1>5. needErase # 1 => write.data \subseteq flash'[write.area]
    BY <1>1, <1>2 DEF IInv, AttemptOK
<1>6. Sound' => flash'[write.area] = write.data
    <2> SUFFICES ASSUME Sound' PROVE flash'[write.area] = write.data
        OBVIOUS
    <2>1. faults' = faults /\ Sound
        BY <1>3
    <2>2. ~Fails
        BY <2>1 DEF Fails, IInv, CountersOK, Sound
    <2>3. write.data \subseteq flash[write.area]
        BY <1>2, <2>1 DEF IInv, AttemptOK
    <2> QED BY <1>1, <2>2, <2>3
<1>7. AttemptOK'
    BY <1>2, <1>5, <1>6 DEF AttemptOK
<1> QED BY <1>1, <1>3, <1>4, <1>7 DEF IInv

LEMMA VerifyInv == ASSUME IInv, sf_CmpData PROVE IInv'
<1>1. write # NoWrite /\ step = "verify" /\ UNCHANGED flash
    BY DEF IInv, WriteOK, sf_CmpData
<1>2. SectorsOK'
    BY <1>1 DEF IInv, SectorsOK, Content
<1>3. CASE flash[write.area] = write.data \/ tried + 1 = Tries
    <2>1. write' = NoWrite /\ step' = "idle" /\ needErase' = 0 /\ tried' = 0 /\ faults' = 0
        BY <1>3 DEF sf_CmpData, Finished
    <2> QED BY <1>2, <2>1, FlashAssumption DEF IInv, WriteOK, CountersOK, AttemptOK, Sound, FlashAssumption
<1>4. CASE ~(flash[write.area] = write.data \/ tried + 1 = Tries)
    <2>1. /\ UNCHANGED <<flash, write, needErase, faults, before>>
          /\ tried' = tried + 1 /\ step' = IF needErase = 1 THEN "erase" ELSE "program"
        BY <1>1, <1>4 DEF sf_CmpData
    <2>2. faults = tried + 1 /\ tried \in Nat /\ faults <= MaxFaults
        BY <1>1, <1>4 DEF IInv, AttemptOK, CountersOK, Sound
    <2>3. WriteOK'
        BY <1>1, <2>1 DEF IInv, WriteOK, Requests, Content
    <2>4. CountersOK' /\ Sound'
        BY <2>1, <2>2, FlashAssumption DEF CountersOK, Sound, FlashAssumption
    <2>5. needErase # 1 => write.data \subseteq flash[write.area]
        BY <1>1 DEF IInv, AttemptOK
    <2>6. AttemptOK'
        BY <2>1, <2>4, <2>5 DEF AttemptOK
    <2> QED BY <1>2, <2>3, <2>4, <2>6 DEF IInv
<1> QED BY <1>3, <1>4

LEMMA PowerInv == ASSUME IInv, PowerCut \/ PowerOn PROVE IInv'
<1>1. CASE PowerCut
    <2>1. SectorsOK'
        BY <1>1, CutSector
    <2>2. write' = NoWrite /\ step' = "idle" /\ needErase' = 0 /\ tried' = 0 /\ faults' = 0
        BY <1>1 DEF PowerCut, Finished
    <2> QED BY <2>1, <2>2, FlashAssumption DEF IInv, WriteOK, CountersOK, AttemptOK, Sound, FlashAssumption
<1>2. CASE PowerOn
    <2>1. UNCHANGED <<flash, write, step, needErase, tried, faults, before>>
        BY <1>2 DEF PowerOn
    <2> QED BY <2>1 DEF IInv, SectorsOK, WriteOK, CountersOK, AttemptOK, Sound, Requests, Content
<1> QED BY <1>1, <1>2

LEMMA StepInv == IInv /\ [FlashNext]_flashVars => IInv'
<1> SUFFICES ASSUME IInv, [FlashNext]_flashVars PROVE IInv'
    OBVIOUS
<1>1. CASE UNCHANGED flashVars
    BY <1>1 DEF flashVars, IInv, SectorsOK, WriteOK, CountersOK, AttemptOK, Sound, Requests, Content
<1>2. CASE \E a \in Area : \E data \in Content(a) : sf_WriteBuffer(a, data)
    BY <1>2, BeginInv
<1>3. CASE FlashStep
    BY <1>3, CompareInv, EraseInv, ProgramInv, VerifyInv DEF FlashStep
<1>4. CASE PowerCut \/ PowerOn
    BY <1>4, PowerInv
<1> QED BY <1>1, <1>2, <1>3, <1>4 DEF FlashNext
-----------------------------------------------------------------------------
(* The refinement: every step is a step of the registers or none.          *)

\* What the refinement makes of the sectors while only the one being written
\* changes, and when it has been written.
LEMMA StoredKept ==
    ASSUME SectorsOK, WriteOK, write # NoWrite, OneSector(write.area), UNCHANGED <<write, before>>
    PROVE  Stored' = Stored
<1>1. \A a \in Area : (IF write # NoWrite /\ write.area = a THEN before ELSE flash'[a])
                      = (IF write # NoWrite /\ write.area = a THEN before ELSE flash[a])
    BY DEF OneSector, SectorsOK
<1> QED BY <1>1 DEF Stored

LEMMA StoredReplaced ==
    ASSUME SectorsOK, WriteOK, write # NoWrite, OneSector(write.area), write' = NoWrite
    PROVE  Stored' = [Stored EXCEPT ![write.area] = flash'[write.area]]
<1>1. write.area \in Area
    BY DEF WriteOK
<1>2. \A a \in Area : flash'[a] = IF a = write.area THEN flash'[write.area] ELSE flash[a]
    BY <1>1 DEF OneSector, SectorsOK
<1>3. Stored' = [a \in Area |-> flash'[a]]
    BY DEF Stored
<1>4. Stored = [a \in Area |-> IF write.area = a THEN before ELSE flash[a]]
    BY DEF Stored
<1> QED BY <1>1, <1>2, <1>3, <1>4

LEMMA BeginRefines ==
    ASSUME IInv, NEW a \in Area, NEW data \in Content(a), sf_WriteBuffer(a, data)
    PROVE  Register!Next \/ UNCHANGED <<Stored, write, power>>
<1>1. power = "on" /\ write = NoWrite /\ UNCHANGED <<flash, power>>
    BY DEF sf_WriteBuffer, Idle
<1>2. CASE a \notin Reached
    <2>1. UNCHANGED <<write, before>>
        BY <1>2 DEF sf_WriteBuffer
    <2> QED BY <1>1, <2>1 DEF Stored
<1>3. CASE a \in Reached
    <2>1. write' = [area |-> a, data |-> data] /\ before' = flash[a]
        BY <1>3 DEF sf_WriteBuffer
    <2>2. write' \in Requests /\ write' # NoWrite /\ write'.area = a
        BY <2>1, RequestRecord
    <2>3. Stored' = Stored
        <3>1. Stored = [b \in Area |-> flash[b]]
            BY <1>1 DEF Stored
        <3>2. Stored' = [b \in Area |-> IF write'.area = b THEN before' ELSE flash[b]]
            BY <1>1, <2>2 DEF Stored
        <3> QED BY <2>1, <2>2, <3>1, <3>2
    <2>4. \E request \in Requests : write' = request
        BY <2>2
    <2> QED BY <1>1, <2>3, <2>4 DEF Register!Next, Register!Ask, Register!Request, Stored, Requests
<1> QED BY <1>2, <1>3

LEMMA FinishRefines ==
    ASSUME IInv, write # NoWrite, power = "on", UNCHANGED <<flash, power>>, Finished,
           flash[write.area] = write.data
    PROVE  Register!Finish
<1>1. SectorsOK /\ WriteOK /\ write' = NoWrite
    BY DEF IInv, Finished
<1>2. OneSector(write.area)
    <2>1. write.area \in Area /\ flash[write.area] \in Content(write.area)
        BY <1>1 DEF WriteOK, SectorsOK
    <2>2. flash = [flash EXCEPT ![write.area] = flash[write.area]]
        BY <1>1, <2>1 DEF SectorsOK
    <2> QED BY <2>1, <2>2 DEF OneSector
<1>3. Stored' = [Stored EXCEPT ![write.area] = write.data]
    BY <1>1, <1>2, StoredReplaced
<1> QED BY <1>1, <1>3 DEF Register!Finish, Stored

LEMMA CompareRefines == ASSUME IInv, Compare PROVE Register!Next \/ UNCHANGED <<Stored, write, power>>
<1>1. write # NoWrite /\ power = "on" /\ UNCHANGED <<flash, power>>
    BY DEF IInv, WriteOK, Compare
<1>2. CASE flash[write.area] = write.data
    <2>1. Finished
        BY <1>2 DEF Compare
    <2> QED BY <1>1, <1>2, <2>1, FinishRefines DEF Register!Next
<1>3. CASE flash[write.area] # write.data
    <2>1. UNCHANGED <<write, before>>
        BY <1>3 DEF Compare
    <2> QED BY <1>1, <2>1 DEF Stored
<1> QED BY <1>2, <1>3

LEMMA ChipRefines ==
    ASSUME IInv, sf_EraseSector \/ sf_PageWrite
    PROVE  UNCHANGED <<Stored, write, power>>
<1>1. write # NoWrite /\ OneSector(write.area)
    BY ErasedSector, ProgrammedSector
<1>2. UNCHANGED <<write, before, power>>
    BY DEF sf_EraseSector, sf_PageWrite
<1> QED BY <1>1, <1>2, StoredKept DEF IInv

\* The last attempt is one in which the chip works.
LEMMA VerifyRefines == ASSUME IInv, sf_CmpData PROVE Register!Next \/ UNCHANGED <<Stored, write, power>>
<1>1. write # NoWrite /\ power = "on" /\ UNCHANGED <<flash, power>> /\ step = "verify"
    BY DEF IInv, WriteOK, sf_CmpData
<1>2. CASE flash[write.area] = write.data \/ tried + 1 = Tries
    <2>1. Finished
        BY <1>2 DEF sf_CmpData
    <2>2. tried + 1 = Tries => Sound
        BY FlashAssumption DEF IInv, CountersOK, Sound, FlashAssumption
    <2>3. flash[write.area] = write.data
        BY <1>1, <1>2, <2>2 DEF IInv, AttemptOK
    <2> QED BY <1>1, <2>1, <2>3, FinishRefines DEF Register!Next
<1>3. CASE ~(flash[write.area] = write.data \/ tried + 1 = Tries)
    <2>1. UNCHANGED <<write, before>>
        BY <1>1, <1>3 DEF sf_CmpData
    <2> QED BY <1>1, <2>1 DEF Stored
<1> QED BY <1>2, <1>3

LEMMA CutRefines == ASSUME IInv, PowerCut PROVE Register!Cut
<1>1. power = "on" /\ power' = "off" /\ write' = NoWrite
    BY DEF PowerCut, Finished
<1>2. CASE write = NoWrite
    <2>1. flash' = flash
        BY <1>2, CutSector
    <2>2. Stored' = Stored
        BY <1>1, <1>2, <2>1 DEF Stored
    <2> QED BY <1>1, <1>2, <2>2 DEF Register!Cut, Stored
<1>3. CASE write # NoWrite
    <2>1. OneSector(write.area)
        BY <1>3, CutSector
    <2>2. Stored' = [Stored EXCEPT ![write.area] = flash'[write.area]]
        BY <1>1, <1>3, <2>1, StoredReplaced DEF IInv
    <2>3. flash'[write.area] \in Content(write.area)
        BY <2>1 DEF OneSector
    <2>4. \E rubbish \in Content(write.area) : Stored' = [Stored EXCEPT ![write.area] = rubbish]
        BY <2>2, <2>3
    <2> QED BY <1>1, <1>3, <2>4 DEF Register!Cut, Stored
<1> QED BY <1>2, <1>3

LEMMA OnRefines == ASSUME PowerOn PROVE Register!Restart
BY DEF PowerOn, Register!Restart

LEMMA StepRefines == IInv /\ [FlashNext]_flashVars => [Register!Next]_<<Stored, write, power>>
<1> SUFFICES ASSUME IInv, [FlashNext]_flashVars PROVE Register!Next \/ UNCHANGED <<Stored, write, power>>
    OBVIOUS
<1>1. CASE UNCHANGED flashVars
    BY <1>1 DEF flashVars, Stored
<1>2. CASE \E a \in Area : \E data \in Content(a) : sf_WriteBuffer(a, data)
    BY <1>2, BeginRefines
<1>3. CASE FlashStep
    BY <1>3, CompareRefines, ChipRefines, VerifyRefines DEF FlashStep
<1>4. CASE PowerCut \/ PowerOn
    BY <1>4, CutRefines, OnRefines DEF Register!Next
<1> QED BY <1>1, <1>2, <1>3, <1>4 DEF FlashNext

\* A save that ends with the power on has stored what it was given, and a power
\* cut spoils no area but the one being saved: the driver of the serial flash,
\* for any user of it, is a register for each area.
THEOREM FlashKeepsSaves == FlashSpec => SavesAreKept
<1>1. FlashInit /\ FlashStart => IInv
    BY InitInv
<1>2. IInv /\ [FlashNext]_flashVars => IInv'
    BY StepInv
<1>3. FlashInit /\ FlashStart => Register!Init
    BY DEF FlashInit, FlashStart, Register!Init
<1>4. IInv /\ [FlashNext]_flashVars => [Register!Next]_(Register!vars)
    BY StepRefines DEF Register!vars, Stored
<1> QED BY <1>1, <1>2, <1>3, <1>4, PTL DEF FlashSpec, SavesAreKept, Register!Spec

-----------------------------------------------------------------------------
\* The types, beyond what the invariant says.
FlashTypes ==
    /\ write # NoWrite => write.area \in Reached
    /\ needErase \in {0, 1} /\ power \in {"on", "off"}

LEMMA FlashTyped == ASSUME FlashTypes, [FlashNext]_flashVars PROVE FlashTypes'
<1>1. CASE UNCHANGED flashVars
    BY <1>1 DEF flashVars, FlashTypes
<1>2. ASSUME NEW a \in Area, NEW data \in Content(a), sf_WriteBuffer(a, data) PROVE FlashTypes'
    <2>1. CASE a \in Reached
        <3>1. write' = [area |-> a, data |-> data] /\ UNCHANGED <<needErase, power>>
            BY <1>2, <2>1 DEF sf_WriteBuffer
        <3> QED BY <2>1, <3>1 DEF FlashTypes
    <2>2. CASE a \notin Reached
        BY <1>2, <2>2 DEF sf_WriteBuffer, FlashTypes
    <2> QED BY <2>1, <2>2
<1>3. CASE Compare
    BY <1>3 DEF Compare, Finished, sf_NeedErase, FlashTypes
<1>4. CASE sf_EraseSector \/ sf_PageWrite
    BY <1>4 DEF sf_EraseSector, sf_PageWrite, FlashTypes
<1>5. CASE sf_CmpData
    BY <1>5 DEF sf_CmpData, Finished, FlashTypes
<1>6. CASE PowerCut \/ PowerOn
    BY <1>6 DEF PowerCut, PowerOn, Finished, FlashTypes
<1> QED BY <1>1, <1>2, <1>3, <1>4, <1>5, <1>6 DEF FlashNext, FlashStep

\* The driver writes to no sector beyond the end of the chip, and the attempts
\* of a write are fewer than it makes at most, however the chip fails.
THEOREM FlashTypeCorrect == FlashSpec => []FlashTypeOK
<1>1. FlashInit => FlashTypes
    BY DEF FlashInit, FlashTypes
<1>2. IInv /\ FlashTypes => FlashTypeOK
    <2> SUFFICES ASSUME IInv, FlashTypes PROVE FlashTypeOK
        OBVIOUS
    <2>1. DOMAIN flash = Area /\ \A a \in Area : flash[a] \in Content(a)
        BY DEF IInv, SectorsOK
    <2>2. ASSUME write # NoWrite
          PROVE  /\ write = [area |-> write.area, data |-> write.data]
                 /\ write.area \in Reached /\ write.data \in Content(write.area)
        <3>1. write \in Requests /\ write.data \in Content(write.area)
            BY <2>2 DEF IInv, WriteOK
        <3>2. PICK a \in Area : write \in [area : {a}, data : Content(a)]
            BY <3>1 DEF Requests
        <3>3. write = [area |-> write.area, data |-> write.data]
            BY <3>2
        <3> QED BY <2>2, <3>1, <3>3 DEF FlashTypes
    <2>3. step \in {"idle", "compare", "erase", "program", "verify"} /\ (step = "idle") = (write = NoWrite)
        BY DEF IInv, AttemptOK, WriteOK
    <2>4. tried \in 0..(Tries - 1) /\ faults \in 0..MaxFaults /\ faults <= tried + 1
        BY FlashAssumption DEF IInv, CountersOK, FlashAssumption
    <2> QED BY <2>1, <2>2, <2>3, <2>4 DEF FlashTypeOK, FlashTypes
<1>3. IInv /\ [FlashNext]_flashVars => IInv'
    BY StepInv
<1>4. FlashTypes /\ [FlashNext]_flashVars => FlashTypes'
    BY FlashTyped
<1> QED BY <1>1, <1>2, <1>3, <1>4, InitInv, PTL DEF FlashSpec
=============================================================================
