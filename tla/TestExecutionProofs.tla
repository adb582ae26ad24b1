------------------------- MODULE TestExecutionProofs -------------------------
(***************************************************************************)
(* The execution of a test, for any sizes of groups and pages, forces and  *)
(* criteria of a break: the peak that is recorded, the pieces of a report, *)
(* and what the page shows of the card.                                    *)
(***************************************************************************)
EXTENDS TestExecution, WellFoundedInduction, TLAPS

PeakStates == {"PEAK_IDLE", "PEAK_SHOW", "PEAK_KEEP"}

ReportType == [num : SampleNums \cup {0}, sample : Nat, complete : BOOLEAN, force : [Piece -> Forces]]
FileType == [state : {"none", "truncated", "saved"}, report : ReportType]
MType ==
    [status : Status, peakStatus : PeakStates, breakPeak : Forces, peakDelayTime : 0 .. StayTime,
     pieceComplete : BOOLEAN, groupComplete : BOOLEAN, cancelLastPiece : BOOLEAN,
     handEndOneGroup : BOOLEAN, startJudgeBreak : BOOLEAN, testAfterDispose : BOOLEAN,
     autoUpdateSerial : BOOLEAN, curComplete : Nat, sumSampleNum : SampleNums \cup {0}, curPage : Nat,
     report : ReportType, serial : 0 .. MaxSerial, num : SampleNums \cup {0}, leavePage : BOOLEAN,
     page : {"MAIN", "TEST_PARAMETER", "TEST_REPORT"}]

Phases == {"keys", "sample", "core", "open", "write", "leave", "away"}

\* The types, but for the counts of pieces, which are only bounded while the
\* card answers.
TypeInv ==
    /\ m \in MType /\ judge \in JudgeType /\ files \in [0 .. MaxSerial -> FileType]
    /\ force \in Forces /\ loadPeak \in Forces
    /\ pc \in Phases

LEMMA Constants ==
    /\ Forces \subseteq Nat /\ 0 \in Forces /\ SampleNums \subseteq 1 .. MAX_RECORD
    /\ PageSize \in Nat \ {0} /\ MAX_RECORD \in Nat \ {0} /\ MaxSerial \in Nat /\ StayTime \in Nat
    /\ StartLoad \in Nat /\ BreakStart \in Nat /\ BreakTarget \in Nat
    /\ ADJOIN_DOWN_POINT_NUM \in Nat \ {0} /\ MAX_DOWN_POINT_NUM \in Nat
BY SizeAssumption, ThresholdAssumption, BoundAssumption, ForceAssumption, PointAssumption, TargetAssumption

LEMMA MinOf == ASSUME NEW S \in SUBSET Nat, S # {} PROVE Min(S) \in S
<1>1. PICK x \in S : \A y \in S : ~ (<<y, x>> \in OpToRel(<, Nat))
    BY NatLessThanWellFounded, WFMin
<1>2. ASSUME NEW y \in S PROVE x =< y
    <2>1. <<y, x>> \notin {ss \in Nat \X Nat : ss[1] < ss[2]}
        BY <1>1 DEF OpToRel
    <2>2. x \in Nat /\ y \in Nat
        OBVIOUS
    <2> QED BY <2>1, <2>2
<1> QED BY <1>2 DEF Min

LEMMA PagesNat == ASSUME NEW n \in Nat PROVE PagesOf(n) \in Nat
<1>1. PICK k \in Nat \ {0} : k = PageSize
    BY Constants
<1>2. n + k - 1 \in Nat
    OBVIOUS
<1>3. (n + k - 1) \div k \in Nat
    BY <1>2
<1> QED BY <1>1, <1>3 DEF PagesOf

LEMMA NoReport == ASSUME NEW n \in SampleNums \cup {0} PROVE
    /\ Fresh(n) \in ReportType /\ Fresh(n).num = n /\ Fresh(n).sample = 0 /\ Fresh(n).complete = FALSE
    /\ \A i \in Piece : Fresh(n).force[i] = 0
<1>1. [i \in Piece |-> 0] \in [Piece -> Forces]
    BY Constants
<1> QED BY <1>1 DEF Fresh, ReportType

-----------------------------------------------------------------------------
(* Loading the page.                                                       *)

\* A report without a gap; one of a group without a size is empty.
SoundReport(r) == Gapless(r) /\ (r.num = 0 => r.sample = 0 /\ ~ r.complete)

\* Before a size has been entered there are no reports.
FilesInv ==
    \A n \in 0 .. MaxSerial :
        \/ files[n] \in {NoFile, Truncated}
        \/ /\ files[n].state = "saved" /\ files[n].report.num > 0 /\ files[n].report.sample > 0
           /\ Gapless(files[n].report)
           /\ m.num # 0

Known(s) == s \in MType /\ SoundReport(s.report) /\ (s.num = 0 => s.report.num = 0) /\ s.num = m.num

\* The page shows a report, and no test runs.
Shown(s) ==
    /\ Known(s)
    /\ s.status = "TEST_IDLE" /\ s.peakStatus # "PEAK_SHOW"
    /\ ~ s.pieceComplete /\ ~ s.cancelLastPiece /\ ~ s.handEndOneGroup
    /\ s.sumSampleNum = s.report.num /\ s.curComplete = s.report.sample

LEMMA FieldTypes ==
    ASSUME NEW s \in MType
    PROVE  /\ s.report \in ReportType /\ s.report.num \in SampleNums \cup {0} /\ s.report.sample \in Nat
           /\ s.serial \in 0 .. MaxSerial /\ s.num \in SampleNums \cup {0} /\ s.curPage \in Nat
           /\ s.breakPeak \in Forces /\ s.breakPeak \in Nat
           /\ s.sumSampleNum \in SampleNums \cup {0} /\ s.curComplete \in Nat
           /\ s.groupComplete \in BOOLEAN /\ s.pieceComplete \in BOOLEAN /\ s.report.complete \in BOOLEAN
<1>1. s.breakPeak \in Forces
    BY DEF MType
<1>2. s.breakPeak \in Nat
    BY <1>1, Constants
<1> QED BY <1>1, <1>2 DEF MType, ReportType

\* The sizes are those of a piece, or none.
LEMMA SizeOrNone == ASSUME NEW n \in SampleNums \cup {0} PROVE n \in Nat /\ (n \in Piece <=> n # 0)
BY Constants DEF Piece

LEMMA FileFacts ==
    /\ NoFile.state = "none" /\ Truncated.state = "truncated" /\ NoFile # Truncated
    /\ NoFile \in FileType /\ Truncated \in FileType
    /\ NoFile.report = Fresh(0) /\ Truncated.report = Fresh(0)
BY NoReport DEF NoFile, Truncated, FileType

LEMMA EmptyIsGapless == ASSUME NEW n \in SampleNums \cup {0} PROVE SoundReport(Fresh(n))
<1>1. /\ Fresh(n).sample = 0 /\ Fresh(n).complete = FALSE
      /\ \A i \in Piece : Fresh(n).force[i] = 0
    BY NoReport
<1>2. \A i \in Piece : i \in Nat /\ i > 0
    BY Constants DEF Piece
<1> HIDE DEF Fresh
<1>3. Gapless(Fresh(n))
    BY <1>1, <1>2 DEF Gapless
<1> QED BY <1>1, <1>3 DEF SoundReport

LEMMA ReadFacts ==
    ASSUME TypeInv, FilesInv, NEW s, Known(s), NEW card
    PROVE  LET r == ReadReport(s, card)
           IN  /\ r \in ReportType /\ SoundReport(r)
               /\ s.num = 0 => r.num = 0
               /\ s.report.num # 0 => r.num # 0
<1> DEFINE r == ReadReport(s, card)
<1>1. CASE r = Fresh(s.num)
    BY <1>1, FieldTypes, NoReport, EmptyIsGapless DEF Known
<1>2. CASE r = s.report
    BY <1>2, FieldTypes DEF Known
<1>3. CASE r = files[s.serial].report /\ files[s.serial] \notin {NoFile, Truncated}
    <2>1. s.serial \in 0 .. MaxSerial /\ files[s.serial] \in FileType
        BY FieldTypes DEF Known, TypeInv
    <2>2. /\ files[s.serial].report \in ReportType /\ files[s.serial].report.num # 0
          /\ Gapless(files[s.serial].report) /\ s.num # 0
        BY <1>3, <2>1 DEF FilesInv, FileType, Known
    <2> QED BY <1>3, <2>2 DEF SoundReport
<1> QED BY <1>1, <1>2, <1>3 DEF ReadReport

\* What a reload makes of the page.
Reloaded(s, d, r) ==
    /\ d \in MType
    /\ d.status = "TEST_IDLE" /\ d.peakStatus = "PEAK_IDLE"
    /\ ~ d.pieceComplete /\ ~ d.cancelLastPiece /\ ~ d.handEndOneGroup /\ ~ d.leavePage
    /\ d.report = r /\ d.sumSampleNum = r.num /\ d.curComplete = r.sample /\ d.groupComplete = r.complete
    /\ d.serial = s.serial /\ d.num = s.num /\ d.breakPeak = s.breakPeak
    /\ d.autoUpdateSerial = s.autoUpdateSerial

LEMMA ReloadFacts ==
    ASSUME TypeInv, FilesInv, NEW s, Known(s), NEW card
    PROVE  /\ Reloaded(s, Reload(s, card), ReadReport(s, card))
           /\ Shown(Reload(s, card))
<1> DEFINE i == MainPageInit(s)
           r == ReadReport(s, card)
           page == IF i.curPage > PagesOf(r.num) THEN 0 ELSE i.curPage
<1>1. s \in MType
    BY DEF Known
<1>2. /\ i \in MType
      /\ i.status = "TEST_IDLE" /\ i.peakStatus = "PEAK_IDLE" /\ ~ i.leavePage
      /\ ~ i.pieceComplete /\ ~ i.cancelLastPiece /\ ~ i.handEndOneGroup /\ ~ i.groupComplete
      /\ i.sumSampleNum = 0 /\ i.curComplete = 0
      /\ i.serial = s.serial /\ i.num = s.num /\ i.breakPeak = s.breakPeak
      /\ i.autoUpdateSerial = s.autoUpdateSerial
    BY <1>1, ZenonT(30) DEF MainPageInit, MType, Status, PeakStates
<1>3. r \in ReportType /\ SoundReport(r) /\ (s.num = 0 => r.num = 0)
    BY ReadFacts
<1>4. r.num \in SampleNums \cup {0} /\ r.sample \in Nat /\ r.complete \in BOOLEAN
    BY <1>3 DEF ReportType
<1>5. Reload(s, card) = IF r.num \notin Piece THEN [i EXCEPT !.report = r, !.curPage = 0]
                        ELSE [i EXCEPT !.report = r, !.sumSampleNum = r.num, !.curPage = page,
                                       !.groupComplete = r.complete, !.curComplete = r.sample]
    BY DEF Reload
<1>6. page \in Nat
    BY <1>2, FieldTypes
<1> HIDE DEF i, r, page
<1>7. ASSUME r.num \notin Piece PROVE Reloaded(s, Reload(s, card), r)
    <2>1. r.num = 0 /\ r.sample = 0 /\ r.complete = FALSE
        BY <1>3, <1>4, <1>7, SizeOrNone DEF SoundReport
    <2>2. Reload(s, card) = [i EXCEPT !.report = r, !.curPage = 0]
        BY <1>5, <1>7
    <2>3. Reload(s, card) \in MType
        <3>1. i \in MType /\ r \in ReportType /\ 0 \in Nat
            BY <1>2, <1>3
        <3> QED BY <2>2, <3>1 DEF MType
    <2>4. /\ Reload(s, card).report = r /\ Reload(s, card).sumSampleNum = r.num
          /\ Reload(s, card).groupComplete = r.complete /\ Reload(s, card).curComplete = r.sample
        BY <1>2, <2>1, <2>2 DEF MType
    <2>5. /\ Reload(s, card).status = "TEST_IDLE" /\ Reload(s, card).peakStatus = "PEAK_IDLE"
          /\ ~ Reload(s, card).pieceComplete /\ ~ Reload(s, card).cancelLastPiece
          /\ ~ Reload(s, card).handEndOneGroup /\ ~ Reload(s, card).leavePage
        BY <1>2, <2>2 DEF MType
    <2>6. /\ Reload(s, card).serial = s.serial /\ Reload(s, card).num = s.num
          /\ Reload(s, card).breakPeak = s.breakPeak
          /\ Reload(s, card).autoUpdateSerial = s.autoUpdateSerial
        BY <1>2, <2>2 DEF MType
    <2> QED BY <2>3, <2>4, <2>5, <2>6 DEF Reloaded
<1>8. ASSUME r.num \in Piece PROVE Reloaded(s, Reload(s, card), r)
    <2>1. Reload(s, card) = [i EXCEPT !.report = r, !.sumSampleNum = r.num, !.curPage = page,
                                      !.groupComplete = r.complete, !.curComplete = r.sample]
        BY <1>5, <1>8
    <2>2. Reload(s, card) \in MType
        BY <1>2, <1>3, <1>4, <1>6, <2>1, ZenonT(30) DEF MType
    <2>3. /\ Reload(s, card).report = r /\ Reload(s, card).sumSampleNum = r.num
          /\ Reload(s, card).groupComplete = r.complete /\ Reload(s, card).curComplete = r.sample
        BY <1>2, <2>1 DEF MType
    <2>4. /\ Reload(s, card).status = "TEST_IDLE" /\ Reload(s, card).peakStatus = "PEAK_IDLE"
          /\ ~ Reload(s, card).pieceComplete /\ ~ Reload(s, card).cancelLastPiece
          /\ ~ Reload(s, card).handEndOneGroup /\ ~ Reload(s, card).leavePage
        BY <1>2, <2>1 DEF MType
    <2>5. /\ Reload(s, card).serial = s.serial /\ Reload(s, card).num = s.num
          /\ Reload(s, card).breakPeak = s.breakPeak
          /\ Reload(s, card).autoUpdateSerial = s.autoUpdateSerial
        BY <1>2, <2>1 DEF MType
    <2> QED BY <2>2, <2>3, <2>4, <2>5 DEF Reloaded
<1>9. Reloaded(s, Reload(s, card), r)
    BY <1>7, <1>8
<1>10. Shown(Reload(s, card))
    BY <1>3, <1>9 DEF Reloaded, Shown, Known
<1> QED BY <1>9, <1>10 DEF r

\* A test can only start after a size has been entered, and a load leaves it so.
LEMMA ReloadSized ==
    ASSUME TypeInv, FilesInv, NEW s, Known(s), NEW card, s.report.num # 0
    PROVE  Reload(s, card).sumSampleNum # 0
BY ReloadFacts, ReadFacts DEF Reloaded

LEMMA KnownOfShown == ASSUME NEW s, Shown(s) PROVE Known(s) /\ s \in MType
BY DEF Shown, Known

\* The number the page goes on to is one of the card's.
LEMMA NextSerial ==
    ASSUME NEW s \in MType, NEW card, FreeSerials(s, card) # {}
    PROVE  Min(FreeSerials(s, card)) \in FreeSerials(s, card) /\ Min(FreeSerials(s, card)) \in 0 .. MaxSerial
<1>1. s.serial \in Nat
    BY FieldTypes
<1>2. FreeSerials(s, card) \subseteq 0 .. MaxSerial /\ FreeSerials(s, card) \in SUBSET Nat
    BY <1>1, Constants DEF FreeSerials
<1> QED BY <1>2, MinOf

LEMMA SerialIsFree ==
    ASSUME NEW s, Known(s), NEW n \in 0 .. MaxSerial
    PROVE  LET d == [s EXCEPT !.serial = n, !.curPage = 1, !.autoUpdateSerial = FALSE]
           IN  Known(d) /\ d.report = s.report /\ d.serial = n
<1> DEFINE d == [s EXCEPT !.serial = n, !.curPage = 1, !.autoUpdateSerial = FALSE]
<1>1. s \in MType
    BY DEF Known
<1>2. PICK a : a = [s EXCEPT !.serial = n]
    OBVIOUS
<1>3. a \in MType /\ a.serial = n /\ a.report = s.report /\ a.num = s.num
    BY <1>1, <1>2 DEF MType
<1>4. PICK b : b = [a EXCEPT !.curPage = 1]
    OBVIOUS
<1>5. Known(a)
    BY <1>3 DEF Known
<1>6. b \in MType /\ b.report = a.report /\ b.num = a.num /\ b.serial = a.serial
    BY <1>3, <1>4 DEF MType
<1>7. d = [b EXCEPT !.autoUpdateSerial = FALSE]
    BY <1>2, <1>4, Zenon
<1>8. d \in MType
    BY <1>6, <1>7 DEF MType
<1>9. d.report = s.report /\ d.num = s.num /\ d.serial = n
    BY <1>1 DEF MType
<1> QED BY <1>8, <1>9 DEF Known

LEMMA CheckShows ==
    ASSUME TypeInv, FilesInv, NEW s, Shown(s), NEW card
    PROVE  LET d == MainPageCheckSerialRepeat(s, card)
           IN  Shown(d) /\ (s.report.num # 0 => d.report.num # 0)
<1> DEFINE u == [s EXCEPT !.serial = Min(FreeSerials(s, card)), !.curPage = 1, !.autoUpdateSerial = FALSE]
<1>1. s \in MType /\ Known(s)
    BY KnownOfShown
<1>2. CASE Repeated(s, card) /\ FreeSerials(s, card) # {}
    <2>1. Min(FreeSerials(s, card)) \in 0 .. MaxSerial
        BY <1>1, <1>2, NextSerial
    <2>4. Known(u) /\ u.report = s.report
        BY <1>1, <2>1, SerialIsFree
    <2>5. MainPageCheckSerialRepeat(s, card) = Reload(u, card)
        BY <1>2 DEF MainPageCheckSerialRepeat
    <2> HIDE DEF u
    <2>6. Shown(Reload(u, card)) /\ (u.report.num # 0 => Reload(u, card).sumSampleNum # 0)
        BY <2>4, ReloadFacts, ReloadSized
    <2> QED BY <2>4, <2>5, <2>6 DEF Shown
<1>3. CASE ~ (Repeated(s, card) /\ FreeSerials(s, card) # {})
    BY <1>3 DEF MainPageCheckSerialRepeat
<1> QED BY <1>2, <1>3

LEMMA UpdateShows ==
    ASSUME TypeInv, FilesInv, NEW s, Shown(s), NEW card
    PROVE  LET d == MainPageAutoUpdateSerial(s, card)
           IN  Shown(d) /\ (s.report.num # 0 => d.report.num # 0)
<1> DEFINE u == [s EXCEPT !.autoUpdateSerial = FALSE]
<1>1. s \in MType
    BY KnownOfShown
<1>2. u \in MType /\ [u EXCEPT !.leavePage = TRUE] \in MType
    BY <1>1 DEF MType
<1>3. Shown(u) /\ Shown([u EXCEPT !.leavePage = TRUE]) /\ u.report = s.report
      /\ [u EXCEPT !.leavePage = TRUE].report = s.report
    BY <1>1, <1>2 DEF Shown, Known, MType
<1>4. MainPageAutoUpdateSerial(s, card) \in {s, [u EXCEPT !.leavePage = TRUE], MainPageCheckSerialRepeat(u, card)}
    BY DEF MainPageAutoUpdateSerial
<1> HIDE DEF u
<1>5. LET d == MainPageCheckSerialRepeat(u, card) IN Shown(d) /\ (u.report.num # 0 => d.report.num # 0)
    BY <1>3, CheckShows
<1> QED BY <1>3, <1>4, <1>5

LEMMA AreaShows ==
    ASSUME TypeInv, FilesInv, NEW s, Known(s), NEW card
    PROVE  LET d == ReloadTestResultArea(s, card)
           IN  Shown(d) /\ (s.report.num # 0 => d.report.num # 0)
<1>1. Shown(Reload(s, card)) /\ (s.report.num # 0 => Reload(s, card).report.num # 0)
    BY ReloadFacts, ReloadSized DEF Shown
<1> QED BY <1>1, UpdateShows DEF ReloadTestResultArea

\* Another page of the table is still a page of the same report.
LEMMA PageIsFree ==
    ASSUME NEW s, Known(s), NEW p \in Nat
    PROVE  LET d == [s EXCEPT !.curPage = p] IN Known(d) /\ d.report = s.report
<1>1. s \in MType
    BY DEF Known
<1>2. [s EXCEPT !.curPage = p] \in MType
    BY <1>1 DEF MType
<1>3. [s EXCEPT !.curPage = p].report = s.report /\ [s EXCEPT !.curPage = p].num = s.num
    BY <1>1 DEF MType
<1> QED BY <1>2, <1>3 DEF Known

LEMMA TurnedShows ==
    ASSUME TypeInv, FilesInv, NEW s, Shown(s), NEW card
    PROVE  LET d == TurnedToNextPiece(s, card)
           IN  Shown(d) /\ (s.report.num # 0 => d.report.num # 0)
<1> DEFINE p == GetCompletePiecePageNum(s)
           t == IF p # s.curPage THEN ReloadTestResultArea([s EXCEPT !.curPage = p], card) ELSE s
<1>1. s \in MType /\ Known(s)
    BY KnownOfShown
<1>2. p \in Nat
    BY <1>1, FieldTypes, PagesNat DEF GetCompletePiecePageNum
<1>3. Known([s EXCEPT !.curPage = p]) /\ [s EXCEPT !.curPage = p].report = s.report
    BY <1>1, <1>2, PageIsFree
<1>4. Shown(t) /\ (s.report.num # 0 => t.report.num # 0)
    BY <1>3, AreaShows
<1>5. TurnedToNextPiece(s, card) \in {t, ReloadTestResultArea([t EXCEPT !.curPage = t.curPage + 1], card)}
    <2>1. t \in MType
        BY <1>4, KnownOfShown
    <2> QED BY <2>1 DEF TurnedToNextPiece, MType
<1> HIDE DEF t
<1>6. Known(t) /\ t.curPage + 1 \in Nat
    BY <1>4, KnownOfShown, FieldTypes
<1>7. Known([t EXCEPT !.curPage = t.curPage + 1]) /\ [t EXCEPT !.curPage = t.curPage + 1].report = t.report
    BY <1>6, PageIsFree
<1>8. LET d == ReloadTestResultArea([t EXCEPT !.curPage = t.curPage + 1], card)
      IN  Shown(d) /\ (t.report.num # 0 => d.report.num # 0)
    BY <1>7, AreaShows
<1> QED BY <1>4, <1>5, <1>8

-----------------------------------------------------------------------------
(* The invariant.  The count of pieces is one ahead of the report from the *)
(* break until the piece is recorded; the flags of the menu are set for    *)
(* one save, and at most one of them.                                      *)

Held(s) == s.status \in {"TEST_BREAK", "TEST_UNLOAD"} \/ (s.status = "TEST_SAVE" /\ s.pieceComplete)

Counted(s, c) ==
    /\ SoundReport(s.report) /\ (s.num = 0 => s.report.num = 0)
    /\ s.sumSampleNum = s.report.num
    /\ s.curComplete = s.report.sample + (IF s.pieceComplete THEN 1 ELSE 0)
    /\ s.pieceComplete => Held(s) /\ s.report.num # 0
    /\ s.status \in {"TEST_BREAK", "TEST_UNLOAD"} => s.pieceComplete
    /\ s.status = "TEST_LOAD" => s.report.num # 0
    /\ s.cancelLastPiece \/ s.handEndOneGroup =>
           s.status = "TEST_SAVE" /\ ~ s.pieceComplete /\ s.curComplete > 0
    /\ ~ (s.cancelLastPiece /\ s.handEndOneGroup)
    /\ IF c \in {"open", "write"}
       THEN /\ s.status = "TEST_SAVE" /\ s.report.sample > 0
            /\ ~ s.pieceComplete /\ ~ s.cancelLastPiece /\ ~ s.handEndOneGroup
       ELSE s.status = "TEST_SAVE" => s.pieceComplete \/ s.cancelLastPiece \/ s.handEndOneGroup

\* While the specimen is loaded the display lags behind the judgement by at
\* most the cycles in which no point can fall.
Following(s, j, lp) ==
    /\ j.peak = lp
    /\ s.peakStatus = "PEAK_KEEP" => j.index = 0 /\ j.last = 0 /\ j.now = 0 /\ j.peak = 0
    /\ s.peakStatus = "PEAK_IDLE" => j.index =< 1 /\ j.last = 0 /\ j.now = 0 /\ j.peak = 0
    /\ s.peakStatus = "PEAK_SHOW" => s.breakPeak = lp \/ (j.last = 0 /\ j.now = j.peak)

PeakInv(s, c, j, lp) ==
    /\ j.last =< j.peak /\ j.now =< j.peak
    /\ s.status = "TEST_LOAD" => Following(s, j, lp)
    /\ Held(s) => s.peakStatus = "PEAK_SHOW" /\ s.breakPeak = lp /\ lp > 0
    /\ s.status = "TEST_IDLE" /\ c = "core" => s.peakStatus # "PEAK_SHOW"

IInv == TypeInv /\ FilesInv /\ Counted(m, pc) /\ PeakInv(m, pc, judge, loadPeak)

LEMMA KnownNow == ASSUME IInv PROVE Known(m) /\ m \in MType
BY DEF IInv, TypeInv, Known, Counted

LEMMA FilesStay ==
    ASSUME FilesInv, files' = files, m'.num = m.num
    PROVE  FilesInv'
BY DEF FilesInv

-----------------------------------------------------------------------------
(* The keys.                                                               *)

\* What a key may make of the page: nothing the peak depends on, or no test.
Pressed(s) ==
    /\ s \in MType /\ s.num = m.num /\ Counted(s, "sample")
    /\ \/ s.status = m.status /\ s.pieceComplete = m.pieceComplete
          /\ s.peakStatus = m.peakStatus /\ s.breakPeak = m.breakPeak
       \/ s.status \in {"TEST_IDLE", "TEST_SAVE"} /\ ~ s.pieceComplete

LEMMA KeysKeep ==
    ASSUME IInv, NEW s, Pressed(s), Keys(s)
    PROVE  IInv'
<1>1. TypeInv'
    BY DEF IInv, TypeInv, Phases, Pressed, Keys
<1>2. FilesInv'
    BY FilesStay DEF IInv, Pressed, Keys
<1>3. Counted(m', pc')
    BY DEF Pressed, Keys
<1>4. PeakInv(m', pc', judge', loadPeak')
    BY DEF Pressed, Keys, PeakInv, Held, Following, IInv
<1> QED BY <1>1, <1>2, <1>3, <1>4 DEF IInv

\* The fields a key changes are not those that count.
SameCount(s, d) ==
    /\ d.report = s.report /\ d.num = s.num /\ d.sumSampleNum = s.sumSampleNum
    /\ d.curComplete = s.curComplete /\ d.pieceComplete = s.pieceComplete /\ d.status = s.status
    /\ d.cancelLastPiece = s.cancelLastPiece /\ d.handEndOneGroup = s.handEndOneGroup
    /\ d.groupComplete = s.groupComplete /\ d.serial = s.serial
SamePeak(s, d) == d.peakStatus = s.peakStatus /\ d.breakPeak = s.breakPeak

LEMMA CountedStays ==
    ASSUME NEW s, NEW d, NEW c, NEW e, SameCount(s, d), Counted(s, c),
           c \in {"open", "write"} <=> e \in {"open", "write"}
    PROVE  Counted(d, e)
BY DEF SameCount, Counted, Held

LEMMA SamePressed ==
    ASSUME IInv, pc = "keys", NEW s \in MType, SameCount(m, s), SamePeak(m, s)
    PROVE  Pressed(s)
<1>1. Counted(s, "sample")
    BY CountedStays DEF IInv
<1> QED BY <1>1 DEF SameCount, SamePeak, Pressed

LEMMA LeftStays ==
    ASSUME NEW s \in MType
    PROVE  /\ Left(s) \in MType /\ SameCount(s, Left(s)) /\ SamePeak(s, Left(s))
           /\ \A p \in {"MAIN", "TEST_PARAMETER", "TEST_REPORT"} :
                  LeftFor(s, p) \in MType /\ SameCount(s, LeftFor(s, p)) /\ SamePeak(s, LeftFor(s, p))
<1>1. Left(s) \in MType /\ SameCount(s, Left(s)) /\ SamePeak(s, Left(s))
    BY DEF Left, MType, SameCount, SamePeak
<1>2. ASSUME NEW p \in {"MAIN", "TEST_PARAMETER", "TEST_REPORT"}
      PROVE  LeftFor(s, p) \in MType /\ SameCount(s, LeftFor(s, p)) /\ SamePeak(s, LeftFor(s, p))
    <2>1. LeftFor(s, p) = [Left(s) EXCEPT !.page = p]
        BY DEF Left, LeftFor
    <2>2. LeftFor(s, p) \in MType
        BY <1>1, <2>1 DEF MType
    <2>3. SameCount(s, LeftFor(s, p)) /\ SamePeak(s, LeftFor(s, p))
        BY DEF LeftFor, MType, SameCount, SamePeak
    <2> QED BY <2>2, <2>3
<1> QED BY <1>1, <1>2

LEMMA KeysStep == ASSUME IInv, KeyProcess PROVE IInv'
<1>1. m \in MType /\ SameCount(m, m) /\ SamePeak(m, m)
    BY KnownNow DEF SameCount, SamePeak
<1>2. CASE pc # "keys"
    BY <1>2 DEF KeyProcess, KeyNone, KeyF1, KeyF2, KeyF3, KeyF4, KeyTurn, KeyForceTare, KeyPrintExport,
                MainPageCancelLastPiece, Keys
<1>3. CASE pc = "keys"
    <2>1. Pressed(m)
        BY <1>1, <1>3, SamePressed
    <2>2. Pressed(Left(m)) /\ \A p \in {"MAIN", "TEST_PARAMETER", "TEST_REPORT"} : Pressed(LeftFor(m, p))
        BY <1>1, <1>3, LeftStays, SamePressed
    <2>3. CASE KeyNone
        BY <2>1, <2>3, KeysKeep DEF KeyNone
    <2>4. CASE KeyF1
        <3>1. Pressed([LeftFor(m, "TEST_PARAMETER") EXCEPT !.autoUpdateSerial = TRUE])
            <4> DEFINE d == [LeftFor(m, "TEST_PARAMETER") EXCEPT !.autoUpdateSerial = TRUE]
            <4>1. LeftFor(m, "TEST_PARAMETER") \in MType
                  /\ SameCount(m, LeftFor(m, "TEST_PARAMETER")) /\ SamePeak(m, LeftFor(m, "TEST_PARAMETER"))
                BY <1>1, LeftStays
            <4> HIDE DEF LeftFor
            <4>2. d \in MType
                BY <4>1 DEF MType
            <4>3. SameCount(m, d) /\ SamePeak(m, d)
                BY <4>1 DEF MType, SameCount, SamePeak
            <4> QED BY <4>2, <4>3, <1>3, SamePressed
        <3> QED BY <2>1, <2>2, <2>4, <3>1, KeysKeep DEF KeyF1
    <2>5. CASE KeyF2
        <3>1. CASE Keys(m) \/ Keys(Left(m)) \/ Keys(LeftFor(m, "TEST_REPORT"))
            BY <2>1, <2>2, <3>1, KeysKeep
        <3>2. CASE /\ m.status = "TEST_IDLE" /\ m.curComplete # 0
                   /\ Keys([m EXCEPT !.cancelLastPiece = TRUE, !.status = "TEST_SAVE"])
            <4> DEFINE d == [m EXCEPT !.cancelLastPiece = TRUE, !.status = "TEST_SAVE"]
            <4>1. d \in MType /\ ~ m.pieceComplete /\ m.curComplete > 0 /\ ~ m.handEndOneGroup
                <5>1. d \in MType
                    BY <1>1 DEF MType, Status
                <5>2. m.curComplete \in Nat
                    BY <1>1, FieldTypes
                <5> QED BY <3>2, <5>1, <5>2 DEF IInv, Counted, Held
            <4>2. /\ d.report = m.report /\ d.num = m.num /\ d.sumSampleNum = m.sumSampleNum
                  /\ d.curComplete = m.curComplete /\ d.pieceComplete = m.pieceComplete
                  /\ d.status = "TEST_SAVE" /\ d.cancelLastPiece = TRUE
                  /\ d.handEndOneGroup = m.handEndOneGroup
                BY <1>1 DEF MType
            <4> HIDE DEF d
            <4>3. Counted(d, "sample")
                BY <4>1, <4>2 DEF IInv, Counted, Held
            <4>4. Pressed(d)
                BY <4>1, <4>2, <4>3 DEF Pressed
            <4> QED BY <4>4, <3>2, KeysKeep DEF d
        <3> QED BY <2>5, <3>1, <3>2 DEF KeyF2, MainPageCancelLastPiece, Idle
    <2>6. CASE KeyF3
        <3>1. CASE Keys(m) \/ Keys(LeftFor(m, "MAIN"))
            BY <2>1, <2>2, <3>1, KeysKeep
        <3>2. CASE /\ m.status = "TEST_IDLE" /\ m.curComplete # 0
                   /\ Keys([m EXCEPT !.handEndOneGroup = TRUE, !.status = "TEST_SAVE"])
            <4> DEFINE d == [m EXCEPT !.handEndOneGroup = TRUE, !.status = "TEST_SAVE"]
            <4>1. d \in MType /\ ~ m.pieceComplete /\ m.curComplete > 0 /\ ~ m.cancelLastPiece
                <5>1. d \in MType
                    BY <1>1 DEF MType, Status
                <5>2. m.curComplete \in Nat
                    BY <1>1, FieldTypes
                <5> QED BY <3>2, <5>1, <5>2 DEF IInv, Counted, Held
            <4>2. /\ d.report = m.report /\ d.num = m.num /\ d.sumSampleNum = m.sumSampleNum
                  /\ d.curComplete = m.curComplete /\ d.pieceComplete = m.pieceComplete
                  /\ d.status = "TEST_SAVE" /\ d.handEndOneGroup = TRUE
                  /\ d.cancelLastPiece = m.cancelLastPiece
                BY <1>1 DEF MType
            <4> HIDE DEF d
            <4>3. Counted(d, "sample")
                BY <4>1, <4>2 DEF IInv, Counted, Held
            <4>4. Pressed(d)
                BY <4>1, <4>2, <4>3 DEF Pressed
            <4> QED BY <4>4, <3>2, KeysKeep DEF d
        <3> QED BY <2>6, <3>1, <3>2 DEF KeyF3, Idle
    <2>7. CASE KeyF4
        <3> DEFINE d == [m EXCEPT !.testAfterDispose = ~ @]
        <3>1. d \in MType
            <4>1. PICK b \in BOOLEAN : b = ~ m.testAfterDispose
                OBVIOUS
            <4>2. [m EXCEPT !.testAfterDispose = b] \in MType
                BY <1>1 DEF MType
            <4> QED BY <1>1, <4>1, <4>2 DEF MType
        <3>2. SameCount(m, d) /\ SamePeak(m, d)
            BY <1>1 DEF MType, SameCount, SamePeak
        <3> QED BY <2>7, <3>1, <3>2, <1>3, SamePressed, KeysKeep DEF KeyF4
    <2>8. CASE KeyTurn
        <3>1. PICK q \in Nat, card \in CardStates : Keys(ReloadTestResultArea([m EXCEPT !.curPage = q], card))
            <4>1. m.curPage \in Nat /\ PagesOf(m.sumSampleNum) \in Nat
                <5>1. m.sumSampleNum \in Nat
                    BY <1>1, FieldTypes, SizeOrNone
                <5> QED BY <1>1, <5>1, FieldTypes, PagesNat
            <4> DEFINE last == PagesOf(m.sumSampleNum)
            <4>2. PICK p \in {IF m.curPage > 0 THEN m.curPage - 1 ELSE last, (m.curPage + 1) % (last + 1)}, card \in CardStates :
                      Keys(ReloadTestResultArea([m EXCEPT !.curPage = IF last = 0 THEN m.curPage ELSE p], card))
                BY <1>1, <2>8 DEF KeyTurn, MType
            <4> HIDE DEF last
            <4>3. p \in Nat
                <5>1. last \in Nat
                    BY <4>1 DEF last
                <5>2. (m.curPage + 1) % (last + 1) \in Nat
                    BY <4>1, <5>1
                <5>3. (IF m.curPage > 0 THEN m.curPage - 1 ELSE last) \in Nat
                    BY <4>1, <5>1
                <5> QED BY <4>2, <5>2, <5>3
            <4> QED BY <4>1, <4>2, <4>3
        <3>2. Known([m EXCEPT !.curPage = q])
            BY KnownNow, PageIsFree
        <3>3. Shown(ReloadTestResultArea([m EXCEPT !.curPage = q], card))
            BY <3>2, AreaShows DEF IInv
        <3> HIDE DEF ReloadTestResultArea
        <3>4. Pressed(ReloadTestResultArea([m EXCEPT !.curPage = q], card))
            <4> DEFINE d == ReloadTestResultArea([m EXCEPT !.curPage = q], card)
            <4> HIDE DEF d
            <4>1. Shown(d) => Pressed(d)
                BY DEF Shown, Known, Pressed, Counted, Held, MType
            <4> QED BY <3>3, <4>1 DEF d
        <3> QED BY <3>1, <3>4, KeysKeep
    <2>9. CASE KeyForceTare \/ KeyPrintExport
        BY <2>2, <2>9, KeysKeep DEF KeyForceTare, KeyPrintExport
    <2> QED BY <2>3, <2>4, <2>5, <2>6, <2>7, <2>8, <2>9 DEF KeyProcess
<1> QED BY <1>2, <1>3

-----------------------------------------------------------------------------
(* The sample.                                                             *)

LEMMA JudgeTypes ==
    ASSUME NEW j \in JudgeType
    PROVE  /\ j.index \in 0 .. ADJOIN_DOWN_POINT_NUM - 1 /\ j.down \in 0 .. MAX_DOWN_POINT_NUM
           /\ j.last \in Forces /\ j.now \in Forces /\ j.peak \in Forces
           /\ j.index \in Nat /\ j.last \in Nat /\ j.now \in Nat /\ j.peak \in Nat
<1>1. /\ j.index \in 0 .. ADJOIN_DOWN_POINT_NUM - 1 /\ j.down \in 0 .. MAX_DOWN_POINT_NUM
      /\ j.last \in Forces /\ j.now \in Forces /\ j.peak \in Forces
    BY DEF JudgeType
<1>2. j.last \in Nat /\ j.now \in Nat /\ j.peak \in Nat
    BY <1>1, Constants
<1>3. j.index \in Nat
    BY <1>1, Constants
<1> QED BY <1>1, <1>2, <1>3

\* The judgement as a test starts and after power comes back.
LEMMA JudgeInit == InitJudgeBreakPoint \in JudgeType
<1>1. 0 \in Forces /\ 0 \in 0 .. ADJOIN_DOWN_POINT_NUM - 1 /\ 0 \in 0 .. MAX_DOWN_POINT_NUM
    BY Constants
<1> QED BY <1>1 DEF InitJudgeBreakPoint, JudgeType

LEMMA JudgeFacts ==
    ASSUME NEW j \in JudgeType, NEW f \in Forces
    PROVE  LET d == JudgeBreakCalculate(j, f)
           IN  /\ d \in JudgeType
               /\ ~ TakesPoint(j) => d.index = j.index + 1 /\ d.last = j.last /\ d.now = j.now /\ d.peak = j.peak
               /\ TakesPoint(j) => d.index = 0 /\ d.last = j.now /\ d.now = f /\ d.peak = Larger(f, j.peak)
<1>1. CASE TakesPoint(j)
    <2>1. PICK i \in 0 .. ADJOIN_DOWN_POINT_NUM - 1 : i = 0
        BY Constants
    <2>2. PICK n \in 0 .. MAX_DOWN_POINT_NUM :
              n = IF f >= j.now THEN 0
                  ELSE IF j.down < MAX_DOWN_POINT_NUM THEN j.down + 1 ELSE MAX_DOWN_POINT_NUM
        BY JudgeTypes, Constants
    <2>3. PICK p \in Forces : p = Larger(f, j.peak)
        BY JudgeTypes DEF Larger
    <2>4. JudgeBreakCalculate(j, f) = [index |-> i, last |-> j.now, now |-> f, down |-> n, peak |-> p]
        BY <1>1, <2>1, <2>2, <2>3 DEF JudgeBreakCalculate
    <2>5. j.now \in Forces
        BY JudgeTypes
    <2>6. [index |-> i, last |-> j.now, now |-> f, down |-> n, peak |-> p] \in JudgeType
        BY <2>5 DEF JudgeType
    <2> QED BY <1>1, <2>1, <2>3, <2>4, <2>6
<1>2. CASE ~ TakesPoint(j)
    <2>1. PICK i \in 0 .. ADJOIN_DOWN_POINT_NUM - 1 : i = j.index + 1
        BY <1>2, JudgeTypes, Constants DEF TakesPoint
    <2>2. JudgeBreakCalculate(j, f) = [j EXCEPT !.index = i]
        BY <1>2, <2>1 DEF JudgeBreakCalculate, JudgeType
    <2> QED BY <1>2, <2>1, <2>2 DEF JudgeType
<1> QED BY <1>1, <1>2

LEMMA PeakShown ==
    ASSUME NEW s \in MType, NEW p \in Forces
    PROVE  LET d == SetDynamicContentPeak(s, p)
           IN  /\ d \in MType /\ SameCount(s, d)
               /\ s.peakStatus = "PEAK_IDLE" =>
                      d.breakPeak = 0 /\ d.peakStatus = (IF s.status = "TEST_LOAD" THEN "PEAK_SHOW" ELSE "PEAK_IDLE")
               /\ s.peakStatus = "PEAK_SHOW" =>
                      IF s.status = "TEST_LOAD" THEN d.peakStatus = "PEAK_SHOW" /\ d.breakPeak = p
                      ELSE IF s.status = "TEST_IDLE" THEN d.peakStatus = "PEAK_KEEP" ELSE d = s
               /\ s.peakStatus = "PEAK_KEEP" =>
                      IF s.status = "TEST_LOAD" THEN d.peakStatus = "PEAK_IDLE"
                      ELSE d.peakStatus \in {"PEAK_IDLE", "PEAK_KEEP"}
<1>1. CASE s.peakStatus = "PEAK_IDLE"
    <2>1. PICK k \in PeakStates : k = IF s.status = "TEST_LOAD" THEN "PEAK_SHOW" ELSE "PEAK_IDLE"
        BY DEF PeakStates
    <2>2. SetDynamicContentPeak(s, p) = [s EXCEPT !.breakPeak = 0, !.peakStatus = k]
        BY <1>1, <2>1 DEF SetDynamicContentPeak, MType
    <2>3. [s EXCEPT !.breakPeak = 0, !.peakStatus = k] \in MType
        <3>1. 0 \in Forces
            BY Constants
        <3> QED BY <3>1 DEF MType
    <2>4. LET d == SetDynamicContentPeak(s, p)
          IN  d \in MType /\ SameCount(s, d) /\ d.breakPeak = 0 /\ d.peakStatus = k
        BY <2>2, <2>3 DEF MType, SameCount
    <2> QED BY <1>1, <2>1, <2>4
<1>2. CASE s.peakStatus = "PEAK_SHOW"
    <2>1. SetDynamicContentPeak(s, p) =
              IF s.status = "TEST_LOAD" THEN [s EXCEPT !.breakPeak = p]
              ELSE IF s.status = "TEST_IDLE" THEN [s EXCEPT !.peakStatus = "PEAK_KEEP", !.peakDelayTime = StayTime]
              ELSE s
        BY <1>2 DEF SetDynamicContentPeak
    <2>2. CASE s.status = "TEST_LOAD"
        <3>1. SetDynamicContentPeak(s, p) = [s EXCEPT !.breakPeak = p]
            BY <2>1, <2>2
        <3>2. [s EXCEPT !.breakPeak = p] \in MType
            BY DEF MType
        <3> QED BY <1>2, <2>2, <3>1, <3>2 DEF MType, SameCount
    <2>3. CASE s.status = "TEST_IDLE"
        <3>1. SetDynamicContentPeak(s, p) = [s EXCEPT !.peakStatus = "PEAK_KEEP", !.peakDelayTime = StayTime]
            BY <2>1, <2>3
        <3>2. [s EXCEPT !.peakStatus = "PEAK_KEEP", !.peakDelayTime = StayTime] \in MType
            <4>1. StayTime \in 0 .. StayTime
                BY Constants
            <4> QED BY <4>1 DEF MType, PeakStates
        <3> QED BY <1>2, <2>3, <3>1, <3>2 DEF MType, SameCount
    <2>4. CASE s.status \notin {"TEST_LOAD", "TEST_IDLE"}
        BY <1>2, <2>1, <2>4 DEF MType, SameCount
    <2> QED BY <2>2, <2>3, <2>4
<1>3. CASE s.peakStatus = "PEAK_KEEP"
    <2>1. PICK k \in PeakStates : k = IF s.status = "TEST_LOAD" \/ s.peakDelayTime = 0 THEN "PEAK_IDLE" ELSE "PEAK_KEEP"
        BY DEF PeakStates
    <2>2. PICK t \in 0 .. StayTime : t = IF s.peakDelayTime > 0 THEN s.peakDelayTime - 1 ELSE 0
        <3>1. s.peakDelayTime \in 0 .. StayTime
            BY DEF MType
        <3> QED BY <3>1, Constants
    <2>3. SetDynamicContentPeak(s, p) = [s EXCEPT !.peakStatus = k, !.peakDelayTime = t]
        BY <1>3, <2>1, <2>2 DEF SetDynamicContentPeak, MType
    <2>4. [s EXCEPT !.peakStatus = k, !.peakDelayTime = t] \in MType
        BY DEF MType
    <2>5. LET d == SetDynamicContentPeak(s, p)
          IN  d \in MType /\ SameCount(s, d) /\ d.peakStatus = k
        BY <2>3, <2>4 DEF MType, SameCount
    <2> QED BY <1>3, <2>1, <2>5
<1> QED BY <1>1, <1>2, <1>3 DEF MType, PeakStates

LEMMA SampleStep == ASSUME IInv, Sample, ADJOIN_DOWN_POINT_NUM > 1 PROVE IInv'
<1>1. /\ m \in MType /\ judge \in JudgeType /\ loadPeak \in Nat /\ force' \in Nat
      /\ loadPeak \in Forces /\ force' \in Forces
      /\ judge.last \in Nat /\ judge.now \in Nat /\ judge.peak \in Nat /\ judge.index \in Nat
    <2>1. m \in MType /\ judge \in JudgeType /\ loadPeak \in Forces /\ force' \in Forces
        BY DEF IInv, TypeInv, Sample
    <2>2. loadPeak \in Nat /\ force' \in Nat
        BY <2>1, Constants
    <2> QED BY <2>1, <2>2, JudgeTypes
<1>2. /\ judge' \in JudgeType /\ judge'.peak \in Forces
      /\ ~ TakesPoint(judge) => /\ judge'.index = judge.index + 1 /\ judge'.last = judge.last
                                /\ judge'.now = judge.now /\ judge'.peak = judge.peak
      /\ TakesPoint(judge) => /\ judge'.index = 0 /\ judge'.last = judge.now /\ judge'.now = force'
                              /\ judge'.peak = Larger(force', judge.peak)
    <2>1. judge' = JudgeBreakCalculate(judge, force')
        BY DEF Sample
    <2> HIDE DEF JudgeBreakCalculate
    <2>2. judge' \in JudgeType
        BY <1>1, <2>1, JudgeFacts
    <2>3. judge'.peak \in Forces
        BY <2>2, JudgeTypes
    <2> QED BY <1>1, <2>1, <2>2, <2>3, JudgeFacts
<1>3. m' = SetDynamicContentPeak(m, judge'.peak) /\ pc = "sample" /\ pc' = "core" /\ files' = files
    BY DEF Sample
<1>4. /\ m' \in MType /\ SameCount(m, m')
      /\ m.peakStatus = "PEAK_IDLE" =>
             m'.breakPeak = 0 /\ m'.peakStatus = (IF m.status = "TEST_LOAD" THEN "PEAK_SHOW" ELSE "PEAK_IDLE")
      /\ m.peakStatus = "PEAK_SHOW" =>
             IF m.status = "TEST_LOAD" THEN m'.peakStatus = "PEAK_SHOW" /\ m'.breakPeak = judge'.peak
             ELSE IF m.status = "TEST_IDLE" THEN m'.peakStatus = "PEAK_KEEP" ELSE m' = m
      /\ m.peakStatus = "PEAK_KEEP" =>
             IF m.status = "TEST_LOAD" THEN m'.peakStatus = "PEAK_IDLE"
             ELSE m'.peakStatus \in {"PEAK_IDLE", "PEAK_KEEP"}
    BY <1>1, <1>2, <1>3, PeakShown
<1>5. m'.status = m.status /\ m'.pieceComplete = m.pieceComplete /\ m'.num = m.num
    BY <1>4 DEF SameCount
<1>6. loadPeak' = (IF m.status = "TEST_LOAD" /\ TakesPoint(judge) THEN Larger(loadPeak, force') ELSE loadPeak)
    BY DEF Sample
<1>7. TypeInv'
    <2>1. loadPeak' \in Forces
        BY <1>1, <1>6 DEF Larger
    <2> QED BY <1>1, <1>2, <1>3, <1>4, <2>1 DEF IInv, TypeInv, Phases
<1>8. FilesInv'
    BY <1>3, <1>5, FilesStay DEF IInv
<1>9. Counted(m', pc')
    BY <1>3, <1>4, CountedStays DEF IInv
<1>10. judge'.last =< judge'.peak /\ judge'.now =< judge'.peak
    BY <1>1, <1>2 DEF IInv, PeakInv, Larger
<1>11. ASSUME m.status = "TEST_LOAD" PROVE Following(m', judge', loadPeak')
    <2>1. Following(m, judge, loadPeak)
        BY <1>11 DEF IInv, PeakInv
    <2>2. judge'.peak = loadPeak'
        BY <1>1, <1>2, <1>6, <1>11, <2>1 DEF Following, Larger
    <2>3. CASE m.peakStatus = "PEAK_KEEP"
        <3>1. judge.index = 0 /\ judge.last = 0 /\ judge.now = 0 /\ judge.peak = 0
            BY <2>1, <2>3 DEF Following
        <3>2. ~ TakesPoint(judge)
            BY <3>1, Constants DEF TakesPoint
        <3>3. judge'.index = 1 /\ judge'.last = 0 /\ judge'.now = 0 /\ judge'.peak = 0
            BY <1>2, <3>1, <3>2
        <3>4. m'.peakStatus = "PEAK_IDLE"
            BY <1>4, <1>11, <2>3
        <3> QED BY <2>2, <3>3, <3>4 DEF Following
    <2>4. CASE m.peakStatus = "PEAK_IDLE"
        <3>1. CASE TakesPoint(judge)
            BY <1>1, <1>2, <1>4, <1>11, <2>1, <2>2, <2>4, <3>1 DEF Following, Larger
        <3>2. CASE ~ TakesPoint(judge)
            BY <1>1, <1>2, <1>4, <1>11, <2>1, <2>2, <2>4, <3>2 DEF Following
        <3> QED BY <3>1, <3>2
    <2>5. CASE m.peakStatus = "PEAK_SHOW"
        BY <1>4, <1>11, <2>2, <2>5 DEF Following
    <2> QED BY <1>1, <2>3, <2>4, <2>5 DEF MType, PeakStates
<1>12. ASSUME Held(m) PROVE m'.peakStatus = "PEAK_SHOW" /\ m'.breakPeak = loadPeak' /\ loadPeak' > 0
    <2>1. m.peakStatus = "PEAK_SHOW" /\ m.breakPeak = loadPeak /\ loadPeak > 0
        BY <1>12 DEF IInv, PeakInv
    <2>2. m.status # "TEST_LOAD" /\ m.status # "TEST_IDLE"
        BY <1>12 DEF Held
    <2> QED BY <1>4, <1>6, <2>1, <2>2
<1>13. m.status = "TEST_IDLE" => m'.peakStatus # "PEAK_SHOW"
    BY <1>1, <1>4 DEF MType, PeakStates
<1>14. PeakInv(m', pc', judge', loadPeak')
    BY <1>5, <1>10, <1>11, <1>12, <1>13 DEF PeakInv, Held
<1> QED BY <1>7, <1>8, <1>9, <1>14 DEF IInv

-----------------------------------------------------------------------------
(* What is done after a test: a report with one piece more, one piece      *)
(* fewer, or complete.                                                     *)

Kept(s, d) ==
    /\ d.status = s.status /\ d.num = s.num /\ d.sumSampleNum = s.sumSampleNum /\ d.serial = s.serial
    /\ d.leavePage = s.leavePage /\ d.breakPeak = s.breakPeak /\ d.peakStatus = s.peakStatus
    /\ d.page = s.page

Disposed(s, d) ==
    /\ d \in MType /\ Kept(s, d)
    /\ ~ d.pieceComplete /\ ~ d.cancelLastPiece /\ ~ d.handEndOneGroup
    /\ d.report.num = s.report.num
    /\ d.curComplete = d.report.sample
    /\ d.report.sample = IF s.cancelLastPiece THEN s.curComplete - 1 ELSE s.curComplete
    /\ d.report.complete = (s.report.complete \/ EndsGroup(s))
    /\ d.groupComplete = (s.groupComplete \/ s.handEndOneGroup)
    /\ \A i \in Piece : d.report.force[i] = IF i = s.curComplete /\ ~ s.handEndOneGroup
                                            THEN IF s.cancelLastPiece THEN 0 ELSE s.breakPeak
                                            ELSE s.report.force[i]

\* A report with another piece count and other forces.
LEMMA ReportWith ==
    ASSUME NEW r \in ReportType, NEW n \in Nat, NEW f \in [Piece -> Forces], NEW c \in BOOLEAN
    PROVE  LET d == [r EXCEPT !.sample = n, !.force = f, !.complete = c]
           IN  d \in ReportType /\ d.num = r.num /\ d.sample = n /\ d.complete = c /\ d.force = f
BY DEF ReportType

LEMMA Cancelled ==
    ASSUME NEW s \in MType, s.cancelLastPiece, ~ s.handEndOneGroup, ~ s.pieceComplete, s.curComplete > 0
    PROVE  Disposed(s, AfterDispose(s))
<1>1. PICK n \in Nat : n = s.curComplete - 1 /\ n = IF s.curComplete > 0 THEN s.curComplete - 1 ELSE 0
    <2>1. s.curComplete \in Nat
        BY FieldTypes
    <2> QED BY <2>1
<1>2. PICK f : f = [i \in Piece |-> IF i = s.curComplete THEN 0 ELSE s.report.force[i]]
    OBVIOUS
<1>3. s.report \in ReportType /\ s.report.complete \in BOOLEAN /\ s.report.force \in [Piece -> Forces]
    BY FieldTypes DEF ReportType
<1>4. f \in [Piece -> Forces]
    BY <1>2, <1>3, Constants
<1>5. PICK r : r = [s.report EXCEPT !.sample = n, !.force = f]
    OBVIOUS
<1>6. /\ r \in ReportType /\ r.num = s.report.num /\ r.sample = n
      /\ r.complete = s.report.complete /\ r.force = f
    BY <1>3, <1>4, <1>5 DEF ReportType
<1>7. CancelLastPiece(s) = [s EXCEPT !.cancelLastPiece = FALSE, !.curComplete = n, !.report = r]
    BY <1>1, <1>2, <1>5 DEF CancelLastPiece, MType, ReportType
<1>8. PICK d : d = [s EXCEPT !.cancelLastPiece = FALSE, !.curComplete = n, !.report = r]
    OBVIOUS
<1>9. d \in MType
    BY <1>6, <1>8 DEF MType
<1>10. /\ Kept(s, d) /\ d.report = r /\ d.curComplete = n /\ d.cancelLastPiece = FALSE
       /\ d.pieceComplete = s.pieceComplete /\ d.handEndOneGroup = s.handEndOneGroup
       /\ d.groupComplete = s.groupComplete
    BY <1>8 DEF MType, Kept
<1>11. AfterDispose(s) = d
    BY <1>7, <1>8, <1>10 DEF AfterDispose, EndGroupByHand, BreakProcess, EndsGroup
<1>12. \A i \in Piece : d.report.force[i] = IF i = s.curComplete THEN 0 ELSE s.report.force[i]
    BY <1>2, <1>6, <1>10
<1>13. s.groupComplete \in BOOLEAN
    BY FieldTypes
<1> QED BY <1>1, <1>3, <1>6, <1>9, <1>10, <1>11, <1>12, <1>13 DEF Disposed, EndsGroup

LEMMA Ended ==
    ASSUME NEW s \in MType, s.handEndOneGroup, ~ s.cancelLastPiece, ~ s.pieceComplete,
           s.curComplete = s.report.sample
    PROVE  Disposed(s, AfterDispose(s))
<1>1. PICK r : r = [s.report EXCEPT !.complete = TRUE]
    OBVIOUS
<1>2. /\ r \in ReportType /\ r.num = s.report.num /\ r.sample = s.report.sample
      /\ r.complete = TRUE /\ r.force = s.report.force
    <2>1. s.report \in ReportType
        BY FieldTypes
    <2> QED BY <1>1, <2>1 DEF ReportType
<1>3. PICK e : e = [s EXCEPT !.handEndOneGroup = FALSE, !.groupComplete = TRUE]
    OBVIOUS
<1>4. e \in MType
    BY <1>3 DEF MType
<1>5. /\ Kept(s, e) /\ e.report = s.report /\ e.curComplete = s.curComplete /\ e.pieceComplete = s.pieceComplete
      /\ e.cancelLastPiece = s.cancelLastPiece /\ e.handEndOneGroup = FALSE /\ e.groupComplete = TRUE
    BY <1>3 DEF MType, Kept
<1>6. PICK d : d = [e EXCEPT !.report = r]
    OBVIOUS
<1>7. d \in MType
    BY <1>2, <1>4, <1>6 DEF MType
<1>8. /\ Kept(e, d) /\ d.report = r /\ d.curComplete = e.curComplete /\ d.pieceComplete = e.pieceComplete
      /\ d.cancelLastPiece = e.cancelLastPiece /\ d.handEndOneGroup = e.handEndOneGroup
      /\ d.groupComplete = e.groupComplete
    BY <1>4, <1>6 DEF MType, Kept
<1>9. AfterDispose(s) = d
    <2>1. CancelLastPiece(s) = s /\ EndGroupByHand(s) = e /\ BreakProcess(e) = e
        BY <1>3, <1>5 DEF CancelLastPiece, EndGroupByHand, BreakProcess
    <2>2. AfterDispose(s) = [e EXCEPT !.report.complete = TRUE]
        BY <2>1 DEF AfterDispose, EndsGroup
    <2> QED BY <1>1, <1>4, <1>5, <1>6, <2>2 DEF MType, ReportType
<1>10. Kept(s, d)
    BY <1>5, <1>8 DEF Kept
<1> QED BY <1>2, <1>5, <1>7, <1>8, <1>9, <1>10 DEF Disposed, EndsGroup

LEMMA RecordedPiece ==
    ASSUME NEW s \in MType, s.pieceComplete, ~ s.cancelLastPiece, ~ s.handEndOneGroup
    PROVE  Disposed(s, AfterDispose(s))
<1>1. s.report \in ReportType /\ s.curComplete \in Nat /\ s.breakPeak \in Forces
      /\ s.report.complete \in BOOLEAN /\ s.groupComplete \in BOOLEAN
    BY FieldTypes DEF MType
<1>2. PICK f : f = [i \in Piece |-> IF i = s.curComplete THEN s.breakPeak ELSE s.report.force[i]]
    OBVIOUS
<1>3. f \in [Piece -> Forces]
    BY <1>1, <1>2 DEF ReportType
<1>4. PICK r : r = [s.report EXCEPT !.sample = s.curComplete, !.force = f]
    OBVIOUS
<1>5. /\ r \in ReportType /\ r.num = s.report.num /\ r.sample = s.curComplete
      /\ r.complete = s.report.complete /\ r.force = f
    BY <1>1, <1>3, <1>4 DEF ReportType
<1>6. PICK e : e = [s EXCEPT !.pieceComplete = FALSE, !.report = r]
    OBVIOUS
<1>7. e \in MType
    BY <1>5, <1>6 DEF MType
<1>8. /\ Kept(s, e) /\ e.report = r /\ e.curComplete = s.curComplete /\ e.pieceComplete = FALSE
      /\ e.cancelLastPiece = s.cancelLastPiece /\ e.handEndOneGroup = s.handEndOneGroup
      /\ e.groupComplete = s.groupComplete
    BY <1>6 DEF MType, Kept
<1>9. BreakProcess(s) = e
    BY <1>1, <1>2, <1>4, <1>6 DEF BreakProcess, MType, ReportType
<1>10. CancelLastPiece(s) = s /\ EndGroupByHand(s) = s
    BY DEF CancelLastPiece, EndGroupByHand
<1>11. PICK q : q = [r EXCEPT !.complete = TRUE]
    OBVIOUS
<1>12. /\ q \in ReportType /\ q.num = r.num /\ q.sample = r.sample /\ q.complete = TRUE /\ q.force = r.force
    BY <1>5, <1>11 DEF ReportType
<1>13. PICK d : d = [e EXCEPT !.report = q]
    OBVIOUS
<1>14. d \in MType
    BY <1>7, <1>12, <1>13 DEF MType
<1>15. /\ Kept(e, d) /\ d.report = q /\ d.curComplete = e.curComplete /\ d.pieceComplete = e.pieceComplete
       /\ d.cancelLastPiece = e.cancelLastPiece /\ d.handEndOneGroup = e.handEndOneGroup
       /\ d.groupComplete = e.groupComplete
    BY <1>7, <1>13 DEF MType, Kept
<1>16. AfterDispose(s) = IF s.groupComplete THEN d ELSE e
    <2>1. AfterDispose(s) = IF s.groupComplete THEN [e EXCEPT !.report.complete = TRUE] ELSE e
        BY <1>9, <1>10 DEF AfterDispose, EndsGroup
    <2> QED BY <1>5, <1>7, <1>8, <1>11, <1>13, <2>1 DEF MType, ReportType
<1>17. Kept(s, d)
    BY <1>8, <1>15 DEF Kept
<1>18. EndsGroup(s) = s.groupComplete
    BY <1>1 DEF EndsGroup
<1>19. CASE s.groupComplete
    <2>1. \A i \in Piece : d.report.force[i] = IF i = s.curComplete THEN s.breakPeak ELSE s.report.force[i]
        BY <1>2, <1>5, <1>12, <1>15
    <2>2. /\ d.report.num = s.report.num /\ d.curComplete = d.report.sample /\ d.report.sample = s.curComplete
          /\ d.report.complete = (s.report.complete \/ EndsGroup(s))
          /\ d.groupComplete = (s.groupComplete \/ s.handEndOneGroup)
          /\ ~ d.pieceComplete /\ ~ d.cancelLastPiece /\ ~ d.handEndOneGroup
        BY <1>1, <1>5, <1>8, <1>12, <1>15, <1>18, <1>19
    <2>3. Disposed(s, d)
        BY <1>14, <1>17, <2>1, <2>2 DEF Disposed
    <2> QED BY <1>16, <1>19, <2>3
<1>20. CASE ~ s.groupComplete
    <2>1. \A i \in Piece : e.report.force[i] = IF i = s.curComplete THEN s.breakPeak ELSE s.report.force[i]
        BY <1>2, <1>5, <1>8
    <2>2. /\ e.report.num = s.report.num /\ e.curComplete = e.report.sample /\ e.report.sample = s.curComplete
          /\ e.report.complete = (s.report.complete \/ EndsGroup(s))
          /\ e.groupComplete = (s.groupComplete \/ s.handEndOneGroup)
          /\ ~ e.pieceComplete /\ ~ e.cancelLastPiece /\ ~ e.handEndOneGroup
        BY <1>1, <1>5, <1>8, <1>18, <1>20
    <2>3. Disposed(s, e)
        BY <1>7, <1>8, <2>1, <2>2 DEF Disposed
    <2> QED BY <1>16, <1>20, <2>3
<1> QED BY <1>19, <1>20

-----------------------------------------------------------------------------
(* The steps of a test.                                                    *)

\* With a specimen broken, its loading has left a peak on the display.
LEMMA BrokenHasPeak ==
    ASSUME NEW j \in JudgeType, Broken(j), j.last =< j.peak, j.now =< j.peak
    PROVE  j.peak > 0 /\ (j.now < j.peak \/ j.last > 0)
<1>1. j.last \in Nat /\ j.now \in Nat /\ j.peak \in Nat
    BY JudgeTypes
<1>2. CASE AttenuationRate(j) > BreakTarget
    <2>1. j.now < j.peak
        BY <1>2, Constants DEF AttenuationRate
    <2> QED BY <1>1, <2>1
<1>3. CASE WithMaxForceDifference(j) > BreakTarget
    <2>1. j.now < j.peak
        BY <1>3, Constants DEF WithMaxForceDifference
    <2> QED BY <1>1, <2>1
<1>4. CASE AdjoinTwoPointDifference(j) > BreakTarget
    <2>1. j.now < j.last
        BY <1>4, Constants DEF AdjoinTwoPointDifference
    <2> QED BY <1>1, <2>1
<1> QED BY <1>2, <1>3, <1>4 DEF Broken

\* The page as it stands before a test starts.
LEMMA ShownNow == ASSUME IInv, pc = "core", m.status = "TEST_IDLE" PROVE Shown(m)
BY KnownNow, FieldTypes DEF IInv, Counted, PeakInv, Shown, Held

LEMMA ShownCounts ==
    ASSUME NEW s, Shown(s), NEW c, c \notin {"open", "write"}
    PROVE  Counted(s, c)
<1>1. s.report.sample + 0 = s.report.sample
    BY KnownOfShown, FieldTypes
<1> QED BY <1>1 DEF Shown, Known, Counted, Held

\* A step that leaves the page in a state without a test.
LEMMA IdleStep ==
    ASSUME IInv, m' \in MType, m'.num = m.num, Counted(m', pc'), m'.status = "TEST_IDLE", pc' # "core", pc' \in Phases,
           judge' = judge, loadPeak' = loadPeak, force' = force, files' = files
    PROVE  IInv'
<1>1. TypeInv' /\ FilesInv'
    BY FilesStay DEF IInv, TypeInv
<1>2. PeakInv(m', pc', judge', loadPeak')
    BY DEF IInv, PeakInv, Held
<1> QED BY <1>1, <1>2 DEF IInv

LEMMA ShownStep ==
    ASSUME IInv, Shown(m'), m'.num = m.num, pc' \notin {"core", "open", "write"}, pc' \in Phases,
           judge' = judge, loadPeak' = loadPeak, force' = force, files' = files
    PROVE  IInv'
<1>1. m' \in MType /\ m'.status = "TEST_IDLE"
    BY DEF Shown, Known
<1> QED BY <1>1, IdleStep, ShownCounts

LEMMA IdleTurn == ASSUME IInv, TestIdle PROVE IInv'
<1>1. m' \in MType /\ m'.num = m.num /\ m'.status = "TEST_IDLE" /\ pc' = "leave" /\ pc = "core" /\ m' = m
    BY KnownNow DEF TestIdle, Core
<1>2. Counted(m', pc')
    BY <1>1 DEF IInv, Counted
<1> QED BY <1>1, <1>2, IdleStep DEF TestIdle, Phases

LEMMA RefusedTurn == ASSUME IInv, TestRefused PROVE IInv'
<1>1. Shown(m) /\ pc = "core" /\ pc' = "leave"
    BY ShownNow DEF TestRefused, Core
<1>2. PICK s : Shown(s) /\ m' = Left(s)
    <2>1. CASE m' = Left(m)
        BY <1>1, <2>1
    <2>2. CASE \E card : m' = Left(MainPageCheckSerialRepeat(m, card))
        BY <1>1, <2>2, CheckShows DEF IInv
    <2> QED BY <2>1, <2>2 DEF TestRefused
<1>3. /\ Left(s) \in MType /\ SameCount(s, Left(s)) /\ s \in MType
      /\ Counted(s, "leave") /\ s.status = "TEST_IDLE" /\ s.num = m.num
    BY <1>2, LeftStays, ShownCounts DEF Shown, Known
<1> HIDE DEF Left
<1>4. Counted(m', pc') /\ m'.status = "TEST_IDLE" /\ m'.num = m.num
    BY <1>1, <1>2, <1>3, CountedStays DEF SameCount
<1>5. /\ pc' # "core" /\ pc' \in Phases /\ m' \in MType
      /\ judge' = judge /\ loadPeak' = loadPeak /\ force' = force /\ files' = files
    BY <1>1, <1>2, <1>3 DEF TestRefused, Phases
<1> QED BY <1>4, <1>5, IdleStep

\* The page as it is when the specimen begins to be loaded.
Started(t, d) ==
    /\ d \in MType /\ d.report = t.report /\ d.num = t.num /\ d.sumSampleNum = t.sumSampleNum
    /\ d.curComplete = t.curComplete /\ d.cancelLastPiece = t.cancelLastPiece
    /\ d.handEndOneGroup = t.handEndOneGroup /\ d.peakStatus = t.peakStatus
    /\ d.serial = t.serial /\ d.leavePage = t.leavePage
    /\ ~ d.pieceComplete /\ ~ d.groupComplete /\ d.status = "TEST_LOAD"

LEMMA StartedNow ==
    ASSUME NEW t \in MType
    PROVE  Started(t, [t EXCEPT !.pieceComplete = FALSE, !.groupComplete = FALSE,
                                !.startJudgeBreak = FALSE, !.breakPeak = 0, !.status = "TEST_LOAD"])
<1> DEFINE d == [t EXCEPT !.pieceComplete = FALSE, !.groupComplete = FALSE,
                          !.startJudgeBreak = FALSE, !.breakPeak = 0, !.status = "TEST_LOAD"]
<1>1. PICK a : a = [t EXCEPT !.pieceComplete = FALSE, !.groupComplete = FALSE, !.startJudgeBreak = FALSE]
    OBVIOUS
<1>2. a \in MType
    BY <1>1 DEF MType
<1>3. d = [a EXCEPT !.breakPeak = 0, !.status = "TEST_LOAD"]
    BY <1>1, Zenon
<1>4. d \in MType
    <2>1. 0 \in Forces
        BY Constants
    <2> QED BY <1>2, <1>3, <2>1, ZenonT(30) DEF MType, Status
<1> QED BY <1>4 DEF Started, MType

\* What a start makes of the page.
LEMMA StartOf ==
    ASSUME IInv, TestStart
    PROVE  \E card \in CardStates :
               LET c == MainPageCheckSerialRepeat(m, card)
                   t == TurnedToNextPiece(c, card)
               IN  /\ ~ SerialFails(m, card)
                   /\ Shown(m) /\ Shown(c) /\ Shown(t) /\ Started(t, m')
                   /\ m.report.num # 0 /\ t.report.num # 0
<1>1. Shown(m) /\ m.report.num # 0
    <2>1. pc = "core" /\ m.status = "TEST_IDLE" /\ m.sumSampleNum > 0
        BY DEF TestStart, Core
    <2>2. Shown(m)
        BY <2>1, ShownNow
    <2> QED BY <2>1, <2>2 DEF Shown
<1>2. PICK card \in CardStates :
          /\ ~ SerialFails(m, card)
          /\ m' = [TurnedToNextPiece(MainPageCheckSerialRepeat(m, card), card) EXCEPT
                     !.pieceComplete = FALSE, !.groupComplete = FALSE,
                     !.startJudgeBreak = FALSE, !.breakPeak = 0, !.status = "TEST_LOAD"]
    BY DEF TestStart
<1>3. Shown(MainPageCheckSerialRepeat(m, card)) /\ MainPageCheckSerialRepeat(m, card).report.num # 0
    BY <1>1, CheckShows DEF IInv
<1>4. PICK t : t = TurnedToNextPiece(MainPageCheckSerialRepeat(m, card), card)
    OBVIOUS
<1>5. Shown(t) /\ t.report.num # 0
    BY <1>3, <1>4, TurnedShows DEF IInv
<1>6. Started(t, m')
    BY <1>2, <1>4, <1>5, StartedNow, KnownOfShown
<1> QED BY <1>1, <1>2, <1>3, <1>4, <1>5, <1>6

LEMMA StartTurn == ASSUME IInv, TestStart PROVE IInv'
<1>1. PICK t : Shown(t) /\ Started(t, m') /\ t.report.num # 0
    BY StartOf
<1>2. judge' = InitJudgeBreakPoint /\ loadPeak' = 0 /\ pc' = "leave" /\ force' = force /\ files' = files
    BY DEF TestStart
<1>3. judge' \in JudgeType
    BY <1>2, JudgeInit
<1>4. TypeInv'
    <2>1. loadPeak' \in Forces
        BY <1>2, Constants
    <2> QED BY <1>1, <1>2, <1>3, <2>1 DEF Started, IInv, TypeInv, Phases
<1>5. FilesInv'
    <2>1. m'.num = m.num
        BY <1>1 DEF Started, Shown, Known
    <2> QED BY <1>2, <2>1, FilesStay DEF IInv
<1>6. Counted(m', pc')
    <2>1. t.report.sample + 0 = t.report.sample
        BY <1>1, KnownOfShown, FieldTypes
    <2> QED BY <1>1, <1>2, <2>1 DEF Started, Shown, Known, Counted, Held
<1>7. t.peakStatus # "PEAK_SHOW"
    BY <1>1 DEF Shown
<1>8. PeakInv(m', pc', judge', loadPeak')
    BY <1>1, <1>2, <1>7 DEF Started, PeakInv, Following, Held, InitJudgeBreakPoint
<1> QED BY <1>4, <1>5, <1>6, <1>8 DEF IInv

LEMMA LoadTurn == ASSUME IInv, TestLoad PROVE IInv'
<1> DEFINE judging == m.startJudgeBreak \/ force > BreakStart
           n == m.curComplete + 1
<1>1. /\ pc = "core" /\ pc' = "leave" /\ m.status = "TEST_LOAD" /\ m \in MType
      /\ judge' = judge /\ loadPeak' = loadPeak /\ force' = force /\ files' = files
    BY KnownNow DEF TestLoad, Core
<1>2. ~ m.pieceComplete /\ m.report.num # 0 /\ m.curComplete = m.report.sample /\ ~ m.cancelLastPiece /\ ~ m.handEndOneGroup
    BY <1>1, FieldTypes DEF IInv, Counted, Held
<1>3. Following(m, judge, loadPeak)
    BY <1>1 DEF IInv, PeakInv
<1>4. CASE judging /\ Broken(judge)
    <2>1. PICK g \in BOOLEAN : g = (m.groupComplete \/ n >= m.sumSampleNum)
        OBVIOUS
    <2>2. m' = [m EXCEPT !.startJudgeBreak = TRUE, !.pieceComplete = TRUE, !.curComplete = n,
                         !.groupComplete = g, !.status = "TEST_BREAK"]
        BY <1>1, <1>4, <2>1 DEF TestLoad, MType
    <2>3. n \in Nat
        BY <1>1, FieldTypes
    <2> HIDE DEF n
    <2>4. PICK a : a = [m EXCEPT !.startJudgeBreak = TRUE, !.pieceComplete = TRUE, !.curComplete = n]
        OBVIOUS
    <2>5. a \in MType
        BY <1>1, <2>3, <2>4 DEF MType
    <2>6. m' = [a EXCEPT !.groupComplete = g, !.status = "TEST_BREAK"]
        BY <2>2, <2>4, Zenon
    <2>7. m' \in MType
        BY <2>1, <2>5, <2>6, ZenonT(30) DEF MType, Status
    <2>8. /\ m'.report = m.report /\ m'.num = m.num /\ m'.sumSampleNum = m.sumSampleNum
          /\ m'.curComplete = n /\ m'.pieceComplete = TRUE /\ m'.status = "TEST_BREAK"
          /\ m'.cancelLastPiece = m.cancelLastPiece /\ m'.handEndOneGroup = m.handEndOneGroup
          /\ m'.breakPeak = m.breakPeak /\ m'.peakStatus = m.peakStatus
        BY <1>1, <2>2 DEF MType
    <2>9. Counted(m', pc')
        BY <1>1, <1>2, <2>8 DEF IInv, Counted, Held, n
    <2>10. m.peakStatus = "PEAK_SHOW" /\ m.breakPeak = loadPeak /\ loadPeak > 0
        <3>1. judge \in JudgeType /\ judge.last =< judge.peak /\ judge.now =< judge.peak
              /\ judge.last \in Nat /\ judge.now \in Nat /\ judge.peak \in Nat
            BY JudgeTypes DEF IInv, TypeInv, PeakInv
        <3>2. judge.peak > 0 /\ (judge.now < judge.peak \/ judge.last > 0)
            BY <1>4, <3>1, BrokenHasPeak
        <3>3. m.peakStatus \in PeakStates
            BY <1>1 DEF MType
        <3> QED BY <1>3, <3>1, <3>2, <3>3 DEF Following, PeakStates
    <2>11. PeakInv(m', pc', judge', loadPeak')
        BY <1>1, <2>8, <2>10 DEF IInv, PeakInv, Held
    <2>12. TypeInv' /\ FilesInv'
        BY <1>1, <2>7, <2>8, FilesStay DEF IInv, TypeInv, Phases
    <2> QED BY <2>9, <2>11, <2>12 DEF IInv
<1>5. CASE ~ (judging /\ Broken(judge))
    <2>1. PICK b \in BOOLEAN : b = judging
        OBVIOUS
    <2>2. PICK st \in {"TEST_IDLE", "TEST_LOAD"} : st = IF force < StartLoad THEN "TEST_IDLE" ELSE m.status
        BY <1>1
    <2>3. m' = [m EXCEPT !.startJudgeBreak = b, !.status = st]
        BY <1>1, <1>5, <2>1, <2>2 DEF TestLoad, MType
    <2>4. m' \in MType
        BY <1>1, <2>3 DEF MType, Status
    <2>5. /\ m'.report = m.report /\ m'.num = m.num /\ m'.sumSampleNum = m.sumSampleNum
          /\ m'.curComplete = m.curComplete /\ m'.pieceComplete = m.pieceComplete /\ m'.status = st
          /\ m'.cancelLastPiece = m.cancelLastPiece /\ m'.handEndOneGroup = m.handEndOneGroup
          /\ m'.breakPeak = m.breakPeak /\ m'.peakStatus = m.peakStatus
        BY <1>1, <2>3 DEF MType
    <2>6. Counted(m', pc')
        BY <1>1, <1>2, <2>5 DEF IInv, Counted, Held
    <2>7. PeakInv(m', pc', judge', loadPeak')
        BY <1>1, <1>3, <2>5 DEF IInv, PeakInv, Held, Following
    <2>8. TypeInv' /\ FilesInv'
        BY <1>1, <2>4, <2>5, FilesStay DEF IInv, TypeInv, Phases
    <2> QED BY <2>6, <2>7, <2>8 DEF IInv
<1> QED BY <1>4, <1>5

LEMMA BreakTurn == ASSUME IInv, TestBreak PROVE IInv'
<1>1. /\ pc = "core" /\ pc' = "leave" /\ m.status = "TEST_BREAK" /\ m \in MType
      /\ judge' = judge /\ loadPeak' = loadPeak /\ force' = force /\ files' = files
      /\ m' = [m EXCEPT !.status = "TEST_UNLOAD"]
    BY KnownNow DEF TestBreak, Core
<1>2. m' \in MType
    BY <1>1 DEF MType, Status
<1>3. /\ m'.report = m.report /\ m'.num = m.num /\ m'.sumSampleNum = m.sumSampleNum
      /\ m'.curComplete = m.curComplete /\ m'.pieceComplete = m.pieceComplete /\ m'.status = "TEST_UNLOAD"
      /\ m'.cancelLastPiece = m.cancelLastPiece /\ m'.handEndOneGroup = m.handEndOneGroup
      /\ m'.breakPeak = m.breakPeak /\ m'.peakStatus = m.peakStatus
    BY <1>1 DEF MType
<1>4. Counted(m', pc')
    BY <1>1, <1>3 DEF IInv, Counted, Held
<1>5. PeakInv(m', pc', judge', loadPeak')
    BY <1>1, <1>3 DEF IInv, PeakInv, Held
<1>6. TypeInv' /\ FilesInv'
    BY <1>1, <1>2, <1>3, FilesStay DEF IInv, TypeInv, Phases
<1> QED BY <1>4, <1>5, <1>6 DEF IInv

LEMMA UnloadTurn == ASSUME IInv, TestUnload PROVE IInv'
<1>1. /\ pc = "core" /\ pc' = "leave" /\ m.status = "TEST_UNLOAD" /\ m \in MType
      /\ judge' = judge /\ loadPeak' = loadPeak /\ force' = force /\ files' = files
    BY KnownNow DEF TestUnload, Core
<1>2. PICK st \in {"TEST_UNLOAD", "TEST_SAVE"}, b \in BOOLEAN :
          m' = [m EXCEPT !.status = st, !.testAfterDispose = b]
    <2>1. CASE force < StartLoad
        <3>1. PICK b \in BOOLEAN : b = ~ m.groupComplete
            OBVIOUS
        <3> QED BY <2>1, <3>1 DEF TestUnload
    <2>2. CASE ~ (force < StartLoad)
        <3>1. m' = m /\ m.testAfterDispose \in BOOLEAN
            BY <1>1, <2>2 DEF TestUnload, MType
        <3>2. m = [m EXCEPT !.status = m.status, !.testAfterDispose = m.testAfterDispose]
            BY <1>1 DEF MType
        <3> QED BY <1>1, <3>1, <3>2
    <2> QED BY <2>1, <2>2
<1>3. m' \in MType
    BY <1>1, <1>2 DEF MType, Status
<1>4. /\ m'.report = m.report /\ m'.num = m.num /\ m'.sumSampleNum = m.sumSampleNum
      /\ m'.curComplete = m.curComplete /\ m'.pieceComplete = m.pieceComplete /\ m'.status = st
      /\ m'.cancelLastPiece = m.cancelLastPiece /\ m'.handEndOneGroup = m.handEndOneGroup
      /\ m'.breakPeak = m.breakPeak /\ m'.peakStatus = m.peakStatus
    BY <1>1, <1>2 DEF MType
<1>5. Counted(m', pc')
    BY <1>1, <1>4 DEF IInv, Counted, Held
<1>6. PeakInv(m', pc', judge', loadPeak')
    BY <1>1, <1>4 DEF IInv, PeakInv, Held
<1>7. TypeInv' /\ FilesInv'
    BY <1>1, <1>3, <1>4, FilesStay DEF IInv, TypeInv, Phases
<1> QED BY <1>5, <1>6, <1>7 DEF IInv

\* After a test exactly one of three things is to be recorded.
LEMMA OneToRecord ==
    ASSUME IInv, Core("TEST_SAVE")
    PROVE  /\ m.curComplete > 0 /\ m.report.num # 0 /\ Disposed(m, AfterDispose(m))
           /\ \/ m.cancelLastPiece /\ ~ m.handEndOneGroup /\ ~ m.pieceComplete /\ m.curComplete = m.report.sample
              \/ m.handEndOneGroup /\ ~ m.cancelLastPiece /\ ~ m.pieceComplete /\ m.curComplete = m.report.sample
              \/ /\ m.pieceComplete /\ ~ m.cancelLastPiece /\ ~ m.handEndOneGroup
                 /\ m.curComplete = m.report.sample + 1 /\ m.breakPeak > 0
<1>1. m \in MType /\ m.status = "TEST_SAVE" /\ pc = "core"
    BY KnownNow DEF Core
<1>2. m.report.sample \in Nat
    BY <1>1, FieldTypes
<1>3. Counted(m, pc) /\ SoundReport(m.report)
    BY DEF IInv, Counted
<1>4. CASE m.cancelLastPiece
    <2>1. ~ m.handEndOneGroup /\ ~ m.pieceComplete /\ m.curComplete = m.report.sample /\ m.curComplete > 0
        BY <1>2, <1>3, <1>4 DEF Counted
    <2> QED BY <1>1, <1>2, <1>3, <1>4, <2>1, Cancelled DEF SoundReport
<1>5. CASE m.handEndOneGroup
    <2>1. ~ m.cancelLastPiece /\ ~ m.pieceComplete /\ m.curComplete = m.report.sample /\ m.curComplete > 0
        BY <1>2, <1>3, <1>5 DEF Counted
    <2> QED BY <1>1, <1>2, <1>3, <1>5, <2>1, Ended DEF SoundReport
<1>6. CASE m.pieceComplete
    <2>1. /\ ~ m.cancelLastPiece /\ ~ m.handEndOneGroup /\ m.curComplete = m.report.sample + 1
          /\ m.report.num # 0
        BY <1>2, <1>3, <1>6 DEF Counted
    <2>2. m.breakPeak > 0
        BY <1>1, <1>6 DEF IInv, PeakInv, Held
    <2> QED BY <1>1, <1>2, <1>6, <2>1, <2>2, RecordedPiece
<1> QED BY <1>1, <1>3, <1>4, <1>5, <1>6 DEF Counted

\* What is recorded leaves no gap.
LEMMA DisposedIsSound ==
    ASSUME IInv, Core("TEST_SAVE")
    PROVE  LET d == AfterDispose(m)
           IN  /\ SoundReport(d.report) /\ d.report.num # 0
               /\ d.sumSampleNum = d.report.num /\ d.report.sample \in Nat
<1>1. PICK d : d = AfterDispose(m)
    OBVIOUS
<1>2. Disposed(m, d)
    BY <1>1, OneToRecord
<1>3. m.report.sample \in Nat /\ Gapless(m.report) /\ m.sumSampleNum = m.report.num
    BY KnownNow, FieldTypes DEF IInv, Counted, SoundReport
<1>4. \A i \in Piece : i \in Nat
    BY Constants DEF Piece
<1>5. Gapless(d.report)
    <2>1. CASE m.cancelLastPiece
        <3>1. /\ m.curComplete = m.report.sample /\ ~ m.handEndOneGroup
              /\ d.report.sample = m.curComplete - 1
            BY <1>2, <2>1, OneToRecord DEF Disposed
        <3>2. \A i \in Piece : d.report.force[i] = IF i = m.curComplete THEN 0 ELSE m.report.force[i]
            BY <1>2, <2>1, <3>1 DEF Disposed
        <3> QED BY <1>3, <1>4, <3>1, <3>2 DEF Gapless
    <2>2. CASE m.handEndOneGroup
        <3>1. m.curComplete = m.report.sample /\ d.report.sample = m.curComplete
            BY <1>2, <2>2, OneToRecord DEF Disposed
        <3>2. \A i \in Piece : d.report.force[i] = m.report.force[i]
            BY <1>2, <2>2 DEF Disposed
        <3> QED BY <1>3, <1>4, <3>1, <3>2 DEF Gapless
    <2>3. CASE m.pieceComplete
        <3>1. /\ m.curComplete = m.report.sample + 1 /\ m.breakPeak > 0 /\ ~ m.handEndOneGroup
              /\ ~ m.cancelLastPiece /\ d.report.sample = m.curComplete
            BY <1>2, <2>3, OneToRecord DEF Disposed
        <3>2. \A i \in Piece : d.report.force[i] = IF i = m.curComplete THEN m.breakPeak ELSE m.report.force[i]
            BY <1>2, <3>1 DEF Disposed
        <3> QED BY <1>3, <1>4, <3>1, <3>2 DEF Gapless
    <2> QED BY <2>1, <2>2, <2>3, OneToRecord
<1>6. d.report.num # 0 /\ d.sumSampleNum = d.report.num
    BY <1>2, <1>3, OneToRecord DEF Disposed, Kept
<1>7. d.report.sample \in Nat
    BY <1>2, FieldTypes DEF Disposed
<1> QED BY <1>1, <1>5, <1>6, <1>7 DEF SoundReport

LEMMA SaveTurn == ASSUME IInv, TestSave PROVE IInv'
<1>1. PICK d : d = AfterDispose(m)
    OBVIOUS
<1>2. /\ Core("TEST_SAVE") /\ m \in MType /\ m.status = "TEST_SAVE"
      /\ judge' = judge /\ loadPeak' = loadPeak /\ force' = force /\ files' = files
    BY KnownNow DEF TestSave, Core
<1>3. Disposed(m, d) /\ SoundReport(d.report) /\ d.report.num # 0 /\ d.sumSampleNum = d.report.num /\ d.report.sample \in Nat
    BY <1>1, <1>2, OneToRecord, DisposedIsSound
<1>4. m.curComplete \in Nat /\ m.curComplete > 0 /\ ~ (m.cancelLastPiece /\ m.curComplete =< 1)
    BY <1>2, FieldTypes, OneToRecord DEF TestSave, ToDelete
<1>5. ToSave(m)
    <2>1. m.cancelLastPiece \/ m.handEndOneGroup \/ m.pieceComplete
        BY <1>2, OneToRecord
    <2> QED BY <1>4, <2>1 DEF ToSave, EndsGroup
<1>6. m' = [d EXCEPT !.status = "TEST_SAVE"] /\ d.status = "TEST_SAVE" /\ d \in MType /\ pc' = "open"
    <2>1. d.status = "TEST_SAVE" /\ d \in MType
        BY <1>2, <1>3 DEF Disposed, Kept
    <2> QED BY <1>1, <1>5, <2>1 DEF TestSave, MType
<1>7. m' = d
    BY <1>6 DEF MType
<1>8. d.report.sample > 0
    BY <1>3, <1>4 DEF Disposed
<1>9. d.num = m.num /\ (d.num = 0 => d.report.num = 0)
    BY <1>3 DEF Disposed, Kept, IInv, Counted
<1>10. Counted(m', pc')
    <2>1. d.curComplete = d.report.sample + 0 /\ ~ d.pieceComplete /\ ~ d.cancelLastPiece /\ ~ d.handEndOneGroup
        BY <1>3 DEF Disposed
    <2> QED BY <1>3, <1>6, <1>7, <1>8, <1>9, <2>1 DEF Counted, Held
<1>11. PeakInv(m', pc', judge', loadPeak')
    <2>1. ~ d.pieceComplete
        BY <1>3 DEF Disposed
    <2> QED BY <1>2, <1>6, <1>7, <2>1 DEF IInv, PeakInv, Held
<1>12. TypeInv' /\ FilesInv'
    BY <1>2, <1>6, <1>7, <1>9, FilesStay DEF IInv, TypeInv, Phases
<1> QED BY <1>10, <1>11, <1>12 DEF IInv

\* One file of the card is replaced.
LEMMA FilesWith ==
    ASSUME IInv, NEW n \in 0 .. MaxSerial, NEW f \in FileType,
           files' = [files EXCEPT ![n] = f], m'.num = m.num,
           f \in {NoFile, Truncated} \/ (f.state = "saved" /\ f.report.num > 0 /\ f.report.sample > 0
                                         /\ Gapless(f.report) /\ m.num # 0)
    PROVE  files' \in [0 .. MaxSerial -> FileType] /\ FilesInv'
<1>1. files \in [0 .. MaxSerial -> FileType]
    BY DEF IInv, TypeInv
<1>2. \A k \in 0 .. MaxSerial : files'[k] = IF k = n THEN f ELSE files[k]
    BY <1>1
<1> QED BY <1>1, <1>2 DEF IInv, FilesInv

LEMMA DeleteTurn == ASSUME IInv, TestDelete PROVE IInv'
<1>1. PICK d : d = AfterDispose(m)
    OBVIOUS
<1>2. /\ Core("TEST_SAVE") /\ m \in MType /\ m.status = "TEST_SAVE" /\ pc' = "leave"
      /\ judge' = judge /\ loadPeak' = loadPeak /\ force' = force
    BY KnownNow DEF TestDelete, Core
<1>3. Disposed(m, d) /\ SoundReport(d.report) /\ d.report.num # 0 /\ d.sumSampleNum = d.report.num /\ d.report.sample \in Nat
    BY <1>1, <1>2, OneToRecord, DisposedIsSound
<1>4. PICK ok \in BOOLEAN :
          /\ files' = (IF ok THEN [files EXCEPT ![m.serial] = NoFile] ELSE files)
          /\ m' = [d EXCEPT !.status = "TEST_IDLE", !.leavePage = @ \/ ~ ok \/ files[m.serial] = NoFile]
    BY <1>1 DEF TestDelete
<1>5. d \in MType
    BY <1>3 DEF Disposed
<1>6. PICK b \in BOOLEAN : b = (d.leavePage \/ ~ ok \/ files[m.serial] = NoFile)
    OBVIOUS
<1>7. m' = [d EXCEPT !.status = "TEST_IDLE", !.leavePage = b]
    BY <1>4, <1>5, <1>6 DEF MType
<1>8. m' \in MType
    BY <1>5, <1>7 DEF MType, Status
<1>9. /\ m'.report = d.report /\ m'.num = d.num /\ m'.sumSampleNum = d.sumSampleNum
      /\ m'.curComplete = d.curComplete /\ m'.pieceComplete = d.pieceComplete /\ m'.status = "TEST_IDLE"
      /\ m'.cancelLastPiece = d.cancelLastPiece /\ m'.handEndOneGroup = d.handEndOneGroup
    BY <1>5, <1>7 DEF MType
<1>10. d.num = m.num /\ (d.num = 0 => d.report.num = 0)
    BY <1>3 DEF Disposed, Kept, IInv, Counted
<1>11. Counted(m', pc')
    <2>1. d.curComplete = d.report.sample + 0 /\ ~ d.pieceComplete /\ ~ d.cancelLastPiece /\ ~ d.handEndOneGroup
        BY <1>3 DEF Disposed
    <2> QED BY <1>2, <1>3, <1>9, <1>10, <2>1 DEF Counted, Held
<1>12. PeakInv(m', pc', judge', loadPeak')
    BY <1>2, <1>9 DEF IInv, PeakInv, Held
<1>13. files' \in [0 .. MaxSerial -> FileType] /\ FilesInv'
    <2>1. CASE ok
        <3>1. m.serial \in 0 .. MaxSerial
            BY <1>2, FieldTypes
        <3> QED BY <1>4, <1>9, <1>10, <2>1, <3>1, FilesWith, FileFacts
    <2>2. CASE ~ ok
        BY <1>4, <1>9, <1>10, <2>2, FilesStay DEF IInv, TypeInv
    <2> QED BY <2>1, <2>2
<1> QED BY <1>2, <1>8, <1>11, <1>12, <1>13 DEF IInv, TypeInv, Phases

LEMMA OpenTurn == ASSUME IInv, OpenFile PROVE IInv'
<1>1. /\ pc = "open" /\ pc' = "write" /\ m \in MType /\ m' = m
      /\ judge' = judge /\ loadPeak' = loadPeak /\ force' = force
      /\ files' = [files EXCEPT ![m.serial] = Truncated]
    BY KnownNow DEF OpenFile
<1>2. files' \in [0 .. MaxSerial -> FileType] /\ FilesInv'
    <2>1. m.serial \in 0 .. MaxSerial
        BY <1>1, FieldTypes
    <2> QED BY <1>1, <2>1, FilesWith, FileFacts
<1>3. Counted(m', pc')
    BY <1>1 DEF IInv, Counted
<1>4. PeakInv(m', pc', judge', loadPeak')
    BY <1>1 DEF IInv, PeakInv
<1> QED BY <1>1, <1>2, <1>3, <1>4 DEF IInv, TypeInv, Phases

\* The end of a save, whether it worked or not.
LEMMA SavedTurn ==
    ASSUME IInv, pc \in {"open", "write"}, NEW ok \in BOOLEAN, Saved(ok),
           files' \in [0 .. MaxSerial -> FileType], m'.num = m.num => FilesInv'
    PROVE  IInv'
<1>1. /\ pc' = "leave" /\ m \in MType
      /\ judge' = judge /\ loadPeak' = loadPeak /\ force' = force
    BY KnownNow DEF Saved
<1>2. PICK b \in BOOLEAN : b = (m.leavePage \/ ~ ok)
    OBVIOUS
<1>3. m' = [m EXCEPT !.status = "TEST_IDLE", !.leavePage = b]
    BY <1>1, <1>2 DEF Saved, MType
<1>4. m' \in MType
    BY <1>1, <1>3 DEF MType, Status
<1>5. /\ m'.report = m.report /\ m'.num = m.num /\ m'.sumSampleNum = m.sumSampleNum
      /\ m'.curComplete = m.curComplete /\ m'.pieceComplete = m.pieceComplete /\ m'.status = "TEST_IDLE"
      /\ m'.cancelLastPiece = m.cancelLastPiece /\ m'.handEndOneGroup = m.handEndOneGroup
    BY <1>1, <1>3 DEF MType
<1>6. Counted(m', pc')
    BY <1>1, <1>5 DEF IInv, Counted, Held
<1>7. PeakInv(m', pc', judge', loadPeak')
    BY <1>1, <1>5 DEF IInv, PeakInv, Held
<1> QED BY <1>1, <1>4, <1>5, <1>6, <1>7 DEF IInv, TypeInv, Phases

LEMMA WriteTurn == ASSUME IInv, WriteFile PROVE IInv'
<1>1. /\ pc = "write" /\ m \in MType /\ Saved(TRUE)
      /\ files' = [files EXCEPT ![m.serial] = FileOf(m.report)]
    BY KnownNow DEF WriteFile
<1>2. m.serial \in 0 .. MaxSerial /\ m.report \in ReportType /\ m.report.num \in SampleNums \cup {0} /\ m.report.sample \in Nat
    BY <1>1, FieldTypes
<1>3. /\ m.report.sample > 0 /\ SoundReport(m.report) /\ (m.num = 0 => m.report.num = 0)
    BY <1>1 DEF IInv, Counted
<1>4. m.report.num > 0 /\ m.num # 0 /\ Gapless(m.report)
    BY <1>2, <1>3, SizeOrNone DEF SoundReport
<1>5. FileOf(m.report) \in FileType /\ FileOf(m.report).state = "saved" /\ FileOf(m.report).report = m.report
    BY <1>2 DEF FileOf, FileType
<1>6. ASSUME m'.num = m.num PROVE files' \in [0 .. MaxSerial -> FileType] /\ FilesInv'
    BY <1>1, <1>2, <1>3, <1>4, <1>5, <1>6, FilesWith
<1>7. files' \in [0 .. MaxSerial -> FileType]
    BY <1>1, <1>2, <1>5 DEF IInv, TypeInv
<1> QED BY <1>1, <1>6, <1>7, SavedTurn

LEMMA FailedTurn == ASSUME IInv, OpenFails \/ WriteFails PROVE IInv'
<1>1. pc \in {"open", "write"} /\ Saved(FALSE) /\ files' = files
    BY DEF OpenFails, WriteFails
<1>2. files' \in [0 .. MaxSerial -> FileType] /\ (m'.num = m.num => FilesInv')
    BY <1>1, FilesStay DEF IInv, TypeInv
<1> QED BY <1>1, <1>2, SavedTurn

LEMMA TestTurn == ASSUME IInv, TestStep PROVE IInv'
BY IdleTurn, RefusedTurn, StartTurn, LoadTurn, BreakTurn, UnloadTurn, SaveTurn, DeleteTurn, OpenTurn,
   WriteTurn, FailedTurn DEF TestStep

-----------------------------------------------------------------------------
(* The other pages, and power failures.                                    *)

\* A step that changes nothing a test counts.
LEMMA AsideStep ==
    ASSUME IInv, m' \in MType, SameCount(m, m'), SamePeak(m, m'), pc' \notin {"open", "write", "core"},
           pc' \in Phases, pc \notin {"open", "write"}, judge' = judge, loadPeak' = loadPeak, force' = force, files' = files
    PROVE  IInv'
<1>1. Counted(m', pc')
    BY CountedStays DEF IInv
<1>2. PeakInv(m', pc', judge', loadPeak')
    BY DEF IInv, PeakInv, Held, Following, SameCount, SamePeak
<1>3. TypeInv' /\ FilesInv'
    BY FilesStay DEF IInv, TypeInv, SameCount
<1> QED BY <1>1, <1>2, <1>3 DEF IInv

LEMMA CycleStep == ASSUME IInv, EndCycle PROVE IInv'
<1>1. pc = "leave" /\ judge' = judge /\ loadPeak' = loadPeak /\ force' = force /\ files' = files /\ m \in MType
    BY KnownNow DEF EndCycle
<1>2. CASE m' = m /\ pc' \in {"away", "keys"}
    BY <1>1, <1>2, AsideStep DEF SameCount, SamePeak, Phases
<1>3. CASE m' = LeftFor(m, "MAIN") /\ pc' = "away"
    BY <1>1, <1>3, LeftStays, AsideStep DEF Phases
<1> QED BY <1>2, <1>3 DEF EndCycle

LEMMA ParameterStep == ASSUME IInv, TestParameterPage PROVE IInv'
<1>1. /\ pc = "away" /\ pc' = "away" /\ judge' = judge /\ loadPeak' = loadPeak /\ force' = force
      /\ files' = files /\ m \in MType
    BY KnownNow DEF TestParameterPage
<1>2. PICK n \in SampleNums \cup {m.num}, serial \in {m.serial} \cup {s \in DOMAIN files : ~ Exists(s, {})} :
          m' = [m EXCEPT !.num = n, !.serial = serial, !.page = "MAIN"]
    BY DEF TestParameterPage
<1>3. n \in SampleNums \cup {0} /\ serial \in 0 .. MaxSerial /\ (n = 0 => m.num = 0)
    <2>1. m.num \in SampleNums \cup {0} /\ m.serial \in 0 .. MaxSerial /\ DOMAIN files = 0 .. MaxSerial
        BY <1>1, FieldTypes DEF IInv, TypeInv
    <2> QED BY <1>2, <2>1, Constants
<1>4. PICK a : a = [m EXCEPT !.num = n, !.serial = serial]
    OBVIOUS
<1>5. a \in MType
    BY <1>1, <1>3, <1>4 DEF MType
<1>6. m' = [a EXCEPT !.page = "MAIN"]
    BY <1>2, <1>4, Zenon
<1>7. m' \in MType
    BY <1>5, <1>6 DEF MType
<1>8. /\ m'.report = m.report /\ m'.num = n /\ m'.sumSampleNum = m.sumSampleNum
      /\ m'.curComplete = m.curComplete /\ m'.pieceComplete = m.pieceComplete /\ m'.status = m.status
      /\ m'.cancelLastPiece = m.cancelLastPiece /\ m'.handEndOneGroup = m.handEndOneGroup
      /\ m'.breakPeak = m.breakPeak /\ m'.peakStatus = m.peakStatus
    BY <1>1, <1>2 DEF MType
<1>9. Counted(m', pc')
    BY <1>1, <1>3, <1>8 DEF IInv, Counted, Held
<1>10. PeakInv(m', pc', judge', loadPeak')
    BY <1>1, <1>8 DEF IInv, PeakInv, Held, Following
<1>11. FilesInv'
    BY <1>1, <1>3, <1>8 DEF IInv, FilesInv
<1> QED BY <1>1, <1>7, <1>9, <1>10, <1>11 DEF IInv, TypeInv

LEMMA ReportStep == ASSUME IInv, TestReportPage PROVE IInv'
<1>1. /\ pc = "away" /\ pc' = "away" /\ judge' = judge /\ loadPeak' = loadPeak /\ force' = force
      /\ m \in MType /\ m' = [m EXCEPT !.page = "MAIN"]
    BY KnownNow DEF TestReportPage
<1>2. PICK deleted : files' = [s \in DOMAIN files |-> IF s \in deleted THEN NoFile ELSE files[s]]
    BY DEF TestReportPage
<1>3. m' \in MType
    BY <1>1 DEF MType
<1>4. SameCount(m, m') /\ SamePeak(m, m')
    BY <1>1 DEF MType, SameCount, SamePeak
<1>5. Counted(m', pc')
    BY <1>1, <1>4, CountedStays DEF IInv
<1>6. PeakInv(m', pc', judge', loadPeak')
    BY <1>1, <1>4 DEF IInv, PeakInv, Held, Following, SameCount, SamePeak
<1>7. files' \in [0 .. MaxSerial -> FileType] /\ \A n \in 0 .. MaxSerial : files'[n] \in {NoFile, files[n]}
    <2>1. files \in [0 .. MaxSerial -> FileType] /\ NoFile \in FileType
        BY FileFacts DEF IInv, TypeInv
    <2> HIDE DEF FileType, NoFile
    <2> QED BY <1>2, <2>1
<1>8. FilesInv'
    <2>1. m'.num = m.num
        BY <1>4 DEF SameCount
    <2> HIDE DEF NoFile
    <2> QED BY <1>7, <2>1 DEF IInv, FilesInv
<1> QED BY <1>1, <1>3, <1>5, <1>6, <1>7, <1>8 DEF IInv, TypeInv

LEMMA EnterStep == ASSUME IInv, EnterMainPage PROVE IInv'
<1>1. PICK card : m' = ReloadTestResultArea(m, card)
    BY DEF EnterMainPage
<1>2. /\ pc' \in {"away", "keys"} /\ judge' = judge /\ loadPeak' = loadPeak /\ force' = force /\ files' = files
    BY DEF EnterMainPage
<1>3. Known(m)
    BY KnownNow
<1>4. Shown(m')
    BY <1>1, <1>3, AreaShows DEF IInv
<1>5. m'.num = m.num
    BY <1>4 DEF Shown, Known
<1> QED BY <1>2, <1>4, <1>5, ShownStep DEF Phases

\* What is left after the power comes back.
LEMMA PoweredUp ==
    ASSUME NEW serial \in 0 .. MaxSerial, NEW n \in SampleNums \cup {0}, NEW c, c \notin {"core", "open", "write"}
    PROVE  LET s == PowerUp(serial, n)
           IN  /\ s \in MType /\ s.num = n /\ Counted(s, c)
               /\ InitJudgeBreakPoint \in JudgeType /\ PeakInv(s, c, InitJudgeBreakPoint, 0)
<1>1. PICK s : s = PowerUp(serial, n)
    OBVIOUS
<1>2. PICK r : r = Fresh(0)
    OBVIOUS
<1>3. r \in ReportType /\ r.num = 0 /\ r.sample = 0 /\ SoundReport(r)
    BY <1>2, NoReport, EmptyIsGapless
<1>4. s \in MType
    <2>1. 0 \in Forces /\ 0 \in 0 .. StayTime
        BY Constants
    <2> QED BY <1>1, <1>2, <1>3, <2>1 DEF PowerUp, MType, Status, PeakStates
<1>5. /\ s.report = r /\ s.num = n /\ s.sumSampleNum = 0 /\ s.curComplete = 0 /\ s.pieceComplete = FALSE
      /\ s.status = "TEST_IDLE" /\ s.cancelLastPiece = FALSE /\ s.handEndOneGroup = FALSE
    BY <1>1, <1>2 DEF PowerUp
<1>6. Counted(s, c)
    BY <1>3, <1>5 DEF Counted, Held
<1>7. InitJudgeBreakPoint \in JudgeType /\ PeakInv(s, c, InitJudgeBreakPoint, 0)
    BY <1>5, JudgeInit DEF PeakInv, Held, InitJudgeBreakPoint
<1> QED BY <1>1, <1>4, <1>5, <1>6, <1>7

LEMMA PowerStep == ASSUME IInv, PowerCut PROVE IInv'
<1>1. /\ m' = PowerUp(m.serial, m.num) /\ pc' = "away" /\ force' = 0 /\ judge' = InitJudgeBreakPoint
      /\ loadPeak' = 0 /\ files' = files
    BY DEF PowerCut
<1>2. m.serial \in 0 .. MaxSerial /\ m.num \in SampleNums \cup {0}
    BY KnownNow, FieldTypes
<1>3. /\ m' \in MType /\ m'.num = m.num /\ Counted(m', pc') /\ judge' \in JudgeType
      /\ PeakInv(m', pc', judge', loadPeak')
    BY <1>1, <1>2, PoweredUp, SMTT(30)
<1>4. FilesInv'
    BY <1>1, <1>3, FilesStay DEF IInv
<1>5. TypeInv'
    BY <1>1, <1>3, Constants DEF IInv, TypeInv, Phases
<1> QED BY <1>3, <1>4, <1>5 DEF IInv

LEMMA InitInv == Init => IInv
<1> SUFFICES ASSUME Init PROVE IInv
    OBVIOUS
<1>1. PICK n \in SampleNums \cup {0} : m = PowerUp(0, n)
    BY DEF Init
<1>2. pc = "away" /\ force = 0 /\ judge = InitJudgeBreakPoint /\ loadPeak = 0 /\ files = [s \in 0 .. MaxSerial |-> NoFile]
    BY DEF Init
<1>3. 0 \in 0 .. MaxSerial
    BY Constants
<1>4. m \in MType /\ Counted(m, pc) /\ judge \in JudgeType /\ PeakInv(m, pc, judge, loadPeak)
    BY <1>1, <1>2, <1>3, PoweredUp
<1>5. files \in [0 .. MaxSerial -> FileType] /\ FilesInv
    BY <1>2, FileFacts DEF FilesInv
<1>6. TypeInv
    BY <1>2, <1>4, <1>5, Constants DEF TypeInv, Phases
<1> QED BY <1>4, <1>5, <1>6 DEF IInv

LEMMA NextInv == ASSUME IInv, [Next]_vars, ADJOIN_DOWN_POINT_NUM > 1 PROVE IInv'
<1>1. CASE UNCHANGED vars
    BY <1>1 DEF vars, IInv, TypeInv, FilesInv
<1>2. CASE Next
    BY <1>2, KeysStep, SampleStep, TestTurn, CycleStep, ParameterStep, ReportStep, EnterStep, PowerStep
    DEF Next, Loop
<1> QED BY <1>1, <1>2

LEMMA Invariant == ASSUME ADJOIN_DOWN_POINT_NUM > 1 PROVE Spec => []IInv
<1>1. IInv /\ [Next]_vars => IInv'
    BY NextInv
<1> QED BY InitInv, <1>1, PTL DEF Spec

\* The peak that will be recorded is the largest point of this loading
\* (SetDynamicContentPeak), when a point takes at least two main cycles.
THEOREM RecordedPeak == ASSUME ADJOIN_DOWN_POINT_NUM > 1 PROVE Spec => []PeakIsOfThisLoading
<1>1. IInv => PeakIsOfThisLoading
    BY DEF IInv, PeakInv, Held, PeakIsOfThisLoading
<1> QED BY Invariant, <1>1, PTL

\* Whatever breaks, cancellations, ended groups and power failures led to it, a
\* report's pieces are the first ones, without a gap (MainPageTestAfterDispose).
THEOREM NoGapInReports == ASSUME ADJOIN_DOWN_POINT_NUM > 1 PROVE Spec => []ReportIsGapless
<1>1. ASSUME IInv PROVE ReportIsGapless
    <2>1. Gapless(m.report)
        BY <1>1 DEF IInv, Counted, SoundReport
    <2>2. Gapless(Fresh(0))
        BY EmptyIsGapless DEF SoundReport
    <2>3. ASSUME NEW n \in 0 .. MaxSerial PROVE Gapless(files[n].report)
        BY <1>1, <2>2, FileFacts DEF IInv, FilesInv
    <2>4. DOMAIN files = 0 .. MaxSerial
        BY <1>1 DEF IInv, TypeInv
    <2> QED BY <2>1, <2>3, <2>4 DEF ReportIsGapless
<1> QED BY Invariant, <1>1, PTL

-----------------------------------------------------------------------------
(* A card that answers.                                                    *)

CardAnswers == Faults \cap {"exist", "read"} = {}

\* A report has at most its group's pieces; a group that has them all is
\* complete, and one that is complete has at least one.
ReportOK(r) ==
    /\ r.sample =< r.num
    /\ ~ r.complete /\ r.num # 0 => r.sample < r.num
    /\ r.complete => r.sample > 0

\* The card holds the report the page shows, or what a failed save left of it.
Matches(s, fs) == fs[s.serial] \in {Truncated, IF s.report.sample = 0 THEN NoFile ELSE FileOf(s.report)}

Right(s) == ReportOK(s.report) /\ s.groupComplete = s.report.complete /\ Matches(s, files)

FilesRight(fs) == \A n \in 0 .. MaxSerial : fs[n].state = "saved" => ReportOK(fs[n].report)

LEMMA OneCard == ASSUME CardAnswers, NEW card \in CardStates PROVE card = {}
BY DEF CardAnswers, CardStates

LEMMA FreshOK == ASSUME NEW n \in SampleNums \cup {0} PROVE ReportOK(Fresh(n))
<1>1. Fresh(n).num = n /\ Fresh(n).sample = 0 /\ Fresh(n).complete = FALSE /\ n \in Nat
    BY NoReport, SizeOrNone
<1> HIDE DEF Fresh
<1> QED BY <1>1 DEF ReportOK

LEMMA ReadRight ==
    ASSUME TypeInv, FilesInv, FilesRight(files), NEW s, Known(s), ReportOK(s.report)
    PROVE  LET r == ReadReport(s, {})
           IN  /\ ReportOK(r)
               /\ files[s.serial] \in {Truncated, IF r.sample = 0 THEN NoFile ELSE FileOf(r)}
               /\ Matches(s, files) /\ ~ s.report.complete => ~ r.complete
<1>1. s.serial \in 0 .. MaxSerial /\ s.num \in SampleNums \cup {0} /\ files[s.serial] \in FileType
    BY FieldTypes DEF Known, TypeInv
<1>2. CASE files[s.serial] = NoFile
    <2>1. ReadReport(s, {}) = Fresh(s.num)
        BY <1>2 DEF ReadReport
    <2> QED BY <1>1, <1>2, <2>1, FreshOK, NoReport
<1>3. CASE files[s.serial] = Truncated
    <2>1. ReadReport(s, {}) = s.report
        BY <1>3, FileFacts DEF ReadReport
    <2> QED BY <1>3, <2>1
<1>4. CASE files[s.serial] \notin {NoFile, Truncated}
    <2>1. ReadReport(s, {}) = files[s.serial].report
        BY <1>4 DEF ReadReport
    <2>2. files[s.serial].state = "saved" /\ files[s.serial].report.sample > 0
        BY <1>1, <1>4 DEF FilesInv
    <2>3. files[s.serial] = FileOf(files[s.serial].report)
        BY <1>1, <2>2 DEF FileOf, FileType
    <2>4. files[s.serial].report.sample \in Nat
        BY <1>1 DEF FileType, ReportType
    <2>5. Matches(s, files) => files[s.serial].report = s.report
        BY <1>4, <2>2 DEF Matches, FileOf
    <2>6. ReportOK(files[s.serial].report)
        BY <1>1, <2>2 DEF FilesRight
    <2> HIDE DEF NoFile, Truncated, FileOf
    <2> QED BY <2>1, <2>2, <2>3, <2>4, <2>5, <2>6
<1> QED BY <1>2, <1>3, <1>4

LEMMA ReloadRight ==
    ASSUME TypeInv, FilesInv, FilesRight(files), NEW s, Known(s), ReportOK(s.report)
    PROVE  LET d == Reload(s, {})
           IN  Right(d) /\ (Matches(s, files) /\ ~ s.report.complete => ~ d.report.complete)
<1>1. PICK d : d = Reload(s, {})
    OBVIOUS
<1>2. PICK r : r = ReadReport(s, {})
    OBVIOUS
<1>3. d.report = r /\ d.groupComplete = r.complete /\ d.serial = s.serial
    BY <1>1, <1>2, ReloadFacts DEF Reloaded
<1>4. /\ ReportOK(r) /\ files[s.serial] \in {Truncated, IF r.sample = 0 THEN NoFile ELSE FileOf(r)}
      /\ Matches(s, files) /\ ~ s.report.complete => ~ r.complete
    BY <1>2, ReadRight
<1> HIDE DEF NoFile, Truncated, FileOf
<1> QED BY <1>1, <1>3, <1>4 DEF Right, Matches

LEMMA CheckRight ==
    ASSUME TypeInv, FilesInv, FilesRight(files), NEW s, Shown(s), Right(s)
    PROVE  LET d == MainPageCheckSerialRepeat(s, {})
           IN  /\ Right(d) /\ (~ s.report.complete => ~ d.report.complete)
               /\ ~ SerialFails(s, {}) => ~ d.report.complete
<1>1. s \in MType /\ Known(s)
    BY KnownOfShown
<1>2. CASE Repeated(s, {}) /\ FreeSerials(s, {}) # {}
    <2>1. PICK n : n = Min(FreeSerials(s, {})) /\ n \in 0 .. MaxSerial /\ n \in FreeSerials(s, {})
        BY <1>1, <1>2, NextSerial
    <2>2. files[n] = NoFile
        BY <2>1 DEF FreeSerials, Exists
    <2>3. PICK u : u = [s EXCEPT !.serial = n, !.curPage = 1, !.autoUpdateSerial = FALSE]
        OBVIOUS
    <2>4. Known(u) /\ u.report = s.report /\ u.serial = n
        BY <1>1, <2>1, <2>3, SerialIsFree
    <2>5. MainPageCheckSerialRepeat(s, {}) = Reload(u, {})
        BY <1>2, <2>1, <2>3 DEF MainPageCheckSerialRepeat
    <2>6. Right(Reload(u, {}))
        BY <2>4, ReloadRight DEF Right
    <2>7. ~ Reload(u, {}).report.complete
        <3>1. u.num \in SampleNums \cup {0}
            BY <2>4, FieldTypes DEF Known
        <3>2. Reload(u, {}).report = Fresh(u.num)
            BY <2>2, <2>4, ReloadFacts DEF Reloaded, ReadReport
        <3> QED BY <3>1, <3>2, NoReport
    <2> QED BY <2>5, <2>6, <2>7
<1>3. CASE ~ (Repeated(s, {}) /\ FreeSerials(s, {}) # {})
    <2>1. MainPageCheckSerialRepeat(s, {}) = s
        BY <1>3 DEF MainPageCheckSerialRepeat
    <2>2. ASSUME ~ SerialFails(s, {}) PROVE ~ s.report.complete
        <3>1. ~ Repeated(s, {})
            BY <1>3, <2>2 DEF SerialFails
        <3>2. CASE ~ s.groupComplete
            BY <3>2 DEF Right
        <3>3. CASE files[s.serial] = NoFile
            <4>1. s.report.sample = 0
                BY <3>3, FileFacts DEF Right, Matches, FileOf
            <4> QED BY <4>1 DEF Right, ReportOK
        <3> QED BY <3>1, <3>2, <3>3 DEF Repeated, Exists
    <2> QED BY <2>1, <2>2
<1> QED BY <1>2, <1>3

LEMMA UpdateRight ==
    ASSUME TypeInv, FilesInv, FilesRight(files), NEW s, Shown(s), Right(s)
    PROVE  LET d == MainPageAutoUpdateSerial(s, {})
           IN  Right(d) /\ (~ s.report.complete => ~ d.report.complete)
<1>1. s \in MType
    BY KnownOfShown
<1>2. PICK u : u = [s EXCEPT !.autoUpdateSerial = FALSE]
    OBVIOUS
<1>3. PICK v : v = [u EXCEPT !.leavePage = TRUE]
    OBVIOUS
<1>4. u \in MType /\ u.report = s.report /\ u.serial = s.serial /\ u.groupComplete = s.groupComplete /\ Shown(u)
    <2>1. u \in MType
        BY <1>1, <1>2 DEF MType
    <2> QED BY <1>1, <1>2, <2>1 DEF MType, Shown, Known
<1>5. v.report = s.report /\ v.serial = s.serial /\ v.groupComplete = s.groupComplete
    BY <1>3, <1>4 DEF MType
<1>6. MainPageAutoUpdateSerial(s, {}) \in {s, v, MainPageCheckSerialRepeat(u, {})}
    BY <1>2, <1>3 DEF MainPageAutoUpdateSerial
<1>7. Right(u) /\ Right(v)
    BY <1>4, <1>5 DEF Right, Matches
<1>8. LET d == MainPageCheckSerialRepeat(u, {}) IN Right(d) /\ (~ u.report.complete => ~ d.report.complete)
    BY <1>4, <1>7, CheckRight
<1> QED BY <1>4, <1>5, <1>6, <1>7, <1>8

LEMMA AreaRight ==
    ASSUME TypeInv, FilesInv, FilesRight(files), NEW s, Known(s), ReportOK(s.report)
    PROVE  LET d == ReloadTestResultArea(s, {})
           IN  Right(d) /\ (Matches(s, files) /\ ~ s.report.complete => ~ d.report.complete)
<1>1. Shown(Reload(s, {})) /\ Right(Reload(s, {}))
      /\ (Matches(s, files) /\ ~ s.report.complete => ~ Reload(s, {}).report.complete)
    BY ReloadFacts, ReloadRight
<1> QED BY <1>1, UpdateRight DEF ReloadTestResultArea

LEMMA PageIsRight ==
    ASSUME NEW s \in MType, NEW p \in Nat
    PROVE  LET d == [s EXCEPT !.curPage = p] IN d.report = s.report /\ d.serial = s.serial
BY DEF MType

LEMMA TurnedRight ==
    ASSUME TypeInv, FilesInv, FilesRight(files), NEW s, Shown(s), Right(s)
    PROVE  LET d == TurnedToNextPiece(s, {})
           IN  Right(d) /\ (~ s.report.complete => ~ d.report.complete)
<1>1. s \in MType /\ Known(s)
    BY KnownOfShown
<1>2. PICK p : p = GetCompletePiecePageNum(s)
    OBVIOUS
<1>3. p \in Nat
    BY <1>1, <1>2, FieldTypes, PagesNat DEF GetCompletePiecePageNum
<1>4. PICK a : a = [s EXCEPT !.curPage = p]
    OBVIOUS
<1>5. Known(a) /\ a.report = s.report /\ a.serial = s.serial
    BY <1>1, <1>3, <1>4, PageIsFree, PageIsRight
<1>6. PICK t : t = IF p # s.curPage THEN ReloadTestResultArea(a, {}) ELSE s
    OBVIOUS
<1>7. Shown(t) /\ Right(t) /\ (~ s.report.complete => ~ t.report.complete)
    <2>1. ReportOK(a.report) /\ Matches(a, files)
        BY <1>5 DEF Right, Matches
    <2>2. LET d == ReloadTestResultArea(a, {})
          IN  Shown(d) /\ Right(d) /\ (~ s.report.complete => ~ d.report.complete)
        BY <1>5, <2>1, AreaShows, AreaRight
    <2> QED BY <1>6, <2>2
<1>8. t \in MType /\ Known(t)
    BY <1>7, KnownOfShown
<1>9. PICK b : b = [t EXCEPT !.curPage = t.curPage + 1]
    OBVIOUS
<1>10. t.curPage + 1 \in Nat
    BY <1>8, FieldTypes
<1>11. Known(b) /\ b.report = t.report /\ b.serial = t.serial
    BY <1>8, <1>9, <1>10, PageIsFree, PageIsRight
<1>12. TurnedToNextPiece(s, {}) \in {t, ReloadTestResultArea(b, {})}
    BY <1>2, <1>4, <1>6, <1>8, <1>9 DEF TurnedToNextPiece, MType
<1>13. LET d == ReloadTestResultArea(b, {}) IN Right(d) /\ (~ t.report.complete => ~ d.report.complete)
    <2>1. ReportOK(b.report) /\ Matches(b, files)
        BY <1>7, <1>11 DEF Right, Matches
    <2> QED BY <1>11, <2>1, AreaRight
<1> QED BY <1>7, <1>12, <1>13

-----------------------------------------------------------------------------
(* What holds of the card and the page when the card answers.              *)

RightInv(s, c, fs) ==
    /\ FilesRight(fs) /\ ReportOK(s.report)
    /\ s.status \in {"TEST_IDLE", "TEST_LOAD"} \/ c \in {"open", "write"} => s.groupComplete = s.report.complete
    /\ s.status \in {"TEST_LOAD", "TEST_BREAK", "TEST_UNLOAD"} => ~ s.report.complete
    /\ s.status = "TEST_SAVE" /\ c \notin {"open", "write"} => ~ s.report.complete
    /\ s.cancelLastPiece \/ s.handEndOneGroup => ~ s.groupComplete
    /\ s.pieceComplete => (s.groupComplete <=> s.curComplete >= s.sumSampleNum)
    /\ c \in {"keys", "sample", "core"} \/ (c = "leave" /\ ~ s.leavePage) => Matches(s, fs)
    /\ c = "open" /\ fs[s.serial].state = "saved" => Continues(s.report, fs[s.serial].report)
    /\ c = "write" => fs[s.serial] = Truncated

RInv == IInv /\ RightInv(m, pc, files)

LEMMA SameRight ==
    ASSUME NEW s, NEW d, SameCount(s, d), NEW fs, NEW c, NEW e, RightInv(s, c, fs),
           c \notin {"open", "write"}, e \notin {"open", "write"},
           e \in {"keys", "sample", "core"} \/ (e = "leave" /\ ~ d.leavePage)
               => c \in {"keys", "sample", "core"} \/ (c = "leave" /\ ~ s.leavePage)
    PROVE  RightInv(d, e, fs)
BY DEF SameCount, RightInv, Matches

\* A page without a test that shows what the card holds.
LEMMA RightOfShown ==
    ASSUME NEW s, Shown(s), Right(s), FilesRight(files), NEW c, c \notin {"open", "write"}
    PROVE  RightInv(s, c, files)
BY DEF Shown, Right, RightInv

LEMMA RightNow == ASSUME RInv, pc = "core", m.status = "TEST_IDLE" PROVE Shown(m) /\ Right(m)
BY ShownNow DEF RInv, RightInv, Right

LEMMA KeysRight == ASSUME RInv, KeyProcess, CardAnswers PROVE RightInv(m', pc', files')
<1>1. m \in MType /\ files' = files /\ pc = "keys" /\ pc' = "sample"
    BY KnownNow DEF RInv, KeyProcess, KeyNone, KeyF1, KeyF2, KeyF3, KeyF4, KeyTurn, KeyForceTare,
                    KeyPrintExport, MainPageCancelLastPiece, Keys
<1>2. ASSUME SameCount(m, m') PROVE RightInv(m', pc', files')
    BY <1>1, <1>2, SameRight DEF RInv
<1>3. CASE m' = m \/ m' = Left(m) \/ \E p \in {"MAIN", "TEST_REPORT"} : m' = LeftFor(m, p)
    <2>1. SameCount(m, m) /\ SameCount(m, Left(m)) /\ \A p \in {"MAIN", "TEST_REPORT"} : SameCount(m, LeftFor(m, p))
        BY <1>1, LeftStays DEF SameCount
    <2> QED BY <1>2, <1>3, <2>1
<1>4. CASE m' = [LeftFor(m, "TEST_PARAMETER") EXCEPT !.autoUpdateSerial = TRUE]
    <2>1. LeftFor(m, "TEST_PARAMETER") \in MType /\ SameCount(m, LeftFor(m, "TEST_PARAMETER"))
        BY <1>1, LeftStays
    <2> HIDE DEF LeftFor
    <2>2. SameCount(m, m')
        BY <1>4, <2>1 DEF MType, SameCount
    <2> QED BY <1>2, <2>2
<1>5. CASE m' = [m EXCEPT !.testAfterDispose = ~ @]
    <2>1. SameCount(m, m')
        BY <1>1, <1>5 DEF MType, SameCount
    <2> QED BY <1>2, <2>1
<1>6. ASSUME m.status = "TEST_IDLE", ~ m.groupComplete,
             m' = [m EXCEPT !.cancelLastPiece = TRUE, !.status = "TEST_SAVE"]
                 \/ m' = [m EXCEPT !.handEndOneGroup = TRUE, !.status = "TEST_SAVE"]
      PROVE  RightInv(m', pc', files')
    <2>1. /\ m'.report = m.report /\ m'.curComplete = m.curComplete /\ m'.pieceComplete = m.pieceComplete
          /\ m'.status = "TEST_SAVE" /\ m'.groupComplete = m.groupComplete /\ m'.serial = m.serial
          /\ m'.sumSampleNum = m.sumSampleNum
        BY <1>1, <1>6 DEF MType
    <2> QED BY <1>1, <1>6, <2>1 DEF RInv, RightInv, Matches
<1>7. CASE KeyTurn
    <2>1. m.curPage \in Nat /\ PagesOf(m.sumSampleNum) \in Nat
        BY <1>1, FieldTypes, SizeOrNone, PagesNat
    <2>2. PICK q \in Nat, card \in CardStates : m' = ReloadTestResultArea([m EXCEPT !.curPage = q], card)
        <3> DEFINE last == PagesOf(m.sumSampleNum)
        <3>1. PICK p \in {IF m.curPage > 0 THEN m.curPage - 1 ELSE last, (m.curPage + 1) % (last + 1)}, card \in CardStates :
                  m' = ReloadTestResultArea([m EXCEPT !.curPage = IF last = 0 THEN m.curPage ELSE p], card)
            BY <1>1, <1>7 DEF KeyTurn, Keys, MType
        <3> HIDE DEF last
        <3>2. p \in Nat
            <4>1. last \in Nat
                BY <2>1 DEF last
            <4>2. (m.curPage + 1) % (last + 1) \in Nat
                BY <2>1, <4>1
            <4>3. (IF m.curPage > 0 THEN m.curPage - 1 ELSE last) \in Nat
                BY <2>1, <4>1
            <4> QED BY <3>1, <4>2, <4>3
        <3> QED BY <2>1, <3>1, <3>2
    <2>3. PICK a : a = [m EXCEPT !.curPage = q]
        OBVIOUS
    <2>4. Known(a) /\ ReportOK(a.report)
        BY <1>1, <2>3, KnownNow, PageIsFree DEF RInv, RightInv
    <2>5. Shown(ReloadTestResultArea(a, {})) /\ Right(ReloadTestResultArea(a, {}))
        BY <2>4, AreaShows, AreaRight DEF RInv, IInv, RightInv
    <2>6. m' = ReloadTestResultArea(a, {})
        BY <2>2, <2>3, OneCard
    <2>7. FilesRight(files)
        BY DEF RInv, RightInv
    <2> QED BY <1>1, <2>5, <2>6, <2>7, RightOfShown
<1>8. CASE KeyNone \/ KeyF1 \/ KeyForceTare \/ KeyPrintExport
    BY <1>3, <1>4, <1>8 DEF KeyNone, KeyF1, KeyForceTare, KeyPrintExport, Keys
<1>9. CASE KeyF2
    BY <1>3, <1>6, <1>9 DEF KeyF2, MainPageCancelLastPiece, Keys, Idle
<1>10. CASE KeyF3
    BY <1>3, <1>6, <1>10 DEF KeyF3, Keys, Idle
<1>11. CASE KeyF4
    BY <1>5, <1>11 DEF KeyF4, Keys
<1> QED BY <1>7, <1>8, <1>9, <1>10, <1>11 DEF KeyProcess

LEMMA SampleRight == ASSUME RInv, Sample PROVE RightInv(m', pc', files')
<1>1. m \in MType /\ judge'.peak \in Forces
    <2>1. judge \in JudgeType /\ force' \in Forces /\ judge' = JudgeBreakCalculate(judge, force')
        BY DEF RInv, IInv, TypeInv, Sample
    <2> HIDE DEF JudgeBreakCalculate
    <2>2. judge' \in JudgeType
        BY <2>1, JudgeFacts
    <2> QED BY <2>2, KnownNow, JudgeTypes DEF RInv
<1>2. m' = SetDynamicContentPeak(m, judge'.peak) /\ pc = "sample" /\ pc' = "core" /\ files' = files
    BY DEF Sample
<1>3. SameCount(m, m')
    BY <1>1, <1>2, PeakShown
<1> QED BY <1>2, <1>3, SameRight DEF RInv

LEMMA IdleRight == ASSUME RInv, TestIdle PROVE RightInv(m', pc', files')
<1>1. m' = m /\ pc = "core" /\ pc' = "leave" /\ files' = files
    BY DEF TestIdle, Core
<1> QED BY <1>1, SameRight DEF RInv, SameCount

LEMMA RefusedRight == ASSUME RInv, TestRefused, CardAnswers PROVE RightInv(m', pc', files')
<1>1. Shown(m) /\ Right(m) /\ FilesRight(files) /\ pc' = "leave" /\ files' = files
    BY RightNow DEF TestRefused, Core, RInv, RightInv
<1>2. PICK s : Shown(s) /\ Right(s) /\ m' = Left(s)
    <2>1. CASE m' = Left(m)
        BY <1>1, <2>1
    <2>2. CASE \E card \in CardStates : m' = Left(MainPageCheckSerialRepeat(m, card))
        <3>1. m' = Left(MainPageCheckSerialRepeat(m, {}))
            BY <2>2, OneCard
        <3>2. Shown(MainPageCheckSerialRepeat(m, {})) /\ Right(MainPageCheckSerialRepeat(m, {}))
            BY <1>1, CheckShows, CheckRight DEF RInv, IInv
        <3> QED BY <3>1, <3>2
    <2> QED BY <2>1, <2>2 DEF TestRefused
<1>3. s \in MType /\ SameCount(s, Left(s)) /\ RightInv(s, "core", files)
    BY <1>1, <1>2, KnownOfShown, LeftStays, RightOfShown
<1> HIDE DEF Left
<1> QED BY <1>1, <1>2, <1>3, SameRight

LEMMA StartRight == ASSUME RInv, TestStart, CardAnswers PROVE RightInv(m', pc', files')
<1>1. pc' = "leave" /\ files' = files /\ pc = "core" /\ m.status = "TEST_IDLE" /\ FilesRight(files)
    BY DEF TestStart, Core, RInv, RightInv
<1>2. PICK card \in CardStates :
          LET c == MainPageCheckSerialRepeat(m, card)
              t == TurnedToNextPiece(c, card)
          IN  ~ SerialFails(m, card) /\ Shown(m) /\ Shown(c) /\ Shown(t) /\ Started(t, m')
    BY StartOf DEF RInv
<1>3. card = {}
    BY OneCard
<1>4. PICK c : c = MainPageCheckSerialRepeat(m, {})
    OBVIOUS
<1>5. PICK t : t = TurnedToNextPiece(c, {})
    OBVIOUS
<1>6. ~ SerialFails(m, {}) /\ Shown(m) /\ Shown(c) /\ Shown(t) /\ Started(t, m')
    BY <1>2, <1>3, <1>4, <1>5
<1>7. Right(m)
    BY <1>1, RightNow
<1>8. Right(c) /\ ~ c.report.complete
    BY <1>1, <1>4, <1>6, <1>7, CheckRight DEF RInv, IInv
<1>9. Right(t) /\ ~ t.report.complete
    BY <1>1, <1>5, <1>6, <1>8, TurnedRight DEF RInv, IInv
<1>10. t.report.complete \in BOOLEAN /\ m'.groupComplete \in BOOLEAN
    BY <1>6, KnownOfShown, FieldTypes DEF Started
<1> QED BY <1>1, <1>6, <1>9, <1>10 DEF Started, Shown, Right, RightInv, Matches

LEMMA LoadRight == ASSUME RInv, TestLoad PROVE RightInv(m', pc', files')
<1> DEFINE judging == m.startJudgeBreak \/ force > BreakStart
           n == m.curComplete + 1
<1>1. /\ pc = "core" /\ pc' = "leave" /\ m.status = "TEST_LOAD" /\ m \in MType /\ files' = files
    BY KnownNow DEF RInv, TestLoad, Core
<1>2. ~ m.pieceComplete /\ ~ m.cancelLastPiece /\ ~ m.handEndOneGroup
    BY <1>1 DEF RInv, IInv, Counted, Held
<1>3. ~ m.report.complete /\ ~ m.groupComplete
    BY <1>1 DEF RInv, RightInv
<1>4. CASE judging /\ Broken(judge)
    <2>1. /\ m'.report = m.report /\ m'.sumSampleNum = m.sumSampleNum /\ m'.serial = m.serial
          /\ m'.curComplete = n /\ m'.pieceComplete = TRUE /\ m'.status = "TEST_BREAK"
          /\ m'.cancelLastPiece = m.cancelLastPiece /\ m'.handEndOneGroup = m.handEndOneGroup
          /\ m'.groupComplete = (m.groupComplete \/ n >= m.sumSampleNum)
        BY <1>1, <1>4 DEF TestLoad, MType
    <2> HIDE DEF n
    <2> QED BY <1>1, <1>2, <1>3, <2>1 DEF RInv, RightInv, Matches
<1>5. CASE ~ (judging /\ Broken(judge))
    <2>1. PICK st \in {"TEST_IDLE", "TEST_LOAD"} : st = IF force < StartLoad THEN "TEST_IDLE" ELSE m.status
        BY <1>1
    <2>2. /\ m'.report = m.report /\ m'.sumSampleNum = m.sumSampleNum /\ m'.serial = m.serial
          /\ m'.curComplete = m.curComplete /\ m'.pieceComplete = m.pieceComplete /\ m'.status = st
          /\ m'.cancelLastPiece = m.cancelLastPiece /\ m'.handEndOneGroup = m.handEndOneGroup
          /\ m'.groupComplete = m.groupComplete
        BY <1>1, <1>5, <2>1 DEF TestLoad, MType
    <2> QED BY <1>1, <1>2, <1>3, <2>2 DEF RInv, RightInv, Matches
<1> QED BY <1>4, <1>5

LEMMA BreakRight == ASSUME RInv, TestBreak \/ TestUnload PROVE RightInv(m', pc', files')
<1>1. /\ pc = "core" /\ pc' = "leave" /\ m.status \in {"TEST_BREAK", "TEST_UNLOAD"} /\ m \in MType
      /\ files' = files
    BY KnownNow DEF RInv, TestBreak, TestUnload, Core
<1>2. /\ m'.report = m.report /\ m'.sumSampleNum = m.sumSampleNum /\ m'.serial = m.serial
      /\ m'.curComplete = m.curComplete /\ m'.pieceComplete = m.pieceComplete
      /\ m'.status \in {"TEST_UNLOAD", "TEST_SAVE"}
      /\ m'.cancelLastPiece = m.cancelLastPiece /\ m'.handEndOneGroup = m.handEndOneGroup
      /\ m'.groupComplete = m.groupComplete
    BY <1>1 DEF TestBreak, TestUnload, Core, MType
<1> QED BY <1>1, <1>2 DEF RInv, RightInv, Matches

\* What is recorded is within the group, and goes on where the saved report stopped.
LEMMA DisposedRight ==
    ASSUME RInv, Core("TEST_SAVE")
    PROVE  LET d == AfterDispose(m)
           IN  /\ ReportOK(d.report)
               /\ d.groupComplete = d.report.complete
               /\ files[m.serial].state = "saved" =>
                      files[m.serial] = FileOf(m.report) /\ Continues(d.report, m.report)
<1>1. PICK d : d = AfterDispose(m)
    OBVIOUS
<1>2. Disposed(m, d) /\ m.report.num # 0 /\ m.curComplete > 0
    BY <1>1, OneToRecord DEF RInv
<1>3. m \in MType /\ m.status = "TEST_SAVE" /\ pc = "core"
    BY KnownNow DEF RInv, Core
<1>4. /\ m.report.sample \in Nat /\ m.report.num \in Nat /\ m.report.complete \in BOOLEAN /\ m.groupComplete \in BOOLEAN
      /\ m.sumSampleNum = m.report.num
    BY <1>3, FieldTypes, SizeOrNone DEF RInv, IInv, Counted
<1>5. ~ m.report.complete /\ ReportOK(m.report) /\ Matches(m, files)
    BY <1>3 DEF RInv, RightInv
<1>6. m.report.sample < m.report.num
    BY <1>2, <1>5 DEF ReportOK
<1>7. ASSUME files[m.serial].state = "saved" PROVE files[m.serial] = FileOf(m.report)
    BY <1>5, <1>7, FileFacts DEF Matches
<1>8. \A i \in Piece : i \in Nat
    BY Constants DEF Piece
<1>9. CASE m.cancelLastPiece
    <2>1. /\ m.curComplete = m.report.sample /\ ~ m.handEndOneGroup /\ ~ m.pieceComplete /\ ~ m.groupComplete
          /\ d.report.sample = m.curComplete - 1
        BY <1>2, <1>3, <1>9, OneToRecord DEF Disposed, RInv, RightInv
    <2>2. d.report.complete = FALSE /\ d.groupComplete = FALSE /\ d.report.num = m.report.num
        BY <1>2, <1>4, <1>5, <2>1 DEF Disposed, EndsGroup
    <2>3. \A i \in Piece : d.report.force[i] = IF i = m.curComplete THEN 0 ELSE m.report.force[i]
        BY <1>2, <1>9, <2>1 DEF Disposed
    <2>4. ReportOK(d.report)
        BY <1>4, <1>6, <2>1, <2>2 DEF ReportOK
    <2>5. Continues(d.report, m.report)
        BY <1>4, <1>5, <1>8, <2>1, <2>3 DEF Continues
    <2> QED BY <1>1, <1>7, <2>2, <2>4, <2>5
<1>10. CASE m.handEndOneGroup
    <2>1. m.curComplete = m.report.sample /\ d.report.sample = m.curComplete
        BY <1>2, <1>3, <1>10, OneToRecord DEF Disposed, RInv
    <2>2. d.report.complete = TRUE /\ d.groupComplete = TRUE /\ d.report.num = m.report.num
        BY <1>2, <1>4, <1>10 DEF Disposed, EndsGroup
    <2>3. \A i \in Piece : d.report.force[i] = m.report.force[i]
        BY <1>2, <1>10 DEF Disposed
    <2>4. ReportOK(d.report)
        BY <1>2, <1>4, <1>6, <2>1, <2>2 DEF ReportOK
    <2>5. Continues(d.report, m.report)
        BY <1>4, <1>5, <1>8, <2>1, <2>3 DEF Continues
    <2> QED BY <1>1, <1>7, <2>2, <2>4, <2>5
<1>11. CASE m.pieceComplete
    <2>1. /\ m.curComplete = m.report.sample + 1 /\ ~ m.handEndOneGroup
          /\ ~ m.cancelLastPiece /\ d.report.sample = m.curComplete
        BY <1>2, <1>3, <1>11, OneToRecord DEF Disposed, RInv
    <2>2. /\ d.report.complete = m.groupComplete /\ d.groupComplete = m.groupComplete
          /\ d.report.num = m.report.num
        BY <1>2, <1>4, <1>5, <1>11, <2>1 DEF Disposed, EndsGroup
    <2>3. \A i \in Piece : d.report.force[i] = IF i = m.curComplete THEN m.breakPeak ELSE m.report.force[i]
        BY <1>2, <2>1 DEF Disposed
    <2>4. m.groupComplete <=> m.curComplete >= m.sumSampleNum
        BY <1>11 DEF RInv, RightInv
    <2>5. ReportOK(d.report)
        BY <1>2, <1>4, <1>6, <2>1, <2>2, <2>4 DEF ReportOK
    <2>6. Continues(d.report, m.report)
        BY <1>4, <1>5, <1>8, <2>1, <2>3 DEF Continues
    <2> QED BY <1>1, <1>7, <2>2, <2>5, <2>6
<1> QED BY <1>3, <1>9, <1>10, <1>11, OneToRecord DEF RInv

\* A save begins with the report as it is to be written.
LEMMA SaveOpens ==
    ASSUME IInv, TestSave
    PROVE  m' = AfterDispose(m) /\ pc' = "open"
<1>1. PICK d : d = AfterDispose(m)
    OBVIOUS
<1>2. Core("TEST_SAVE") /\ m \in MType /\ m.status = "TEST_SAVE"
    BY KnownNow DEF TestSave, Core
<1>3. Disposed(m, d) /\ d \in MType /\ d.status = "TEST_SAVE"
    BY <1>1, <1>2, OneToRecord DEF Disposed, Kept
<1>4. m.curComplete \in Nat /\ m.curComplete > 0 /\ ~ (m.cancelLastPiece /\ m.curComplete =< 1)
    BY <1>2, FieldTypes, OneToRecord DEF TestSave, ToDelete
<1>5. ToSave(m)
    BY <1>2, <1>4, OneToRecord DEF ToSave, EndsGroup
<1>6. m' = [d EXCEPT !.status = "TEST_SAVE"] /\ pc' = "open"
    BY <1>1, <1>3, <1>5 DEF TestSave, MType
<1> QED BY <1>1, <1>3, <1>6 DEF MType

LEMMA SaveRight == ASSUME RInv, TestSave PROVE RightInv(m', pc', files')
<1>1. PICK d : d = AfterDispose(m)
    OBVIOUS
<1>2. Core("TEST_SAVE") /\ files' = files /\ m' = d /\ pc' = "open"
    BY <1>1, SaveOpens DEF RInv, TestSave
<1>3. Disposed(m, d)
    BY <1>1, <1>2, OneToRecord DEF RInv
<1>4. /\ ReportOK(d.report) /\ d.groupComplete = d.report.complete
      /\ files[m.serial].state = "saved" => files[m.serial] = FileOf(m.report) /\ Continues(d.report, m.report)
    BY <1>1, <1>2, DisposedRight
<1>5. files[m.serial].state = "saved" => Continues(d.report, files[m.serial].report)
    BY <1>4 DEF FileOf
<1>6. d.serial = m.serial /\ d.status = "TEST_SAVE" /\ ~ d.cancelLastPiece /\ ~ d.handEndOneGroup /\ ~ d.pieceComplete
    BY <1>2, <1>3 DEF Disposed, Kept, Core
<1> QED BY <1>2, <1>4, <1>5, <1>6 DEF RInv, RightInv

LEMMA DeleteRight == ASSUME RInv, TestDelete PROVE RightInv(m', pc', files')
<1>1. PICK d : d = AfterDispose(m)
    OBVIOUS
<1>2. Core("TEST_SAVE") /\ ToDelete(m) /\ pc' = "leave" /\ m \in MType
    BY KnownNow DEF TestDelete, RInv
<1>3. Disposed(m, d) /\ m.curComplete > 0 /\ m.curComplete \in Nat
    BY <1>1, <1>2, OneToRecord, FieldTypes DEF RInv
<1>4. ReportOK(d.report) /\ d.groupComplete = d.report.complete
    BY <1>1, <1>2, DisposedRight
<1>5. PICK ok \in BOOLEAN :
          /\ files' = (IF ok THEN [files EXCEPT ![m.serial] = NoFile] ELSE files)
          /\ m' = [d EXCEPT !.status = "TEST_IDLE", !.leavePage = @ \/ ~ ok \/ files[m.serial] = NoFile]
    BY <1>1 DEF TestDelete
<1>6. /\ m'.report = d.report /\ m'.serial = m.serial /\ m'.groupComplete = d.groupComplete
      /\ m'.status = "TEST_IDLE" /\ ~ m'.cancelLastPiece /\ ~ m'.handEndOneGroup /\ ~ m'.pieceComplete
      /\ ~ ok => m'.leavePage
    BY <1>3, <1>5 DEF Disposed, Kept, MType
<1>7. d.report.sample = 0
    BY <1>2, <1>3 DEF Disposed, ToDelete
<1>8. files \in [0 .. MaxSerial -> FileType] /\ m.serial \in 0 .. MaxSerial
    BY <1>2, FieldTypes DEF RInv, IInv, TypeInv
<1>9. FilesRight(files')
    <2>1. FilesRight(files) /\ NoFile.state = "none"
        BY FileFacts DEF RInv, RightInv
    <2> HIDE DEF NoFile
    <2> QED BY <1>5, <1>8, <2>1 DEF FilesRight
<1>10. ~ m'.leavePage => Matches(m', files')
    <2> HIDE DEF NoFile
    <2> QED BY <1>5, <1>6, <1>7, <1>8 DEF Matches
<1> QED BY <1>2, <1>4, <1>6, <1>9, <1>10 DEF RightInv

LEMMA OpenRight == ASSUME RInv, OpenFile PROVE RightInv(m', pc', files')
<1>1. pc = "open" /\ pc' = "write" /\ m' = m /\ files' = [files EXCEPT ![m.serial] = Truncated] /\ m \in MType
    BY KnownNow DEF OpenFile, RInv
<1>2. files \in [0 .. MaxSerial -> FileType] /\ m.serial \in 0 .. MaxSerial
    BY <1>1, FieldTypes DEF RInv, IInv, TypeInv
<1>3. Truncated.state = "truncated"
    BY FileFacts
<1> HIDE DEF Truncated
<1>4. files'[m.serial] = Truncated
    BY <1>1, <1>2
<1>5. FilesRight(files')
    BY <1>1, <1>2, <1>3 DEF RInv, RightInv, FilesRight
<1> QED BY <1>1, <1>4, <1>5 DEF RInv, RightInv

LEMMA SavedRight ==
    ASSUME RInv, pc \in {"open", "write"}, NEW ok \in BOOLEAN, Saved(ok), FilesRight(files'),
           ok => Matches(m, files')
    PROVE  RightInv(m', pc', files')
<1>1. pc' = "leave" /\ m \in MType
    BY KnownNow DEF Saved, RInv
<1>2. /\ m'.report = m.report /\ m'.serial = m.serial /\ m'.groupComplete = m.groupComplete
      /\ m'.cancelLastPiece = m.cancelLastPiece /\ m'.handEndOneGroup = m.handEndOneGroup
      /\ m'.pieceComplete = m.pieceComplete /\ m'.status = "TEST_IDLE"
      /\ ~ ok => m'.leavePage
    BY <1>1 DEF Saved, MType
<1>3. ~ m.pieceComplete /\ ~ m.cancelLastPiece /\ ~ m.handEndOneGroup
    BY DEF RInv, IInv, Counted
<1> QED BY <1>1, <1>2, <1>3 DEF RInv, RightInv, Matches

LEMMA WriteRight == ASSUME RInv, WriteFile PROVE RightInv(m', pc', files')
<1>1. pc = "write" /\ m \in MType /\ Saved(TRUE) /\ files' = [files EXCEPT ![m.serial] = FileOf(m.report)]
    BY KnownNow DEF WriteFile, RInv
<1>2. files \in [0 .. MaxSerial -> FileType] /\ m.serial \in 0 .. MaxSerial
    BY <1>1, FieldTypes DEF RInv, IInv, TypeInv
<1>3. m.report.sample > 0 /\ ReportOK(m.report) /\ FilesRight(files)
    BY <1>1 DEF RInv, IInv, Counted, RightInv
<1>4. FileOf(m.report).report = m.report
    BY DEF FileOf
<1> HIDE DEF FileOf
<1>5. FilesRight(files')
    BY <1>1, <1>2, <1>3, <1>4 DEF FilesRight
<1>6. Matches(m, files')
    <2>1. m.report.sample # 0
        BY <1>1, <1>3, FieldTypes
    <2> QED BY <1>1, <1>2, <2>1 DEF Matches
<1> QED BY <1>1, <1>5, <1>6, SavedRight

LEMMA FailedRight == ASSUME RInv, OpenFails \/ WriteFails PROVE RightInv(m', pc', files')
<1>1. pc \in {"open", "write"} /\ Saved(FALSE) /\ files' = files
    BY DEF OpenFails, WriteFails
<1>2. FilesRight(files')
    BY <1>1 DEF RInv, RightInv
<1> QED BY <1>1, <1>2, SavedRight

LEMMA TestRight == ASSUME RInv, TestStep, CardAnswers PROVE RightInv(m', pc', files')
BY IdleRight, RefusedRight, StartRight, LoadRight, BreakRight, SaveRight, DeleteRight, OpenRight,
   WriteRight, FailedRight DEF TestStep

LEMMA CycleRight == ASSUME RInv, EndCycle PROVE RightInv(m', pc', files')
<1>1. pc = "leave" /\ files' = files /\ m \in MType /\ pc' \in {"away", "keys"}
    BY KnownNow DEF EndCycle, RInv
<1>2. SameCount(m, m')
    BY <1>1, LeftStays DEF EndCycle, SameCount
<1>3. pc' = "keys" => ~ m.leavePage
    BY DEF EndCycle
<1> QED BY <1>1, <1>2, <1>3, SameRight DEF RInv

LEMMA AwayRight ==
    ASSUME RInv, EnterMainPage \/ TestParameterPage \/ TestReportPage, CardAnswers
    PROVE  RightInv(m', pc', files')
<1>1. pc = "away" /\ m \in MType
    BY KnownNow DEF EnterMainPage, TestParameterPage, TestReportPage, RInv
<1>2. CASE EnterMainPage
    <2>1. m' = ReloadTestResultArea(m, {}) /\ files' = files /\ pc' \in {"away", "keys"}
        BY <1>2, OneCard DEF EnterMainPage
    <2>2. Shown(m') /\ Right(m') /\ FilesRight(files)
        BY <2>1, KnownNow, AreaShows, AreaRight DEF RInv, IInv, RightInv
    <2> QED BY <2>1, <2>2, RightOfShown
<1>3. CASE TestParameterPage \/ TestReportPage
    <2>1. /\ m'.report = m.report /\ m'.groupComplete = m.groupComplete /\ m'.curComplete = m.curComplete
          /\ m'.cancelLastPiece = m.cancelLastPiece /\ m'.handEndOneGroup = m.handEndOneGroup
          /\ m'.pieceComplete = m.pieceComplete /\ m'.status = m.status /\ m'.sumSampleNum = m.sumSampleNum
        BY <1>1, <1>3 DEF TestParameterPage, TestReportPage, MType
    <2>2. pc' = "away"
        BY <1>1, <1>3 DEF TestParameterPage, TestReportPage
    <2>3. FilesRight(files')
        <3>1. FilesRight(files) /\ files \in [0 .. MaxSerial -> FileType] /\ NoFile.state = "none"
            BY FileFacts DEF RInv, IInv, TypeInv, RightInv
        <3>2. CASE TestParameterPage
            BY <3>1, <3>2 DEF TestParameterPage
        <3>3. CASE TestReportPage
            <4>1. PICK deleted : files' = [s \in DOMAIN files |-> IF s \in deleted THEN NoFile ELSE files[s]]
                BY <3>3 DEF TestReportPage
            <4> HIDE DEF NoFile
            <4> QED BY <3>1, <4>1 DEF FilesRight
        <3> QED BY <1>3, <3>2, <3>3
    <2> QED BY <1>1, <2>1, <2>2, <2>3 DEF RInv, RightInv
<1> QED BY <1>2, <1>3

LEMMA PoweredRight ==
    ASSUME NEW serial, NEW n, FilesRight(files)
    PROVE  RightInv(PowerUp(serial, n), "away", files)
<1>1. PICK s : s = PowerUp(serial, n)
    OBVIOUS
<1>2. /\ s.report = Fresh(0) /\ s.groupComplete = FALSE /\ s.status = "TEST_IDLE" /\ s.pieceComplete = FALSE
      /\ s.cancelLastPiece = FALSE /\ s.handEndOneGroup = FALSE
    BY <1>1 DEF PowerUp
<1>3. ReportOK(Fresh(0)) /\ Fresh(0).complete = FALSE
    BY FreshOK, NoReport
<1> HIDE DEF Fresh
<1> QED BY <1>1, <1>2, <1>3 DEF RightInv

LEMMA InitRight == Init => RInv
<1> SUFFICES ASSUME Init PROVE RInv
    OBVIOUS
<1>1. PICK n \in SampleNums \cup {0} : m = PowerUp(0, n)
    BY DEF Init
<1>2. FilesRight(files)
    <2>1. \A k \in 0 .. MaxSerial : files[k] = NoFile
        BY DEF Init
    <2> QED BY <2>1, FileFacts DEF FilesRight
<1>3. pc = "away"
    BY DEF Init
<1> QED BY <1>1, <1>2, <1>3, InitInv, PoweredRight DEF RInv

LEMMA NextRight == ASSUME RInv, [Next]_vars, ADJOIN_DOWN_POINT_NUM > 1, CardAnswers PROVE RInv'
<1>1. IInv'
    BY NextInv DEF RInv
<1>2. RightInv(m', pc', files')
    <2>1. CASE UNCHANGED vars
        BY <2>1 DEF vars, RInv, RightInv, Matches, FilesRight
    <2>2. CASE PowerCut
        <3>1. m' = PowerUp(m.serial, m.num) /\ pc' = "away" /\ files' = files /\ FilesRight(files)
            BY <2>2 DEF PowerCut, RInv, RightInv
        <3> QED BY <3>1, PoweredRight
    <2>3. CASE Loop
        BY <2>3, KeysRight, SampleRight, TestRight, CycleRight, AwayRight DEF Loop
    <2> QED BY <2>1, <2>2, <2>3 DEF Next
<1> QED BY <1>1, <1>2 DEF RInv

LEMMA RightInvariant == ASSUME ADJOIN_DOWN_POINT_NUM > 1, CardAnswers PROVE Spec => []RInv
<1>1. RInv /\ [Next]_vars => RInv'
    BY NextRight
<1> QED BY InitRight, <1>1, PTL DEF Spec

\* The piece in work is one of the group's.
LEMMA WithinGroup == ASSUME RInv PROVE PieceWithinGroup
<1>1. m \in MType /\ m.report.sample \in Nat /\ m.report.num \in Nat
    BY KnownNow, FieldTypes, SizeOrNone DEF RInv
<1>2. m.sumSampleNum = m.report.num /\ m.curComplete = m.report.sample + (IF m.pieceComplete THEN 1 ELSE 0)
    BY DEF RInv, IInv, Counted
<1>3. ReportOK(m.report)
    BY DEF RInv, RightInv
<1>4. ASSUME m.pieceComplete PROVE m.report.num # 0 /\ ~ m.report.complete
    <2>1. m.report.num # 0 /\ Held(m) /\ pc \notin {"open", "write"}
        BY <1>4 DEF RInv, IInv, Counted
    <2> QED BY <2>1 DEF Held, RInv, RightInv
<1> QED BY <1>1, <1>2, <1>3, <1>4 DEF PieceWithinGroup, ReportOK

\* No group gets more pieces than it has, as long as the card answers
\* (MainPageCheckSerialRepeat before the flag is reset).
THEOREM GroupIsNotOverrun ==
    ASSUME ADJOIN_DOWN_POINT_NUM > 1, CardAnswers
    PROVE  Spec => []PieceWithinGroup
BY RightInvariant, WithinGroup, PTL

LEMMA NumTyped == ASSUME NEW n \in SampleNums \cup {0} PROVE n \in Nat /\ n =< MAX_RECORD /\ MAX_RECORD \in Nat
<1>1. MAX_RECORD \in Nat /\ \A k \in SampleNums : k \in Nat /\ k =< MAX_RECORD
    BY Constants
<1> QED BY <1>1

\* A report of a piece's group has room for it.
LEMMA ReportTyped == ASSUME NEW r \in ReportType, r.sample =< r.num PROVE r \in Report
<1>1. /\ r.num \in SampleNums \cup {0} /\ r.sample \in Nat /\ r.complete \in BOOLEAN
      /\ r.force \in [Piece -> Forces]
      /\ r = [num |-> r.num, sample |-> r.sample, complete |-> r.complete, force |-> r.force]
    BY DEF ReportType
<1>2. r.num \in Nat /\ r.num =< MAX_RECORD /\ MAX_RECORD \in Nat
    BY <1>1, NumTyped
<1>3. r.sample \in 0 .. MAX_RECORD
    BY <1>1, <1>2
<1> QED BY <1>1, <1>3 DEF Report

LEMMA FileTyped ==
    ASSUME RInv, NEW n \in 0 .. MaxSerial
    PROVE  files[n] \in File
<1>1. files[n] \in FileType
    BY DEF RInv, IInv, TypeInv
<1>2. files[n].report \in ReportType /\ files[n].state \in {"none", "truncated", "saved"}
      /\ files[n] = [state |-> files[n].state, report |-> files[n].report]
    BY <1>1 DEF FileType
<1>3. files[n].report.sample =< files[n].report.num
    <2>1. CASE files[n].state = "saved"
        BY <2>1 DEF RInv, RightInv, FilesRight, ReportOK
    <2>2. CASE files[n].state # "saved"
        <3>1. files[n] \in {NoFile, Truncated}
            BY <2>2 DEF RInv, IInv, FilesInv
        <3>2. files[n].report = Fresh(0)
            BY <3>1, FileFacts
        <3>3. Fresh(0).sample = 0 /\ Fresh(0).num = 0
            BY NoReport
        <3> QED BY <3>2, <3>3
    <2> QED BY <2>1, <2>2
<1>4. files[n].report \in Report
    BY <1>2, <1>3, ReportTyped
<1> QED BY <1>2, <1>4 DEF File

\* Every count stays within MAX_RECORD, every file number within the card's and
\* every force within the sampled ones, as long as the card answers: the report
\* has room for each piece that is recorded (MainPageExecuteBreakProcess writes
\* its force at the count of pieces).
THEOREM ExecutionTypeCorrect ==
    ASSUME ADJOIN_DOWN_POINT_NUM > 1, CardAnswers
    PROVE  Spec => []TypeOK
<1>1. ASSUME RInv PROVE TypeOK
    <2>1. /\ m \in MType /\ judge \in JudgeType /\ force \in Forces /\ loadPeak \in Forces
          /\ files \in [0 .. MaxSerial -> FileType] /\ pc \in Phases
        BY <1>1 DEF RInv, IInv, TypeInv
    <2>2. files \in [0 .. MaxSerial -> File]
        BY <1>1, <2>1, FileTyped
    <2>3. m.report \in Report
        <3>1. m.report \in ReportType /\ m.report.sample =< m.report.num
            BY <1>1, <2>1, FieldTypes DEF RInv, RightInv, ReportOK
        <3> QED BY <3>1, ReportTyped
    <2>4. m.curComplete \in 0 .. MAX_RECORD
        <3>1. m.curComplete \in Nat /\ m.sumSampleNum \in SampleNums \cup {0}
            BY <2>1, FieldTypes
        <3>2. m.sumSampleNum \in Nat /\ m.sumSampleNum =< MAX_RECORD /\ MAX_RECORD \in Nat
            BY <3>1, NumTyped
        <3>3. m.curComplete =< m.sumSampleNum
            BY <1>1, WithinGroup DEF PieceWithinGroup
        <3> QED BY <3>1, <3>2, <3>3
    <2>5. m = [m EXCEPT !.report = m.report, !.curComplete = m.curComplete]
        BY <2>1 DEF MType
    <2>6. m \in [status : Status, peakStatus : PeakStates,
                 breakPeak : Forces, peakDelayTime : 0 .. StayTime,
                 pieceComplete : BOOLEAN, groupComplete : BOOLEAN, cancelLastPiece : BOOLEAN,
                 handEndOneGroup : BOOLEAN, startJudgeBreak : BOOLEAN, testAfterDispose : BOOLEAN,
                 autoUpdateSerial : BOOLEAN, curComplete : 0 .. MAX_RECORD,
                 sumSampleNum : SampleNums \cup {0}, curPage : Nat, report : Report,
                 serial : 0 .. MaxSerial, num : SampleNums \cup {0}, leavePage : BOOLEAN,
                 page : {"MAIN", "TEST_PARAMETER", "TEST_REPORT"}]
        BY <2>1, <2>3, <2>4, <2>5 DEF MType
    <2> QED BY <2>1, <2>2, <2>6 DEF TypeOK, PeakStates, Phases
<1> QED BY RightInvariant, <1>1, PTL

\* While the operator can press a key and no specimen is broken, the card holds
\* what the page shows, through failed saves and deletions and power failures.
THEOREM PageShowsCard ==
    ASSUME ADJOIN_DOWN_POINT_NUM > 1, CardAnswers
    PROVE  Spec => []PageMatchesCard
<1>1. ASSUME RInv PROVE PageMatchesCard
    <2> SUFFICES ASSUME pc = "keys", m.status \in {"TEST_IDLE", "TEST_LOAD"}, files[m.serial] # Truncated
                 PROVE  /\ files[m.serial] = IF m.curComplete = 0 THEN NoFile ELSE FileOf(m.report)
                        /\ m.curComplete = m.report.sample
                        /\ m.groupComplete = m.report.complete
        BY DEF PageMatchesCard
    <2>1. m.report.sample \in Nat
        BY <1>1, KnownNow, FieldTypes DEF RInv
    <2>2. m.curComplete = m.report.sample
        BY <1>1, <2>1 DEF RInv, IInv, Counted, Held
    <2> QED BY <1>1, <2>2 DEF RInv, RightInv, Matches
<1> QED BY RightInvariant, <1>1, PTL

\* A report on the card is replaced only by one that goes on where it stopped,
\* and deleted as its only piece (or by the report page).
THEOREM ReportsGoOn ==
    ASSUME ADJOIN_DOWN_POINT_NUM > 1, CardAnswers
    PROVE  Spec => OnlyContinued
<1> DEFINE Step == \A s \in DOMAIN files :
                       (files[s].state = "saved" /\ files'[s] # files[s] /\ pc # "away")
                           => IF files'[s] = NoFile THEN files[s].report.sample = 1 /\ ~ files[s].report.complete
                              ELSE Continues(m.report, files[s].report)
<1>1. ASSUME RInv, [Next]_vars PROVE [Step]_vars
    <2> SUFFICES ASSUME NEW s \in DOMAIN files, files[s].state = "saved", files'[s] # files[s], pc # "away"
                 PROVE  IF files'[s] = NoFile THEN files[s].report.sample = 1 /\ ~ files[s].report.complete
                        ELSE Continues(m.report, files[s].report)
        OBVIOUS
    <2>1. s \in 0 .. MaxSerial /\ files \in [0 .. MaxSerial -> FileType] /\ m \in MType /\ m.serial \in 0 .. MaxSerial
        BY <1>1, KnownNow, FieldTypes DEF RInv, IInv, TypeInv
    <2>2. TestDelete \/ OpenFile \/ WriteFile
        BY <1>1 DEF Next, Loop, KeyProcess, KeyNone, KeyF1, KeyF2, KeyF3, KeyF4, KeyTurn, KeyForceTare,
                    KeyPrintExport, MainPageCancelLastPiece, Keys, Sample, TestStep, TestIdle, TestRefused,
                    TestStart, TestLoad, TestBreak, TestUnload, TestSave, OpenFails, WriteFails, EndCycle,
                    TestParameterPage, TestReportPage, EnterMainPage, PowerCut, vars
    <2>3. CASE TestDelete
        <3>1. s = m.serial /\ files' = [files EXCEPT ![m.serial] = NoFile] /\ Core("TEST_SAVE") /\ ToDelete(m)
            BY <2>1, <2>3 DEF TestDelete
        <3>2. files[s] = FileOf(m.report)
            BY <1>1, <3>1, DisposedRight
        <3>3. files[s].report = m.report
            BY <3>2 DEF FileOf
        <3>4. m.report.sample = 1
            <4>1. m.curComplete \in Nat /\ m.curComplete > 0
                BY <1>1, <2>1, <3>1, FieldTypes, OneToRecord DEF RInv
            <4>2. m.curComplete = m.report.sample
                BY <1>1, <3>1, OneToRecord DEF RInv, ToDelete
            <4> QED BY <3>1, <4>1, <4>2 DEF ToDelete
        <3>5. ~ m.report.complete
            BY <1>1, <3>1 DEF RInv, RightInv, Core
        <3>6. files'[s] = NoFile
            BY <2>1, <3>1
        <3> QED BY <3>3, <3>4, <3>5, <3>6
    <2>4. CASE OpenFile
        <3>1. s = m.serial /\ files'[s] = Truncated /\ pc = "open"
            BY <2>1, <2>4 DEF OpenFile
        <3>2. Continues(m.report, files[s].report)
            BY <1>1, <3>1 DEF RInv, RightInv
        <3> QED BY <3>1, <3>2, FileFacts
    <2>5. CASE WriteFile
        <3>1. s = m.serial /\ pc = "write"
            BY <2>1, <2>5 DEF WriteFile
        <3>2. files[s] = Truncated
            BY <1>1, <3>1 DEF RInv, RightInv
        <3> QED BY <3>2, FileFacts
    <2> QED BY <2>2, <2>3, <2>4, <2>5
<1> QED BY RightInvariant, <1>1, PTL DEF Spec, OnlyContinued
=============================================================================
