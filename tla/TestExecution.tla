----------------------------- MODULE TestExecution -----------------------------
(***************************************************************************)
(* The execution of a test on the main page (MainPage.c) and the report it *)
(* keeps on the SD card (report.c).                                        *)
(*                                                                         *)
(* The page is a loop: keys, then one control cycle (sample and judgement, *)
(* peak display, test step), then the check whether to leave the page.  pc *)
(* says where the loop is; the two file operations that save a report are  *)
(* steps of their own, because the power may fail between them.            *)
(*                                                                         *)
(* m holds g_testBody, what matters of g_mainPage, g_readReport and the    *)
(* two parameters of pTest that the test reads.  A strength is a function  *)
(* of the force it is computed from at the same place, and is left out; a  *)
(* serial number is the number of times it has been incremented.           *)
(***************************************************************************)
EXTENDS JudgeBreak, FiniteSetsExt

CONSTANTS StartLoad,        \* force above which a test starts (smpl_ctrl_entry_get)
          BreakStart,       \* force above which the judgement starts
          SampleNums,       \* sizes of a group the operator may enter
          PageSize,         \* MAX_TEST_RESULT_TABLE_ONE_PAGE_NUM, 6 in the code
          MAX_RECORD,       \* MAX_RECORD_TEST_RESULT_NUM, 20 in the code
          StayTime,         \* cycles the peak stays on the display
          MaxSerial,        \* bound: the largest serial number
          Faults            \* what may go wrong: see below

ASSUME SizeAssumption == PageSize \in Nat \ {0} /\ MAX_RECORD \in Nat \ {0} /\ SampleNums \subseteq 1 .. MAX_RECORD
ASSUME ThresholdAssumption == StartLoad \in Nat /\ BreakStart \in Nat
ASSUME BoundAssumption == StayTime \in Nat /\ MaxSerial \in Nat

\* "exist", "read": the card does not answer report_exist or report_read;
\* "save": f_open for writing, or f_unlink, fails; "write": f_write fails;
\* "cut": the power fails while a report is written; "tare": a tare command fails.
ASSUME FaultAssumption == Faults \subseteq {"exist", "read", "save", "write", "cut", "tare"}

VARIABLES pc, m, force, judge, files,
          loadPeak      \* history: the largest point since the test started

vars == <<pc, m, force, judge, files, loadPeak>>

Piece == 1 .. MAX_RECORD
Report == [num : SampleNums \cup {0}, sample : 0 .. MAX_RECORD, complete : BOOLEAN, force : [Piece -> Forces]]
Fresh(n) == [num |-> n, sample |-> 0, complete |-> FALSE, force |-> [i \in Piece |-> 0]]

File == [state : {"none", "truncated", "saved"}, report : Report]
NoFile == [state |-> "none", report |-> Fresh(0)]
Truncated == [state |-> "truncated", report |-> Fresh(0)]     \* by FA_CREATE_ALWAYS
FileOf(r) == [state |-> "saved", report |-> r]

-----------------------------------------------------------------------------
(* The pages of the result table.                                          *)

PagesOf(n) == (n + PageSize - 1) \div PageSize

GetCompletePiecePageNum(s) ==
    IF s.sumSampleNum = 0 THEN 0
    ELSE IF s.curComplete = 0 THEN 1 ELSE PagesOf(s.curComplete)

curPageSampleNum(s) ==
    IF s.curPage = 0 THEN 0
    ELSE IF s.curPage = PagesOf(s.sumSampleNum) THEN s.sumSampleNum - (s.curPage - 1) * PageSize
    ELSE PageSize

SerialInCurrentPage(s) ==
    IF s.curComplete % PageSize # 0 THEN s.curComplete % PageSize
    ELSE IF s.curComplete > 0 THEN curPageSampleNum(s) ELSE 0

IsCurrentSampleReachToPageTail(s) ==
    curPageSampleNum(s) # 0 /\ SerialInCurrentPage(s) = curPageSampleNum(s)

-----------------------------------------------------------------------------
(* Loading the page.  card is the set of what does not answer meanwhile.   *)

Exists(serial, card) == "exist" \notin card /\ files[serial] # NoFile

\* A failed report_read is a report that does not exist.  report_read does not
\* look at what f_read returns: a truncated file leaves the old report in place.
ReadReport(s, card) ==
    IF "read" \in card \/ files[s.serial] = NoFile THEN Fresh(s.num)
    ELSE IF files[s.serial] = Truncated THEN s.report
    ELSE files[s.serial].report

MainPageInit(s) ==
    [s EXCEPT !.sumSampleNum = 0, !.leavePage = FALSE, !.status = "TEST_IDLE",
              !.peakStatus = "PEAK_IDLE", !.pieceComplete = FALSE, !.groupComplete = FALSE,
              !.cancelLastPiece = FALSE, !.handEndOneGroup = FALSE, !.curComplete = 0]

\* MainPageInit and MainPageReadParameter up to MainPageAutoUpdateSerial.
Reload(s, card) ==
    LET i == MainPageInit(s)
        r == ReadReport(s, card)
    IN  IF r.num \notin Piece THEN [i EXCEPT !.report = r, !.curPage = 0]
        ELSE [i EXCEPT !.report = r, !.sumSampleNum = r.num,
                       !.curPage = IF @ > PagesOf(r.num) THEN 0 ELSE @,
                       !.groupComplete = r.complete, !.curComplete = r.sample]

FreeSerials(s, card) == {n \in s.serial + 1 .. MaxSerial : ~ Exists(n, card)}

\* The serial number of a finished group whose report exists must be incremented.
RepeatedUnfinished(s, card) == ~ s.groupComplete /\ Exists(s.serial, card)     \* mutant: the wrong way round
Repeated(s, card) == s.groupComplete /\ Exists(s.serial, card)
SerialFails(s, card) == Repeated(s, card) /\ FreeSerials(s, card) = {}

\* The free number has no report yet: that loading it checks the serial number
\* again changes nothing but the flag.
MainPageCheckSerialRepeat(s, card) ==
    IF Repeated(s, card) /\ FreeSerials(s, card) # {}
    THEN Reload([s EXCEPT !.serial = Min(FreeSerials(s, card)), !.curPage = 1,
                          !.autoUpdateSerial = FALSE], card)
    ELSE s

\* Asked for by the test parameter page.
MainPageAutoUpdateSerial(s, card) ==
    LET u == [s EXCEPT !.autoUpdateSerial = FALSE]
    IN  IF s.sumSampleNum = 0 \/ ~ s.autoUpdateSerial THEN s
        ELSE IF SerialFails(u, card) THEN [u EXCEPT !.leavePage = TRUE]
        ELSE MainPageCheckSerialRepeat(u, card)

ReloadTestResultArea(s, card) == MainPageAutoUpdateSerial(Reload(s, card), card)

CardStates == SUBSET (Faults \cap {"exist", "read"})

\* The RAM after power-up, with the parameters read from their file.
PowerUp(serial, n) ==
    [status |-> "TEST_IDLE", peakStatus |-> "PEAK_IDLE", breakPeak |-> 0, peakDelayTime |-> 0,
     pieceComplete |-> FALSE, groupComplete |-> FALSE, cancelLastPiece |-> FALSE,
     handEndOneGroup |-> FALSE, startJudgeBreak |-> FALSE, testAfterDispose |-> FALSE,
     autoUpdateSerial |-> FALSE, curComplete |-> 0, sumSampleNum |-> 0, curPage |-> 0,
     report |-> Fresh(0), serial |-> serial, num |-> n, leavePage |-> FALSE, page |-> "MAIN"]

Init ==
    /\ \E n \in SampleNums \cup {0} : m = PowerUp(0, n)     \* 0: none entered yet
    /\ pc = "away"
    /\ force = 0 /\ judge = InitJudgeBreakPoint /\ loadPeak = 0
    /\ files = [s \in 0 .. MaxSerial |-> NoFile]

-----------------------------------------------------------------------------
(* MainPageKeyProcess.  A pop-up, and a change of page, leaves the page.   *)

Left(s) == [s EXCEPT !.leavePage = TRUE]
LeftFor(s, p) == [s EXCEPT !.leavePage = TRUE, !.page = p]

Keys(next) ==
    /\ pc = "keys" /\ pc' = "sample"
    /\ m' = next
    /\ UNCHANGED <<force, judge, files, loadPeak>>

Idle == m.status = "TEST_IDLE"

KeyNone == Keys(m)

\* F1 after a test prints; otherwise it opens the test parameters, but not
\* in the middle of a group.
KeyF1 ==
    /\ Idle
    /\ IF m.testAfterDispose
       THEN Keys(m) \/ (m.curComplete > 0 /\ Keys(Left(m)))
       ELSE IF ~ m.groupComplete /\ m.curComplete > 0
       THEN Keys(Left(m))
       ELSE Keys([LeftFor(m, "TEST_PARAMETER") EXCEPT !.autoUpdateSerial = TRUE])

MainPageCancelLastPiece ==
    IF m.groupComplete THEN Keys(Left(m))
    ELSE IF m.curComplete = 0 \/ GetCompletePiecePageNum(m) # m.curPage THEN Keys(m)
    ELSE Keys([m EXCEPT !.cancelLastPiece = TRUE, !.status = "TEST_SAVE"])

KeyF2 ==
    /\ Idle
    /\ IF m.testAfterDispose THEN MainPageCancelLastPiece
       ELSE Keys(LeftFor(m, "TEST_REPORT"))

KeyF3EndsAnyGroup ==        \* mutant: a finished group can be ended again
    /\ Idle
    /\ IF ~ m.testAfterDispose THEN Keys(LeftFor(m, "MAIN"))
       ELSE Keys([m EXCEPT !.handEndOneGroup = TRUE, !.status = "TEST_SAVE"])

\* F3 leads to the login and the system settings, and from there back ("MAIN").
KeyF3 ==
    /\ Idle
    /\ IF ~ m.testAfterDispose THEN Keys(LeftFor(m, "MAIN"))
       ELSE IF m.groupComplete \/ m.curComplete = 0 THEN Keys(m)
       ELSE Keys([m EXCEPT !.handEndOneGroup = TRUE, !.status = "TEST_SAVE"])

KeyF4 == Idle /\ Keys([m EXCEPT !.testAfterDispose = ~ @])

\* LEFT and RIGHT show another page of the table and reload it from the card.
KeyTurn ==
    /\ Idle
    /\ LET last == PagesOf(m.sumSampleNum) IN
       \E p \in {IF m.curPage > 0 THEN m.curPage - 1 ELSE last, (m.curPage + 1) % (last + 1)},
          card \in CardStates :
          Keys(ReloadTestResultArea([m EXCEPT !.curPage = IF last = 0 THEN @ ELSE p], card))

\* The tare key works in every status.  PRINT and EXPORT may end in a pop-up.
KeyForceTare == "tare" \in Faults /\ Keys(Left(m))
KeyPrintExport == Idle /\ m.curComplete > 0 /\ Keys(Left(m))

KeyProcess ==
    KeyNone \/ KeyF1 \/ KeyF2 \/ KeyF3 \/ KeyF4 \/ KeyTurn \/ KeyForceTare \/ KeyPrintExport

-----------------------------------------------------------------------------
(* MainPageCtrlCoreCycle up to the test step: the sample, the judgement    *)
(* and the peak on the display, which is also the peak that is recorded.   *)

SetDynamicContentPeakAlways(s, peak) ==     \* mutant: the peak goes on after the break
    CASE s.peakStatus = "PEAK_IDLE" -> [s EXCEPT !.breakPeak = 0, !.peakStatus = "PEAK_SHOW"]
      [] s.peakStatus = "PEAK_SHOW" -> [s EXCEPT !.breakPeak = peak]
      [] s.peakStatus = "PEAK_KEEP" -> [s EXCEPT !.peakStatus = "PEAK_IDLE"]

SetDynamicContentPeak(s, peak) ==
    CASE s.peakStatus = "PEAK_IDLE" ->
            [s EXCEPT !.breakPeak = 0,
                      !.peakStatus = IF s.status = "TEST_LOAD" THEN "PEAK_SHOW" ELSE @]
      [] s.peakStatus = "PEAK_SHOW" ->
            IF s.status = "TEST_LOAD" THEN [s EXCEPT !.breakPeak = peak]
            ELSE IF s.status = "TEST_IDLE"
            THEN [s EXCEPT !.peakStatus = "PEAK_KEEP", !.peakDelayTime = StayTime]
            ELSE s
      [] s.peakStatus = "PEAK_KEEP" ->
            [s EXCEPT !.peakStatus = IF s.status = "TEST_LOAD" \/ s.peakDelayTime = 0
                                     THEN "PEAK_IDLE" ELSE @,
                      !.peakDelayTime = IF @ > 0 THEN @ - 1 ELSE 0]

Sample ==
    /\ pc = "sample" /\ pc' = "core"
    /\ force' \in Forces
    /\ judge' = JudgeBreakCalculate(judge, force')
    /\ m' = SetDynamicContentPeak(m, judge'.peak)
    /\ loadPeak' = IF m.status = "TEST_LOAD" /\ TakesPoint(judge)
                   THEN Larger(loadPeak, force') ELSE loadPeak
    /\ UNCHANGED files

-----------------------------------------------------------------------------
(* MainPageTestExecuteCoreCycle.                                           *)

Core(status) == pc = "core" /\ m.status = status

TestIdle ==
    /\ Core("TEST_IDLE") /\ force <= StartLoad
    /\ pc' = "leave"
    /\ UNCHANGED <<m, force, judge, files, loadPeak>>

\* MainPageAllowRunTest refuses: no link, no group size, no serial number
\* left, or (after the serial number was incremented) not activated.
TestRefused ==
    /\ Core("TEST_IDLE") /\ force > StartLoad
    /\ pc' = "leave"
    /\ \/ m' = Left(m)
       \/ \E card \in CardStates :
             /\ m.sumSampleNum > 0 /\ ~ SerialFails(m, card)
             /\ m' = Left(MainPageCheckSerialRepeat(m, card))
    /\ UNCHANGED <<force, judge, files, loadPeak>>

\* The table turns to the page of the next specimen, reloading the report.
TurnedToNextPiece(s, card) ==
    LET d == GetCompletePiecePageNum(s)
        t == IF d # s.curPage THEN ReloadTestResultArea([s EXCEPT !.curPage = d], card) ELSE s
    IN  IF IsCurrentSampleReachToPageTail(t)
        THEN ReloadTestResultArea([t EXCEPT !.curPage = @ + 1], card)
        ELSE t

TestStart ==
    /\ Core("TEST_IDLE") /\ force > StartLoad /\ m.sumSampleNum > 0
    /\ \E card \in CardStates :
          /\ ~ SerialFails(m, card)
          /\ m' = [TurnedToNextPiece(MainPageCheckSerialRepeat(m, card), card) EXCEPT
                     !.pieceComplete = FALSE, !.groupComplete = FALSE,
                     !.startJudgeBreak = FALSE, !.breakPeak = 0, !.status = "TEST_LOAD"]
    /\ judge' = InitJudgeBreakPoint /\ loadPeak' = 0
    /\ pc' = "leave"
    /\ UNCHANGED <<force, files>>

\* A specimen that is judged broken counts even if the force has already
\* fallen below the start value; one that is not is given up.
TestLoad ==
    /\ Core("TEST_LOAD")
    /\ LET judging == m.startJudgeBreak \/ force > BreakStart
           n == m.curComplete + 1
       IN  m' = IF judging /\ Broken(judge)
                THEN [m EXCEPT !.startJudgeBreak = TRUE, !.pieceComplete = TRUE,
                               !.curComplete = n, !.groupComplete = @ \/ n >= m.sumSampleNum,
                               !.status = "TEST_BREAK"]
                ELSE [m EXCEPT !.startJudgeBreak = judging,
                               !.status = IF force < StartLoad THEN "TEST_IDLE" ELSE @]
    /\ pc' = "leave"
    /\ UNCHANGED <<force, judge, files, loadPeak>>

TestBreak ==
    /\ Core("TEST_BREAK")
    /\ m' = [m EXCEPT !.status = "TEST_UNLOAD"]
    /\ pc' = "leave"
    /\ UNCHANGED <<force, judge, files, loadPeak>>

TestUnloadForgets ==    \* mutant: a piece that finishes a group is not saved
    /\ Core("TEST_UNLOAD")
    /\ m' = IF force < StartLoad
            THEN [m EXCEPT !.status = IF m.groupComplete THEN "TEST_IDLE" ELSE "TEST_SAVE",
                           !.testAfterDispose = ~ m.groupComplete]
            ELSE m
    /\ pc' = "leave"
    /\ UNCHANGED <<force, judge, files, loadPeak>>

TestUnload ==
    /\ Core("TEST_UNLOAD")
    /\ m' = IF force < StartLoad
            THEN [m EXCEPT !.status = "TEST_SAVE", !.testAfterDispose = ~ m.groupComplete]
            ELSE m
    /\ pc' = "leave"
    /\ UNCHANGED <<force, judge, files, loadPeak>>

-----------------------------------------------------------------------------
(* MainPageTestAfterDisposeExecuteCycle: cancel the last piece, end the    *)
(* group by hand, record a broken piece, finish a complete group, save.    *)

CancelLastPiece(s) ==
    IF ~ s.cancelLastPiece THEN s
    ELSE LET n == IF s.curComplete > 0 THEN s.curComplete - 1 ELSE 0
         IN  [s EXCEPT !.cancelLastPiece = FALSE, !.curComplete = n, !.report.sample = n,
                       !.report.force = [i \in Piece |-> IF i = s.curComplete THEN 0 ELSE @[i]]]

EndGroupByHand(s) ==
    IF s.handEndOneGroup THEN [s EXCEPT !.handEndOneGroup = FALSE, !.groupComplete = TRUE] ELSE s

BreakProcessOffByOne(s) ==      \* mutant: the piece is recorded one place too late
    IF ~ s.pieceComplete THEN s
    ELSE [s EXCEPT !.pieceComplete = FALSE, !.report.sample = s.curComplete,
                   !.report.force = [i \in Piece |-> IF i = s.curComplete + 1 THEN s.breakPeak ELSE @[i]]]

\* A piece beyond the array of the report is written behind it.
BreakProcess(s) ==
    IF ~ s.pieceComplete THEN s
    ELSE [s EXCEPT !.pieceComplete = FALSE, !.report.sample = s.curComplete,
                   !.report.force = [i \in Piece |-> IF i = s.curComplete THEN s.breakPeak ELSE @[i]]]

EndsGroup(s) == s.handEndOneGroup \/ (s.pieceComplete /\ s.groupComplete)

AfterDispose(s) ==
    LET d == BreakProcess(EndGroupByHand(CancelLastPiece(s)))
    IN  IF EndsGroup(s) THEN [d EXCEPT !.report.complete = TRUE] ELSE d

\* What is left of a cancelled group is saved; an empty one is deleted.
ToDelete(s) == s.cancelLastPiece /\ s.curComplete <= 1
ToSave(s) == s.pieceComplete \/ EndsGroup(s) \/ (s.cancelLastPiece /\ s.curComplete > 1)

TestSave ==
    /\ Core("TEST_SAVE") /\ ~ ToDelete(m)
    /\ m' = [AfterDispose(m) EXCEPT !.status = IF ToSave(m) THEN @ ELSE "TEST_IDLE"]
    /\ pc' = IF ToSave(m) THEN "open" ELSE "leave"
    /\ UNCHANGED <<force, judge, files, loadPeak>>

\* report_delete.
TestDelete ==
    /\ Core("TEST_SAVE") /\ ToDelete(m)
    /\ \E ok \in BOOLEAN :
          /\ ok \/ "save" \in Faults
          /\ files' = IF ok THEN [files EXCEPT ![m.serial] = NoFile] ELSE files
          /\ m' = [AfterDispose(m) EXCEPT !.status = "TEST_IDLE",
                                          !.leavePage = @ \/ ~ ok \/ files[m.serial] = NoFile]
    /\ pc' = "leave"
    /\ UNCHANGED <<force, judge, loadPeak>>

\* report_save: f_open truncates the file that is there ...
OpenFile ==
    /\ pc = "open" /\ pc' = "write"
    /\ files' = [files EXCEPT ![m.serial] = Truncated]
    /\ UNCHANGED <<m, force, judge, loadPeak>>

SavedStays(ok) ==       \* mutant: a save that failed does not reload the page
    /\ pc' = "leave"
    /\ m' = [m EXCEPT !.status = "TEST_IDLE"]
    /\ UNCHANGED <<force, judge, loadPeak>>

Saved(ok) ==
    /\ pc' = "leave"
    /\ m' = [m EXCEPT !.status = "TEST_IDLE", !.leavePage = @ \/ ~ ok]
    /\ UNCHANGED <<force, judge, loadPeak>>

OpenFails ==
    /\ pc = "open" /\ "save" \in Faults
    /\ Saved(FALSE)
    /\ UNCHANGED files

\* ... f_write and f_close fill it.
WriteFile ==
    /\ pc = "write"
    /\ files' = [files EXCEPT ![m.serial] = FileOf(m.report)]
    /\ Saved(TRUE)

WriteFails ==
    /\ pc = "write" /\ "write" \in Faults
    /\ Saved(FALSE)
    /\ UNCHANGED files

TestStep ==
    \/ TestIdle \/ TestRefused \/ TestStart \/ TestLoad \/ TestBreak \/ TestUnload
    \/ TestSave \/ TestDelete
    \/ OpenFile \/ OpenFails \/ WriteFile \/ WriteFails

-----------------------------------------------------------------------------
(* The end of the cycle and the other pages.                               *)

\* With no test running a PRM warning, a reconnection or a failed automatic
\* print may leave the page as well, and a connected PC calls the link page,
\* which leads back.
EndCycle ==
    /\ pc = "leave"
    /\ \/ pc' = "away" /\ (m.leavePage \/ Idle) /\ UNCHANGED m
       \/ pc' = "away" /\ Idle /\ m' = LeftFor(m, "MAIN")
       \/ pc' = "keys" /\ ~ m.leavePage /\ UNCHANGED m
    /\ UNCHANGED <<force, judge, files, loadPeak>>

\* The test parameter page lets the operator choose a size and a serial number;
\* it turns one that has a report into the next free one.
TestParameterPage ==
    /\ pc = "away" /\ m.page = "TEST_PARAMETER"
    /\ \E n \in SampleNums \cup {m.num},
          serial \in {m.serial} \cup {s \in DOMAIN files : ~ Exists(s, {})} :
          m' = [m EXCEPT !.num = n, !.serial = serial, !.page = "MAIN"]
    /\ UNCHANGED <<pc, force, judge, files, loadPeak>>

\* The report page deletes reports.
TestReportPage ==
    /\ pc = "away" /\ m.page = "TEST_REPORT"
    /\ \E deleted \in SUBSET DOMAIN files :
          files' = [s \in DOMAIN files |-> IF s \in deleted THEN NoFile ELSE files[s]]
    /\ m' = [m EXCEPT !.page = "MAIN"]
    /\ UNCHANGED <<pc, force, judge, loadPeak>>

EnterMainPage ==
    /\ pc = "away" /\ m.page = "MAIN"
    /\ \E card \in CardStates : m' = ReloadTestResultArea(m, card)
    /\ pc' = IF m'.leavePage THEN "away" ELSE "keys"
    /\ UNCHANGED <<force, judge, files, loadPeak>>

\* A power failure: the RAM is lost, the card and the parameters are kept.
PowerCut ==
    /\ pc # "write" \/ "cut" \in Faults
    /\ m' = PowerUp(m.serial, m.num)
    /\ pc' = "away"
    /\ force' = 0 /\ judge' = InitJudgeBreakPoint /\ loadPeak' = 0
    /\ UNCHANGED files

Loop == KeyProcess \/ Sample \/ TestStep \/ EndCycle \/ TestParameterPage \/ TestReportPage \/ EnterMainPage

Next == Loop \/ PowerCut

Spec == Init /\ [][Next]_vars

\* The main loop keeps turning, with the power on.
LoopSpec == Init /\ [][Loop]_vars /\ WF_vars(Loop)

-----------------------------------------------------------------------------
(* Properties.                                                             *)

Status == {"TEST_IDLE", "TEST_LOAD", "TEST_BREAK", "TEST_UNLOAD", "TEST_SAVE"}

\* The types of the variables; a piece count never exceeds what a report holds.
TypeOK ==
    /\ pc \in {"keys", "sample", "core", "open", "write", "leave", "away"}
    /\ force \in Forces /\ loadPeak \in Forces
    /\ judge \in JudgeType
    /\ files \in [0 .. MaxSerial -> File]
    /\ m \in [status : Status, peakStatus : {"PEAK_IDLE", "PEAK_SHOW", "PEAK_KEEP"},
              breakPeak : Forces, peakDelayTime : 0 .. StayTime,
              pieceComplete : BOOLEAN, groupComplete : BOOLEAN, cancelLastPiece : BOOLEAN,
              handEndOneGroup : BOOLEAN, startJudgeBreak : BOOLEAN, testAfterDispose : BOOLEAN,
              autoUpdateSerial : BOOLEAN, curComplete : 0 .. MAX_RECORD,
              sumSampleNum : SampleNums \cup {0}, curPage : Nat, report : Report,
              serial : 0 .. MaxSerial, num : SampleNums \cup {0}, leavePage : BOOLEAN,
              page : {"MAIN", "TEST_PARAMETER", "TEST_REPORT"}]

\* From the break until it is recorded, the peak that will be recorded is the
\* largest point of this very loading: neither the display's delay, nor the
\* cycles that go on while the machine unloads, nor an earlier loading that was
\* given up reaches it (SetDynamicContentPeak against JudgeBreakCalculateCycle).
PeakIsOfThisLoading ==
    m.status \in {"TEST_BREAK", "TEST_UNLOAD"} \/ (m.status = "TEST_SAVE" /\ m.pieceComplete)
        => m.breakPeak = loadPeak /\ loadPeak > 0

\* The report's pieces are the first ones, without a gap, whatever mixture of
\* breaks, cancellations and ended groups led to them.
Gapless(r) == \A i \in Piece : r.force[i] > 0 <=> i <= r.sample
ReportIsGapless == Gapless(m.report) /\ \A s \in DOMAIN files : Gapless(files[s].report)

\* When the operator can press a key and no specimen is broken, the card holds
\* what the page shows, even after a save or a deletion failed: the page has
\* then been loaded again (leavePage).  Of a report whose save was broken off
\* nothing is left to show.
PageMatchesCard ==
    pc = "keys" /\ m.status \in {"TEST_IDLE", "TEST_LOAD"} /\ m.sumSampleNum > 0
        /\ files[m.serial] # Truncated
        => /\ files[m.serial] = IF m.curComplete = 0 THEN NoFile ELSE FileOf(m.report)
           /\ m.curComplete = m.report.sample
           /\ m.groupComplete = m.report.complete

\* No group gets more pieces than it has: a test that starts after a finished
\* group starts a new one (MainPageCheckSerialRepeat before the flag is reset).
PieceWithinGroup == m.curComplete <= m.sumSampleNum

\* A report replaces another one only if it goes on where that one stopped: the
\* pieces before are the same, at most the last is cancelled, and the group was
\* not finished.  A report is deleted by the report page or as its only piece.
Continues(r, old) ==
    /\ ~ old.complete
    /\ r.sample >= old.sample - 1
    /\ \A i \in Piece : (i <= old.sample /\ i <= r.sample) => r.force[i] = old.force[i]
OnlyContinued ==
    [][\A s \in DOMAIN files :
          (files[s].state = "saved" /\ files'[s] # files[s] /\ pc # "away")
              => IF files'[s] = NoFile THEN files[s].report.sample = 1 /\ ~ files[s].report.complete
                 ELSE Continues(m.report, files[s].report)]_vars

\* A specimen that was judged broken gets into the report on the card, provided
\* the machine is unloaded again and again.
Unloads == []<>(pc = "core" /\ force < StartLoad)
OnCard(k) ==
    /\ files[m.serial].state = "saved" /\ files[m.serial].report.sample = k
    /\ files[m.serial].report.force[k] = m.breakPeak
BrokenIsSaved == Unloads => \A k \in Piece : (m.status = "TEST_BREAK" /\ m.curComplete = k) ~> OnCard(k)
===============================================================================
