-------------------------- MODULE ParamStoreProofs --------------------------
(***************************************************************************)
(* Proofs about the parameters, for every layout of the areas and every    *)
(* bound: the password and the device's data survive restores and power    *)
(* cuts, and what the foreground does to the flash is what SpiFlash says   *)
(* of its users, so that SpiFlashProofs holds for it.  Then the backups:   *)
(* what they are written from, that those of a day are one state, and that *)
(* a restore of which success is reported put a backup into the flash.     *)
(***************************************************************************)
EXTENDS ParamStore, SpiFlashProofs

SetOK(memory) == memory = [a \in Area |-> memory[a]] /\ \A a \in Area : memory[a] \in Content(a)

RamOK == SetOK(ram)

FilesOK ==
    /\ files = [p \in Places |-> files[p]]
    /\ \A p \in Places : files[p] = [a \in Area |-> files[p][a]]
    /\ \A p \in Places, a \in Area : files[p][a].data \in Content(a)

TodoOK == todo \in Seq(Area)

KeptOK == kept = [a \in Area |-> kept[a]] /\ \A a \in Area : kept[a] \subseteq Kept[a]

WriteUnderWay(a) == write # NoWrite /\ write.area = a
SavePending(a) == pc \in SetsKept /\ a \in ToSet(todo)

\* The flash has the kept part of an area, or it is on its way there.
FlashKeeps == \A a \in Reached \ lost : \/ flash[a] \cap Kept[a] = kept[a]
                                        \/ WriteUnderWay(a) \/ SavePending(a)

WriteKeeps == write # NoWrite => /\ pc \in DOMAIN AfterSave
                                 /\ write.area \in Reached
                                 /\ write.area \notin lost => write.data \cap Kept[write.area] = kept[write.area]

KInv == RamOK /\ FilesOK /\ TodoOK /\ KeptOK /\ KeptSurvives /\ FlashKeeps /\ WriteKeeps

-----------------------------------------------------------------------------
LEMMA AreaFacts ==
    /\ ToSet(AllAreas) = Area /\ AllAreas \in Seq(Area) /\ <<>> \in Seq(Area)
    /\ \A a \in Area : <<a>> \in Seq(Area) /\ ToSet(<<a>>) = {a}
<1>1. Area = {"pcm", "prm", "prv"}
    BY StoreAssumption DEF StoreAssumption
<1>2. AllAreas \in Seq(Area) /\ <<>> \in Seq(Area)
    BY <1>1 DEF AllAreas
<1>3. DOMAIN AllAreas = {1, 2, 3} /\ AllAreas[1] = "pcm" /\ AllAreas[2] = "prm" /\ AllAreas[3] = "prv"
    BY DEF AllAreas
<1>4. ToSet(AllAreas) = Area
    BY <1>1, <1>3 DEF ToSet
<1>5. \A a \in Area : <<a>> \in Seq(Area) /\ ToSet(<<a>>) = {a}
    <2> TAKE a \in Area
    <2>1. DOMAIN <<a>> = {1} /\ <<a>>[1] = a
        OBVIOUS
    <2> QED BY <2>1 DEF ToSet
<1> QED BY <1>2, <1>4, <1>5

LEMMA TodoFacts ==
    ASSUME TodoOK, todo # <<>>
    PROVE  /\ Head(todo) \in Area /\ Tail(todo) \in Seq(Area)
           /\ ToSet(todo) \subseteq {Head(todo)} \cup ToSet(Tail(todo))
<1>1. todo \in Seq(Area) /\ Len(todo) \in Nat /\ Len(todo) > 0
    BY DEF TodoOK
<1>2. Head(todo) = todo[1] /\ Tail(todo) \in Seq(Area) /\ Len(Tail(todo)) = Len(todo) - 1
    BY <1>1
<1>3. \A i \in 2..Len(todo) : i - 1 \in 1..Len(Tail(todo)) /\ Tail(todo)[i - 1] = todo[i]
    BY <1>1, <1>2
<1>4. \A i \in 2..Len(todo) : todo[i] \in ToSet(Tail(todo))
    <2> TAKE i \in 2..Len(todo)
    <2>1. i - 1 \in DOMAIN Tail(todo) /\ Tail(todo)[i - 1] = todo[i]
        BY <1>2, <1>3
    <2> QED BY <2>1 DEF ToSet
<1>5. \A i \in DOMAIN todo : i = 1 \/ i \in 2..Len(todo)
    BY <1>1
<1>6. ToSet(todo) = {todo[i] : i \in DOMAIN todo}
    BY DEF ToSet
<1> QED BY <1>1, <1>2, <1>4, <1>5, <1>6

LEMMA AreaKept == \A a \in Area : Kept[a] \subseteq Bits[a]
BY StoreAssumption DEF StoreAssumption

LEMMA InArea == Reached \subseteq Area /\ "pcm" \in Area /\ "prm" \in Area
BY FlashAssumption, StoreAssumption DEF FlashAssumption, StoreAssumption

LEMMA Domains ==
    /\ DOMAIN AfterSave = {"format", "match", "password", "page", "backup", "restore"}
    /\ DOMAIN Source = {"recoverSys", "recoverDay"}
BY DEF AfterSave, Source

LEMMA PlacesAre ==
    /\ Places = {"sys", "day"} /\ Opened["day"] = "day+" /\ Opened["sys"] = "sys+"
    /\ NextFile["day"] = "mkdir" /\ NextFile["sys"] = "sys"
    /\ {NextFile[p] : p \in Places} = {"mkdir", "sys"}
<1>1. NextFile["day"] = "mkdir" /\ NextFile["sys"] = "sys" /\ Places = {"sys", "day"}
    BY DEF NextFile, Places
<1>2. {NextFile[p] : p \in Places} = {"mkdir", "sys"}
    BY <1>1
<1> QED BY <1>1, <1>2 DEF Opened

-----------------------------------------------------------------------------
(* What the memory and the files hold.                                     *)

LEMMA LoadedOK == ASSUME SectorsOK, RamOK PROVE SetOK(Loaded)
BY DEF SectorsOK, RamOK, SetOK, Loaded, Content

LEMMA ClearedOK == SetOK(Cleared)
BY DEF SetOK, Cleared, Content

LEMMA RamExcept ==
    ASSUME RamOK, NEW a \in Area, NEW bits \in Content(a), ram' = [ram EXCEPT ![a] = bits]
    PROVE  RamOK' /\ ram'[a] = bits /\ \A b \in Area \ {a} : ram'[b] = ram[b]
<1>1. ram'[a] = bits /\ \A b \in Area \ {a} : ram'[b] = ram[b]
    BY DEF RamOK, SetOK
<1>2. ram' = [b \in Area |-> ram'[b]]
    BY DEF RamOK, SetOK
<1> QED BY <1>1, <1>2 DEF RamOK, SetOK, Content

LEMMA FileExcept ==
    ASSUME FilesOK, NEW p \in Places, NEW a \in Area, NEW file, file.data \in Content(a),
           files' = [files EXCEPT ![p][a] = file]
    PROVE  FilesOK'
<1>1. \A q \in Places, b \in Area : files'[q][b] = IF q = p /\ b = a THEN file ELSE files[q][b]
    BY DEF FilesOK
<1>2. files' = [q \in Places |-> files'[q]]
    BY DEF FilesOK
<1>3. \A q \in Places : files'[q] = [b \in Area |-> files'[q][b]]
    BY DEF FilesOK
<1>4. \A q \in Places, b \in Area : files'[q][b].data \in Content(b)
    BY <1>1 DEF FilesOK
<1> QED BY <1>2, <1>3, <1>4 DEF FilesOK, Content

LEMMA FileAt ==
    ASSUME FilesOK, NEW p \in Places, NEW a \in Area, NEW file, files' = [files EXCEPT ![p][a] = file]
    PROVE  \A q \in Places, b \in Area : files'[q][b] = IF q = p /\ b = a THEN file ELSE files[q][b]
BY DEF FilesOK

LEMMA KeptFacts ==
    ASSUME RamOK, KeptOK, NEW a \in Area
    PROVE  /\ ram[a] \subseteq Bits[a] /\ kept[a] \subseteq Kept[a]
           /\ Kept[a] \subseteq Bits[a]
BY AreaKept DEF RamOK, SetOK, KeptOK, Content

-----------------------------------------------------------------------------
(* The steps that leave the flash alone.                                   *)

\* Each area keeps what it had to keep, or is about to be saved.
LEMMA Quiet ==
    ASSUME KInv, UNCHANGED <<flash, write>>, write = NoWrite,
           \A a \in Reached \ lost' : \/ kept'[a] = kept[a] /\ a \notin lost /\ ~SavePending(a)
                                      \/ SavePending(a)'
    PROVE  FlashKeeps' /\ WriteKeeps'
<1>1. WriteKeeps'
    BY DEF WriteKeeps
<1>2. \A a \in Reached \ lost' : flash[a] \cap Kept[a] = kept'[a] \/ SavePending(a)'
    BY DEF KInv, FlashKeeps, WriteUnderWay
<1> QED BY <1>1, <1>2 DEF FlashKeeps

LEMMA NotSaving == ASSUME KInv, pc \notin DOMAIN AfterSave PROVE write = NoWrite
BY DEF KInv, WriteKeeps

LEMMA InFlash ==        \* nothing being saved, the flash has all there is to keep
    ASSUME KInv, write = NoWrite, pc \notin SetsKept \/ todo = <<>>, NEW a \in Reached \ lost
    PROVE  flash[a] \cap Kept[a] = kept[a]
<1>1. ToSet(<<>>) = {}
    BY DEF ToSet
<1> QED BY <1>1 DEF KInv, FlashKeeps, WriteUnderWay, SavePending

\* Steps that leave the parameters as they are, and are in no save.
LEMMA PassInv ==
    ASSUME KInv, UNCHANGED <<flash, write, ram, kept, lost>>, FilesOK', TodoOK',
           pc \notin DOMAIN AfterSave \cup {"load"}
    PROVE  KInv'
<1>1. write = NoWrite /\ pc \notin SetsKept
    BY NotSaving, Domains DEF SetsKept
<1>2. FlashKeeps' /\ WriteKeeps'
    <2>1. \A a \in Reached \ lost' : kept'[a] = kept[a] /\ a \notin lost /\ ~SavePending(a)
        BY <1>1 DEF SavePending
    <2> QED BY <1>1, <2>1, Quiet
<1>3. RamOK' /\ KeptOK' /\ KeptSurvives'
    BY DEF KInv, RamOK, SetOK, Content, KeptOK, KeptSurvives
<1> QED BY <1>2, <1>3 DEF KInv

LEMMA FilesSame == ASSUME KInv, UNCHANGED files PROVE FilesOK'
BY DEF KInv, FilesOK, Content

\* The dialogues and what they lead to.
LEMMA LoadInv == ASSUME SectorsOK, KInv, Load PROVE KInv'
<1>1. pc \in {"load", "reload"} /\ ram' = Loaded /\ todo' = <<>>
      /\ pc' \in {"format?", "match?"} /\ UNCHANGED <<flash, write, kept, lost, files>>
    BY DEF Load, Goes, Untouched, flashVars
<1>2. write = NoWrite /\ pc \notin SetsKept
    BY <1>1, NotSaving, Domains DEF SetsKept
<1>3. FlashKeeps' /\ WriteKeeps'
    <2>1. \A a \in Reached \ lost' : kept'[a] = kept[a] /\ a \notin lost /\ ~SavePending(a)
        BY <1>1, <1>2 DEF SavePending
    <2> QED BY <1>1, <1>2, <2>1, Quiet
<1>4. SetOK(Loaded)
    BY LoadedOK DEF KInv
<1>5. RamOK'
    BY <1>1, <1>4 DEF RamOK, SetOK, Content
<1>6. KeptSurvives'
    <2>1. \A a \in Reached \ lost : flash[a] \cap Kept[a] = kept[a]
        BY <1>2, InFlash
    <2>2. \A a \in Reached : Loaded[a] = flash[a]
        BY InArea DEF Loaded
    <2> QED BY <1>1, <2>1, <2>2 DEF KeptSurvives
<1>7. TodoOK' /\ KeptOK' /\ FilesOK'
    BY <1>1, AreaFacts, FilesSame DEF TodoOK, KInv, KeptOK
<1> QED BY <1>3, <1>5, <1>6, <1>7 DEF KInv

LEMMA FormatInv == ASSUME KInv, FormateSystemParameter PROVE KInv'
<1>1. pc = "format?" /\ UNCHANGED <<flash, write, files>>
    BY DEF FormateSystemParameter, Untouched, flashVars
<1>2. write = NoWrite /\ FilesOK'
    BY <1>1, NotSaving, Domains, FilesSame
<1>3. CASE Goes("match?", <<>>) /\ UNCHANGED <<ram, kept, lost>>
    <2>1. TodoOK' /\ pc' # "load"
        BY <1>3, AreaFacts DEF Goes, TodoOK
    <2> QED BY <1>1, <1>2, <1>3, <2>1, PassInv, Domains
<1>4. CASE ram' = Cleared /\ kept' = Cleared /\ lost' = {} /\ Goes("format", AllAreas)
    <2>1. TodoOK' /\ \A a \in Reached : SavePending(a)'
        BY <1>4, AreaFacts, InArea DEF Goes, TodoOK, SavePending, SetsKept
    <2>2. FlashKeeps' /\ WriteKeeps'
        BY <1>1, <1>2, <2>1, Quiet
    <2>3. SetOK(Cleared)
        BY ClearedOK
    <2>4. RamOK' /\ KeptOK' /\ KeptSurvives'
        BY <1>4, <2>3, InArea DEF RamOK, KeptOK, SetOK, KeptSurvives, Cleared, Content
    <2> QED BY <1>2, <2>1, <2>2, <2>4 DEF KInv
<1> QED BY <1>3, <1>4 DEF FormateSystemParameter

LEMMA MatchInv == ASSUME KInv, ProcessMachineMatchTestType PROVE KInv'
<1>1. pc = "match?" /\ UNCHANGED <<flash, write, kept, lost, files>>
    BY DEF ProcessMachineMatchTestType, Untouched, flashVars
<1>2. write = NoWrite /\ FilesOK' /\ pc \notin SetsKept
    BY <1>1, NotSaving, Domains, FilesSame DEF SetsKept
<1>3. CASE Goes("backup?", <<>>) /\ UNCHANGED ram
    <2>1. TodoOK' /\ pc' # "load"
        BY <1>3, AreaFacts DEF Goes, TodoOK
    <2> QED BY <1>1, <1>2, <1>3, <2>1, PassInv, Domains
<1>4. CASE ram' = [ram EXCEPT !["pcm"] = ram["pcm"] \cap Kept["pcm"]] /\ Goes("match", <<"pcm">>)
    <2>1. ram["pcm"] \cap Kept["pcm"] \in Content("pcm")
        BY InArea DEF KInv, RamOK, SetOK, Content
    <2>2. RamOK' /\ ram'["pcm"] = ram["pcm"] \cap Kept["pcm"]
          /\ \A b \in Area \ {"pcm"} : ram'[b] = ram[b]
        BY <1>4, <2>1, RamExcept, InArea DEF KInv
    <2>4. KeptSurvives'
        BY <1>1, <2>2, InArea DEF KInv, KeptSurvives
    <2>5. \A a \in Reached \ lost' : kept'[a] = kept[a] /\ a \notin lost /\ ~SavePending(a)
        BY <1>1, <1>2 DEF SavePending
    <2>6. FlashKeeps' /\ WriteKeeps'
        BY <1>1, <1>2, <2>5, Quiet
    <2>7. TodoOK' /\ KeptOK'
        BY <1>1, <1>4, AreaFacts, InArea DEF Goes, TodoOK, KInv, KeptOK
    <2> QED BY <1>2, <2>2, <2>4, <2>6, <2>7 DEF KInv
<1> QED BY <1>3, <1>4 DEF ProcessMachineMatchTestType

LEMMA PasswordInv == ASSUME KInv, HandlerDefaultPassword PROVE KInv'
<1>1. pc = "password?" /\ UNCHANGED <<flash, write, files>>
    BY DEF HandlerDefaultPassword, Untouched, flashVars
<1>2. write = NoWrite /\ FilesOK' /\ pc \notin SetsKept
    BY <1>1, NotSaving, Domains, FilesSame DEF SetsKept
<1>3. CASE Goes("main", <<>>) /\ UNCHANGED <<ram, kept, lost>>
    <2>1. TodoOK' /\ pc' # "load"
        BY <1>3, AreaFacts DEF Goes, TodoOK
    <2> QED BY <1>1, <1>2, <1>3, <2>1, PassInv, Domains
<1>4. CASE /\ ram["pcm"] \cap Kept["pcm"] = {}
           /\ ram' = [ram EXCEPT !["pcm"] = ram["pcm"] \cup DEFAULT_PASSWORD]
           /\ kept' = [kept EXCEPT !["pcm"] = DEFAULT_PASSWORD] /\ lost' = lost \ {"pcm"}
           /\ Goes("password", <<"pcm">>)
    <2>1. DEFAULT_PASSWORD \subseteq Kept["pcm"] /\ Kept["pcm"] \subseteq Bits["pcm"]
        BY StoreAssumption, AreaKept, InArea DEF StoreAssumption
    <2>2. ram["pcm"] \cup DEFAULT_PASSWORD \in Content("pcm")
        BY <2>1, InArea DEF KInv, RamOK, SetOK, Content
    <2>3. RamOK' /\ ram'["pcm"] = ram["pcm"] \cup DEFAULT_PASSWORD
          /\ \A b \in Area \ {"pcm"} : ram'[b] = ram[b]
        BY <1>4, <2>2, RamExcept, InArea DEF KInv
    <2>5. KeptOK' /\ kept'["pcm"] = DEFAULT_PASSWORD /\ \A b \in Area \ {"pcm"} : kept'[b] = kept[b]
        BY <1>4, <2>1, InArea DEF KInv, KeptOK
    <2>6. KeptSurvives'
        <3>1. ram'["pcm"] \cap Kept["pcm"] = kept'["pcm"]
            BY <1>4, <2>1, <2>3, <2>5
        <3>2. \A a \in Reached \ lost : ram[a] \cap Kept[a] = kept[a]
            BY <1>1 DEF KInv, KeptSurvives
        <3> QED BY <1>4, <2>3, <2>5, <3>1, <3>2, InArea DEF KeptSurvives
    <2>7. TodoOK' /\ SavePending("pcm")'
        BY <1>4, AreaFacts, InArea DEF Goes, TodoOK, SavePending, SetsKept
    <2>8. \A a \in Reached \ lost' : \/ kept'[a] = kept[a] /\ a \notin lost /\ ~SavePending(a)
                                     \/ SavePending(a)'
        BY <1>2, <1>4, <2>5, <2>7, InArea DEF SavePending
    <2>9. FlashKeeps' /\ WriteKeeps'
        BY <1>1, <1>2, <2>8, Quiet
    <2> QED BY <1>2, <2>3, <2>5, <2>6, <2>7, <2>9 DEF KInv
<1> QED BY <1>3, <1>4 DEF HandlerDefaultPassword

\* The backup, whose files are all that changes, and the steps between loops.
LEMMA FilesInv ==
    ASSUME KInv, AutoBackUpSystem \/ DayDirectory \/ BackupOpens \/ BackupWrites \/ BackedUp
    PROVE  KInv'
<1>1. UNCHANGED <<flash, write, ram, kept, lost>>
    BY DEF AutoBackUpSystem, DayDirectory, BackupOpens, BackupWrites, BackedUp, flashVars
<1>2. pc \in {"backup?", "mkdir", "day", "sys", "day+", "sys+"}
    BY PlacesAre DEF AutoBackUpSystem, DayDirectory, BackupOpens, BackupWrites, BackedUp
<1>3. TodoOK'
    <2>1. CASE AutoBackUpSystem \/ BackedUp
        BY <2>1, AreaFacts DEF AutoBackUpSystem, BackedUp, Goes, TodoOK
    <2>2. CASE BackupOpens \/ DayDirectory
        <3>1. todo # <<>> /\ todo' \in {todo, Tail(todo), <<>>}
            BY <2>2 DEF BackupOpens, DayDirectory, Goes
        <3> QED BY <3>1, TodoFacts, AreaFacts DEF TodoOK, KInv
    <2>3. CASE BackupWrites
        <3>1. todo' = Tail(todo)
            BY <2>3 DEF BackupWrites, Goes
        <3> QED BY <2>3, <3>1, TodoFacts DEF BackupWrites, TodoOK, KInv
    <2> QED BY <2>1, <2>2, <2>3
<1>4. FilesOK'
    <2>1. CASE UNCHANGED files
        BY <2>1, FilesSame
    <2>2. CASE BackupOpens /\ files' # files
        <3>1. pc \in Places /\ todo # <<>> /\ files' = [files EXCEPT ![pc][Head(todo)] = Empty]
            BY <2>2 DEF BackupOpens
        <3>2. Head(todo) \in Area /\ Empty.data \in Content(Head(todo))
            BY <3>1, TodoFacts DEF Empty, Content, KInv
        <3> QED BY <3>1, <3>2, FileExcept DEF KInv
    <2>3. CASE BackupWrites /\ files' # files
        <3>1. PICK place \in Places :
                files' = [files EXCEPT ![place][Head(todo)] = Whole(ram[Head(todo)])]
            BY <2>3 DEF BackupWrites
        <3>2. Head(todo) \in Area
            BY <2>3, TodoFacts DEF BackupWrites, KInv
        <3>3. Whole(ram[Head(todo)]).data \in Content(Head(todo))
            BY <3>2 DEF Whole, KInv, RamOK, SetOK
        <3> QED BY <3>1, <3>2, <3>3, FileExcept DEF KInv
    <2>4. CASE AutoBackUpSystem \/ DayDirectory \/ BackedUp
        BY <2>4, FilesSame DEF AutoBackUpSystem, DayDirectory, BackedUp, Untouched
    <2> QED BY <2>1, <2>2, <2>3, <2>4
<1> QED BY <1>1, <1>2, <1>3, <1>4, PassInv, Domains

LEMMA PageInv == ASSUME KInv, SystemBackup \/ SystemRestore \/ RecoverEnds PROVE KInv'
<1>1. UNCHANGED <<flash, write, ram, kept, lost, files>>
    BY DEF SystemBackup, SystemRestore, RecoverEnds, Untouched, flashVars
<1>2. pc \in {"main", "recoverSys", "recoverDay"}
    BY Domains DEF SystemBackup, SystemRestore, RecoverEnds
<1>3. TodoOK'
    BY AreaFacts DEF SystemBackup, SystemRestore, RecoverEnds, Goes, TodoOK
<1> QED BY <1>1, <1>2, <1>3, FilesSame, PassInv, Domains

LEMMA ResetInv == ASSUME KInv, SystemSoftwareReset PROVE KInv'
<1>1. pc = "restored" /\ pc' = "load" /\ todo' = <<>> /\ ram' = Cleared
      /\ UNCHANGED <<flash, write, kept, lost, files>>
    BY DEF SystemSoftwareReset, Goes, Untouched, flashVars
<1>2. write = NoWrite /\ FilesOK' /\ pc \notin SetsKept
    BY <1>1, NotSaving, Domains, FilesSame DEF SetsKept
<1>3. \A a \in Reached \ lost' : kept'[a] = kept[a] /\ a \notin lost /\ ~SavePending(a)
    BY <1>1, <1>2 DEF SavePending
<1>4. FlashKeeps' /\ WriteKeeps'
    BY <1>1, <1>2, <1>3, Quiet
<1>5. RamOK' /\ TodoOK' /\ KeptOK' /\ KeptSurvives'
    BY <1>1, ClearedOK, AreaFacts DEF RamOK, SetOK, Content, TodoOK, KInv, KeptOK, KeptSurvives
<1> QED BY <1>2, <1>4, <1>5 DEF KInv

\* Whatever was read, the password and the data of the device are put back.
LEMMA RecoveredInv ==
    ASSUME KInv, pc \in DOMAIN Source, todo # <<>>, pc' = pc, todo' = Tail(todo),
           UNCHANGED <<flash, write, kept, lost, files>>,
           NEW read \in Content(Head(todo)),
           ram' = [ram EXCEPT ![Head(todo)] = Recovered(Head(todo), ram[Head(todo)], read)]
    PROVE  KInv'
<1> DEFINE a == Head(todo) new == Recovered(a, ram[a], read)
<1>1. a \in Area /\ TodoOK'
    BY TodoFacts DEF KInv, TodoOK
<1>2. ram[a] \in Content(a)
    BY <1>1 DEF KInv, RamOK, SetOK
<1>3. new \in Content(a) /\ new \cap Kept[a] = ram[a] \cap Kept[a]
    BY <1>2 DEF Recovered, Content
<1>4. RamOK' /\ ram'[a] = new /\ \A b \in Area \ {a} : ram'[b] = ram[b]
    BY <1>1, <1>3, RamExcept DEF KInv
<1>5. KeptSurvives'
    <2>1. pc # "load"
        BY Domains
    <2>2. \A b \in Area : ram'[b] \cap Kept[b] = ram[b] \cap Kept[b]
        BY <1>1, <1>3, <1>4
    <2> QED BY <2>1, <2>2, InArea DEF KInv, KeptSurvives
<1>6. write = NoWrite /\ FilesOK' /\ pc \notin SetsKept
    BY NotSaving, Domains, FilesSame DEF SetsKept
<1>7. \A b \in Reached \ lost' : kept'[b] = kept[b] /\ b \notin lost /\ ~SavePending(b)
    BY <1>6 DEF SavePending
<1>8. FlashKeeps' /\ WriteKeeps' /\ KeptOK'
    BY <1>6, <1>7, Quiet DEF KInv, KeptOK
<1> QED BY <1>1, <1>4, <1>5, <1>6, <1>8 DEF KInv

LEMMA RecoverInv == ASSUME KInv, RecoverNext PROVE KInv'
<1> DEFINE a == Head(todo) file == files[Source[pc]][Head(todo)]
<1>1. pc \in DOMAIN Source /\ todo # <<>> /\ pc' = pc /\ todo' = Tail(todo)
      /\ UNCHANGED <<flash, write, kept, lost, files>>
    BY DEF RecoverNext, Goes, flashVars
<1>2. a \in Area /\ TodoOK'
    BY <1>1, TodoFacts DEF KInv, TodoOK
<1>3. Source[pc] \in Places
    BY <1>1 DEF Source, Places
<1>4. file.data \in Content(a) /\ ram[a] \in Content(a)
    BY <1>2, <1>3 DEF KInv, FilesOK, RamOK, SetOK
<1>5. CASE UNCHANGED ram
    BY <1>1, <1>2, <1>5, FilesSame, PassInv, Domains
<1>6. CASE ram' = [ram EXCEPT ![a] = Recovered(a, ram[a], file.data)]
    BY <1>1, <1>4, <1>6, RecoveredInv
<1>7. CASE \E read \in Mixtures(a, ram[a], file.data) :
                ram' = [ram EXCEPT ![a] = Recovered(a, ram[a], read)]
    <2>1. Mixtures(a, ram[a], file.data) \subseteq Content(a)
        BY <1>4 DEF Mixtures, Content
    <2>2. PICK read \in Content(a) : ram' = [ram EXCEPT ![a] = Recovered(a, ram[a], read)]
        BY <1>7, <2>1
    <2> QED BY <1>1, <2>2, RecoveredInv
<1>8. ram' = [ram EXCEPT ![a] = ram[a]] => UNCHANGED ram
    BY <1>2 DEF KInv, RamOK, SetOK
<1> QED BY <1>5, <1>6, <1>7, <1>8 DEF RecoverNext

LEMMA PageSavesInv == ASSUME KInv, PageSaves PROVE KInv'
<1>1. pc = "main" /\ UNCHANGED <<flash, write, kept, lost, files>>
    BY DEF PageSaves, flashVars
<1>2. write = NoWrite /\ FilesOK' /\ pc \notin SetsKept
    BY <1>1, NotSaving, Domains, FilesSame DEF SetsKept
<1>3. PICK areas \in SaveOrders : \E entered \in SUBSET UNION {Bits[a] \ Kept[a] : a \in ToSet(areas)} :
        /\ ram' = [a \in Area |-> IF a \in ToSet(areas)
                                  THEN (ram[a] \cap Kept[a]) \cup ((Bits[a] \ Kept[a]) \cap entered)
                                  ELSE ram[a]]
        /\ Goes("page", areas)
    BY DEF PageSaves
<1>4. RamOK' /\ \A a \in Area : ram'[a] \cap Kept[a] = ram[a] \cap Kept[a]
    <2>1. \A a \in Area : ram[a] \subseteq Bits[a]
        BY DEF KInv, RamOK, SetOK, Content
    <2> QED BY <1>3, <2>1 DEF RamOK, SetOK, Content
<1>5. TodoOK' /\ pc' = "page"
    BY <1>3, StoreAssumption DEF Goes, TodoOK, StoreAssumption
<1>6. KeptSurvives'
    BY <1>1, <1>4, InArea DEF KInv, KeptSurvives
<1>7. \A a \in Reached \ lost' : kept'[a] = kept[a] /\ a \notin lost /\ ~SavePending(a)
    BY <1>1, <1>2 DEF SavePending
<1>8. FlashKeeps' /\ WriteKeeps' /\ KeptOK'
    BY <1>1, <1>2, <1>7, Quiet DEF KInv, KeptOK
<1> QED BY <1>2, <1>4, <1>5, <1>6, <1>8 DEF KInv

LEMMA KeptIsSetInv == ASSUME KInv, KeptIsSet PROVE KInv'
<1>1. pc = "main" /\ UNCHANGED <<flash, write, files>>
    BY DEF KeptIsSet, flashVars
<1>2. write = NoWrite /\ FilesOK' /\ pc \notin SetsKept
    BY <1>1, NotSaving, Domains, FilesSame DEF SetsKept
<1>3. PICK a \in {"pcm", "prm"} : \E new \in SUBSET Kept[a] :
        /\ ram' = [ram EXCEPT ![a] = (ram[a] \ Kept[a]) \cup new]
        /\ kept' = [kept EXCEPT ![a] = new] /\ lost' = lost \ {a}
        /\ Goes("page", <<a>>)
    BY DEF KeptIsSet
<1>4. PICK new \in SUBSET Kept[a] :
        /\ ram' = [ram EXCEPT ![a] = (ram[a] \ Kept[a]) \cup new]
        /\ kept' = [kept EXCEPT ![a] = new] /\ lost' = lost \ {a}
        /\ Goes("page", <<a>>)
    BY <1>3
<1>5. a \in Area /\ Kept[a] \subseteq Bits[a] /\ ram[a] \subseteq Bits[a]
    BY <1>3, InArea, AreaKept DEF KInv, RamOK, SetOK, Content
<1>6. (ram[a] \ Kept[a]) \cup new \in Content(a)
    BY <1>5 DEF Content
<1>7. RamOK' /\ ram'[a] = (ram[a] \ Kept[a]) \cup new /\ \A b \in Area \ {a} : ram'[b] = ram[b]
    BY <1>4, <1>5, <1>6, RamExcept DEF KInv
<1>8. KeptOK' /\ kept'[a] = new /\ \A b \in Area \ {a} : kept'[b] = kept[b]
    BY <1>4, <1>5 DEF KInv, KeptOK
<1>9. KeptSurvives'
    <2>1. ram'[a] \cap Kept[a] = kept'[a]
        BY <1>7, <1>8
    <2>2. \A b \in Reached \ lost : ram[b] \cap Kept[b] = kept[b]
        BY <1>1 DEF KInv, KeptSurvives
    <2> QED BY <1>4, <1>7, <1>8, <2>1, <2>2, InArea DEF KeptSurvives
<1>10. TodoOK' /\ SavePending(a)'
    BY <1>4, <1>5, AreaFacts DEF Goes, TodoOK, SavePending, SetsKept
<1>11. \A b \in Reached \ lost' : \/ kept'[b] = kept[b] /\ b \notin lost /\ ~SavePending(b)
                                  \/ SavePending(b)'
    BY <1>2, <1>4, <1>8, <1>10, InArea DEF SavePending
<1>12. FlashKeeps' /\ WriteKeeps'
    BY <1>1, <1>2, <1>11, Quiet
<1> QED BY <1>2, <1>7, <1>8, <1>9, <1>10, <1>12 DEF KInv

-----------------------------------------------------------------------------
(* The saves.                                                              *)

LEMMA SaveNextInv == ASSUME KInv, SaveNext PROVE KInv'
<1>1. /\ pc \in DOMAIN AfterSave /\ todo # <<>> /\ pc' = pc /\ todo' = Tail(todo)
      /\ UNCHANGED <<ram, kept, lost, files, flash>> /\ write = NoWrite
    BY DEF SaveNext, Goes, Untouched, sf_WriteBuffer, Idle
<1> DEFINE a == Head(todo)
<1>2. a \in Area /\ TodoOK' /\ ToSet(todo) \subseteq {a} \cup ToSet(todo')
    BY <1>1, TodoFacts DEF KInv, TodoOK
<1>3. RamOK' /\ FilesOK' /\ KeptOK' /\ KeptSurvives'
    BY <1>1, FilesSame DEF KInv, RamOK, SetOK, Content, KeptOK, KeptSurvives
<1>4. ram[a] \in Content(a)
    BY <1>2 DEF KInv, RamOK, SetOK
<1>5. CASE a \in Reached
    <2>1. write' = [area |-> a, data |-> ram[a]]
        BY <1>5 DEF SaveNext, sf_WriteBuffer
    <2>2. write' # NoWrite /\ write'.area = a /\ write'.data = ram[a]
        BY <1>2, <1>4, <2>1, RequestRecord
    <2>3. a \notin lost => ram[a] \cap Kept[a] = kept[a]
        BY <1>1, <1>5, Domains DEF KInv, KeptSurvives
    <2>4. WriteKeeps'
        BY <1>1, <1>5, <2>2, <2>3 DEF WriteKeeps
    <2>5. FlashKeeps'
        BY <1>1, <1>2, <2>2 DEF KInv, FlashKeeps, WriteUnderWay, SavePending
    <2> QED BY <1>2, <1>3, <2>4, <2>5 DEF KInv
<1>6. CASE a \notin Reached
    <2>1. write' = write
        BY <1>6 DEF SaveNext, sf_WriteBuffer
    <2>2. WriteKeeps'
        BY <1>1, <2>1 DEF WriteKeeps
    <2>3. FlashKeeps'
        BY <1>1, <1>2, <1>6, <2>1 DEF KInv, FlashKeeps, WriteUnderWay, SavePending
    <2> QED BY <1>2, <1>3, <2>2, <2>3 DEF KInv
<1> QED BY <1>5, <1>6

LEMMA SavedInv == ASSUME SectorsOK, KInv, Saved PROVE KInv'
<1>1. /\ pc \in DOMAIN AfterSave /\ todo = <<>> /\ write = NoWrite
      /\ UNCHANGED <<flash, write, kept, lost, files>>
      /\ ram' = Loaded \/ ram' = ram
      /\ todo' = AllAreas \/ todo' = <<>>
      /\ pc' = AfterSave[pc]
    BY DEF Saved, Goes, Untouched, flashVars, Idle
<1>2. \A a : ~SavePending(a)
    BY <1>1 DEF SavePending, ToSet
<1>3. FlashKeeps' /\ WriteKeeps'
    <2>1. \A a \in Reached \ lost' : kept'[a] = kept[a] /\ a \notin lost /\ ~SavePending(a)
        BY <1>1, <1>2
    <2> QED BY <1>1, <2>1, Quiet
<1>4. RamOK'
    BY <1>1, LoadedOK DEF KInv, RamOK, SetOK, Content
<1>5. KeptSurvives'
    <2>1. \A a \in Reached \ lost : flash[a] \cap Kept[a] = kept[a]
        BY <1>1, InFlash
    <2>2. \A a \in Reached : Loaded[a] = flash[a]
        BY InArea DEF Loaded
    <2>3. pc # "load"
        BY <1>1, Domains
    <2> QED BY <1>1, <2>1, <2>2, <2>3 DEF KInv, KeptSurvives
<1>6. TodoOK' /\ KeptOK' /\ FilesOK'
    BY <1>1, AreaFacts, FilesSame DEF TodoOK, KInv, KeptOK
<1> QED BY <1>3, <1>4, <1>5, <1>6 DEF KInv

\* While the driver is at a save, only its sector changes; when it has done with
\* it, the sector is what was saved.
LEMMA UnderWayInv ==
    ASSUME KInv, write # NoWrite, OneSector(write.area), SectorsOK,
           UNCHANGED <<write, pc, todo, kept, lost>>
    PROVE  FlashKeeps' /\ WriteKeeps'
<1>1. \A a \in Area : a # write.area => flash'[a] = flash[a]
    BY DEF OneSector, SectorsOK
<1>2. FlashKeeps'
    BY <1>1, InArea DEF KInv, FlashKeeps, WriteUnderWay, SavePending
<1>3. WriteKeeps'
    BY DEF KInv, WriteKeeps
<1> QED BY <1>2, <1>3

LEMMA DoneInv ==
    ASSUME KInv, write # NoWrite, flash[write.area] = write.data, write' = NoWrite,
           UNCHANGED <<flash, pc, todo, kept, lost>>
    PROVE  FlashKeeps' /\ WriteKeeps'
<1>1. write.area \notin lost => flash[write.area] \cap Kept[write.area] = kept[write.area]
    BY DEF KInv, WriteKeeps
<1>2. FlashKeeps'
    BY <1>1 DEF KInv, FlashKeeps, WriteUnderWay, SavePending
<1>3. WriteKeeps'
    BY DEF WriteKeeps
<1> QED BY <1>2, <1>3

LEMMA RestSame ==
    ASSUME KInv, UNCHANGED <<storeVars, storeHistory>>
    PROVE  /\ UNCHANGED <<ram, pc, todo, kept, lost>>
           /\ RamOK' /\ FilesOK' /\ TodoOK' /\ KeptOK' /\ KeptSurvives'
<1>1. UNCHANGED <<ram, pc, todo, kept, lost, files>>
    BY DEF storeVars, storeHistory
<1> QED BY <1>1, FilesSame DEF KInv, RamOK, SetOK, Content, TodoOK, KeptOK, KeptSurvives

\* A save ends only when its sector holds what was to be saved.
LEMMA SaveEnds ==
    ASSUME IInv, Compare \/ sf_CmpData, Finished
    PROVE  write # NoWrite /\ flash[write.area] = write.data
<1>1. write' = NoWrite
    BY DEF Finished
<1>2. write # NoWrite
    BY DEF Compare, sf_CmpData, IInv, WriteOK
<1>3. CASE Compare
    BY <1>1, <1>2, <1>3 DEF Compare
<1>4. CASE sf_CmpData
    <2>1. tried + 1 = Tries => Sound
        BY FlashAssumption DEF IInv, CountersOK, Sound, FlashAssumption
    <2>2. step = "verify" /\ (flash[write.area] = write.data \/ tried + 1 = Tries)
        BY <1>1, <1>2, <1>4 DEF sf_CmpData
    <2> QED BY <1>2, <2>1, <2>2 DEF IInv, AttemptOK
<1> QED BY <1>3, <1>4

LEMMA DriverInv == ASSUME IInv, KInv, Driver PROVE KInv'
<1>1. /\ UNCHANGED <<ram, pc, todo, kept, lost>>
      /\ RamOK' /\ FilesOK' /\ TodoOK' /\ KeptOK' /\ KeptSurvives'
    BY RestSame DEF Driver
<1>2. SectorsOK
    BY DEF IInv
<1>3. CASE sf_EraseSector \/ sf_PageWrite
    <2>1. write # NoWrite /\ OneSector(write.area)
        BY <1>3, ErasedSector, ProgrammedSector
    <2>2. UNCHANGED write
        BY <1>3 DEF sf_EraseSector, sf_PageWrite
    <2> QED BY <1>1, <1>2, <2>1, <2>2, UnderWayInv DEF KInv
<1>4. CASE (Compare \/ sf_CmpData) /\ ~Finished
    <2>1. UNCHANGED <<flash, write>>
        BY <1>4 DEF Compare, sf_CmpData
    <2> QED BY <1>1, <2>1 DEF KInv, FlashKeeps, WriteKeeps, WriteUnderWay, SavePending
<1>5. CASE (Compare \/ sf_CmpData) /\ Finished
    <2>1. write' = NoWrite /\ UNCHANGED flash
        BY <1>5 DEF Compare, sf_CmpData, Finished
    <2>2. write # NoWrite /\ flash[write.area] = write.data
        BY <1>5, SaveEnds
    <2> QED BY <1>1, <2>1, <2>2, DoneInv DEF KInv
<1> QED BY <1>3, <1>4, <1>5 DEF Driver, FlashStep

\* What a power cut may have spoilt is counted as lost.
LEMMA PowerFailsInv == ASSUME IInv, KInv, PowerFails PROVE KInv'
<1>1. /\ ram' = Cleared /\ pc' = "load" /\ todo' = <<>> /\ UNCHANGED <<files, kept>>
      /\ PowerCut /\ write' = NoWrite
      /\ lost' = lost \cup {a \in Area : write # NoWrite /\ write.area = a}
                      \cup (IF pc \in SetsKept THEN ToSet(todo) ELSE {})
    BY DEF PowerFails, Goes, PowerCut, Finished
<1>2. RamOK' /\ FilesOK' /\ TodoOK' /\ KeptOK' /\ KeptSurvives'
    BY <1>1, ClearedOK, AreaFacts, FilesSame
       DEF RamOK, SetOK, Content, TodoOK, KInv, KeptOK, KeptSurvives
<1>3. WriteKeeps'
    BY <1>1 DEF WriteKeeps
<1>4. \A a \in Reached \ lost' : a \notin lost /\ ~WriteUnderWay(a) /\ ~SavePending(a)
    BY <1>1, InArea DEF WriteUnderWay, SavePending
<1>5. \A a \in Reached \ lost' : flash[a] \cap Kept[a] = kept[a]
    BY <1>4 DEF KInv, FlashKeeps
<1>6. \A a \in Reached \ lost' : flash'[a] = flash[a]
    <2>1. SectorsOK
        BY DEF IInv
    <2>2. CASE write = NoWrite
        BY <1>1, <2>2, CutSector
    <2>3. CASE write # NoWrite
        BY <1>1, <1>4, <2>1, <2>3, CutSector, InArea DEF OneSector, SectorsOK, WriteUnderWay
    <2> QED BY <2>2, <2>3
<1>7. FlashKeeps'
    BY <1>1, <1>5, <1>6 DEF FlashKeeps
<1> QED BY <1>2, <1>3, <1>7 DEF KInv

LEMMA PowerReturnsInv == ASSUME KInv, PowerReturns PROVE KInv'
<1>1. /\ UNCHANGED <<pc, todo, kept, lost>>
      /\ RamOK' /\ FilesOK' /\ TodoOK' /\ KeptOK' /\ KeptSurvives'
    BY RestSame DEF PowerReturns
<1>2. UNCHANGED <<flash, write>>
    BY DEF PowerReturns, PowerOn
<1> QED BY <1>1, <1>2 DEF KInv, FlashKeeps, WriteKeeps, WriteUnderWay, SavePending

-----------------------------------------------------------------------------
(* The store is one of the users of the driver.                            *)

LEMMA IsUser == RamOK /\ TodoOK /\ [Next]_vars => [FlashNext]_flashVars
<1> SUFFICES ASSUME RamOK, TodoOK, [Next]_vars PROVE FlashNext \/ UNCHANGED flashVars
    OBVIOUS
<1>1. CASE UNCHANGED vars
    BY <1>1 DEF vars
<1>2. CASE SaveNext
    <2>1. Head(todo) \in Area /\ sf_WriteBuffer(Head(todo), ram[Head(todo)])
        BY <1>2, TodoFacts DEF SaveNext
    <2>2. ram[Head(todo)] \in Content(Head(todo))
        BY <2>1 DEF RamOK, SetOK
    <2> QED BY <2>1, <2>2 DEF FlashNext
<1>3. CASE Driver \/ PowerFails \/ PowerReturns
    BY <1>3 DEF Driver, PowerFails, PowerReturns, FlashNext
<1>4. CASE Load \/ FormateSystemParameter \/ ProcessMachineMatchTestType \/ AutoBackUpSystem
           \/ HandlerDefaultPassword \/ Saved \/ DayDirectory \/ BackupOpens \/ BackupWrites \/ BackedUp
           \/ RecoverNext \/ RecoverEnds \/ SystemSoftwareReset
    BY <1>4 DEF Load, FormateSystemParameter, ProcessMachineMatchTestType, AutoBackUpSystem,
                HandlerDefaultPassword, Saved, DayDirectory, BackupOpens, BackupWrites, BackedUp,
                RecoverNext, RecoverEnds, SystemSoftwareReset
<1>5. CASE User
    BY <1>5 DEF User, PageSaves, KeptIsSet, SystemBackup, SystemRestore
<1> QED BY <1>1, <1>2, <1>3, <1>4, <1>5 DEF Next, Foreground

LEMMA StoreInit == Init => FlashInit /\ FlashStart /\ KInv
<1> SUFFICES ASSUME Init PROVE FlashInit /\ FlashStart /\ KInv
    OBVIOUS
<1>1. DEFAULT_PASSWORD \subseteq Kept["pcm"] /\ Kept["pcm"] \subseteq Bits["pcm"]
    BY StoreAssumption, AreaKept, InArea DEF StoreAssumption
<1>2. SetOK([a \in Area |-> Blank(a)])
    BY DEF SetOK, Blank, Content
<1>3. SetOK([Cleared EXCEPT !["pcm"] = DEFAULT_PASSWORD])
    BY <1>1, InArea DEF SetOK, Cleared, Content
<1>4. SetOK(flash)
    BY <1>2, <1>3 DEF Init
<1>5. FlashStart
    BY <1>4 DEF FlashStart, SetOK, Content
<1>6. ram = Cleared /\ pc = "load" /\ todo = <<>> /\ write = NoWrite
      /\ kept = KeptOf(flash) /\ files = [p \in Places |-> [a \in Area |-> NoFile]]
    BY DEF Init, FlashInit
<1>7. RamOK /\ TodoOK /\ KeptSurvives /\ WriteKeeps
    BY <1>6, ClearedOK, AreaFacts DEF RamOK, TodoOK, KeptSurvives, WriteKeeps
<1>8. KeptOK /\ FlashKeeps
    BY <1>6, InArea DEF KeptOK, KeptOf, FlashKeeps
<1>9. FilesOK
    BY <1>6 DEF FilesOK, NoFile, Content
<1> QED BY <1>5, <1>7, <1>8, <1>9 DEF Init, KInv

LEMMA StoreStep == IInv /\ KInv /\ [Next]_vars => IInv' /\ KInv'
<1> SUFFICES ASSUME IInv, KInv, [Next]_vars PROVE IInv' /\ KInv'
    OBVIOUS
<1>1. IInv'
    BY IsUser, StepInv DEF KInv
<1>2. KInv'
    <2>1. SectorsOK
        BY DEF IInv
    <2>2. CASE UNCHANGED vars
        <3>1. UNCHANGED <<flash, write, storeVars, storeHistory>>
            BY <2>2 DEF vars, flashVars
        <3>2. /\ UNCHANGED <<pc, todo, kept, lost>>
              /\ RamOK' /\ FilesOK' /\ TodoOK' /\ KeptOK' /\ KeptSurvives'
            BY <3>1, RestSame
        <3> QED BY <3>1, <3>2 DEF KInv, FlashKeeps, WriteKeeps, WriteUnderWay, SavePending
    <2>3. CASE Foreground
        BY <2>1, <2>3, LoadInv, FormatInv, MatchInv, FilesInv, PasswordInv, SaveNextInv, SavedInv,
           DriverInv, RecoverInv, PageInv, ResetInv DEF Foreground
    <2>4. CASE User
        BY <2>4, PageSavesInv, KeptIsSetInv, PageInv DEF User
    <2>5. CASE PowerFails \/ PowerReturns
        BY <2>5, PowerFailsInv, PowerReturnsInv
    <2> QED BY <2>2, <2>3, <2>4, <2>5 DEF Next
<1> QED BY <1>1, <1>2

\* The password and the data that activate the device survive every restore and
\* every power cut that does not hit a save of their own area, for every layout
\* of the areas and any number of faults the driver copes with.
THEOREM PasswordSurvives == Spec => []KeptSurvives
<1>1. Init => IInv /\ KInv
    BY StoreInit, InitInv
<1>2. IInv /\ KInv /\ [Next]_vars => IInv' /\ KInv'
    BY StoreStep
<1>3. KInv => KeptSurvives
    BY DEF KInv
<1> QED BY <1>1, <1>2, <1>3, PTL DEF Spec

LEMMA StoreUsesFlash == Spec => FlashSpec
<1>1. Init => FlashInit /\ FlashStart /\ IInv /\ KInv
    BY StoreInit, InitInv
<1>2. IInv /\ KInv /\ [Next]_vars => IInv' /\ KInv'
    BY StoreStep
<1>3. IInv /\ KInv /\ [Next]_vars => [FlashNext]_flashVars
    BY IsUser DEF KInv
<1> QED BY <1>1, <1>2, <1>3, PTL DEF Spec, FlashSpec

\* The saves of the start-up, of the pages, of the backup and of the restore are
\* kept by the driver: the store implements the registers.
THEOREM StoreKeepsSaves == Spec => SavesAreKept
BY StoreUsesFlash, FlashKeepsSaves

-----------------------------------------------------------------------------
(* The types, beyond what the invariant says.                              *)

StorePcs == {"format", "match", "password", "page", "backup", "restore", "recoverSys", "recoverDay",
             "sys", "day", "sys+", "day+", "load", "reload", "format?", "match?", "backup?",
             "password?", "mkdir", "main", "restored"}

StoreTypes ==
    /\ Len(todo) <= 3
    /\ \A a \in Area : snapshot[a] \in Content(a)
    /\ pc \in StorePcs
    /\ result \in {"ok", "failed"} /\ made \in BOOLEAN
    /\ lost \subseteq Area /\ outdated \subseteq Area /\ unread \subseteq Area
    /\ \A p \in Places, a \in Area : files[p][a] \in File

LEMMA PcTyped == ASSUME pc \in StorePcs, [Next]_vars PROVE pc' \in StorePcs
<1> USE DEF StorePcs
<1>1. CASE Load \/ FormateSystemParameter \/ ProcessMachineMatchTestType \/ AutoBackUpSystem
           \/ HandlerDefaultPassword
    BY <1>1 DEF Load, FormateSystemParameter, ProcessMachineMatchTestType, AutoBackUpSystem,
                HandlerDefaultPassword, Goes
<1>2. CASE SaveNext \/ Driver \/ PowerReturns \/ UNCHANGED vars
    BY <1>2 DEF SaveNext, Driver, PowerReturns, storeVars, vars, Goes
<1>3. CASE Saved
    <2>1. pc \in DOMAIN AfterSave /\ pc' = AfterSave[pc]
        BY <1>3 DEF Saved, Goes
    <2> QED BY <2>1, Domains DEF AfterSave
<1>4. CASE BackupOpens
    BY <1>4, PlacesAre DEF BackupOpens, Goes
<1>5. CASE DayDirectory \/ BackupWrites \/ BackedUp
    BY <1>5, PlacesAre DEF DayDirectory, BackupWrites, BackedUp, Goes
<1>6. CASE RecoverNext \/ RecoverEnds \/ SystemSoftwareReset
    BY <1>6 DEF RecoverNext, RecoverEnds, SystemSoftwareReset, Goes
<1>7. CASE User \/ PowerFails
    <2>1. CASE SystemRestore
        BY <2>1, Domains DEF SystemRestore, Goes
    <2>2. CASE PageSaves \/ KeptIsSet \/ SystemBackup \/ PowerFails
        BY <2>2 DEF PageSaves, KeptIsSet, SystemBackup, PowerFails, Goes
    <2> QED BY <1>7, <2>1, <2>2 DEF User
<1> QED BY <1>1, <1>2, <1>3, <1>4, <1>5, <1>6, <1>7 DEF Next, Foreground

LEMMA TodoTyped == ASSUME TodoOK, Len(todo) <= 3, [Next]_vars PROVE Len(todo') <= 3
<1>1. Len(<<>>) <= 3 /\ Len(AllAreas) <= 3 /\ Len(<<"pcm">>) <= 3
    BY DEF AllAreas
<1>2. todo # <<>> => Len(Tail(todo)) <= 3
    <2> SUFFICES ASSUME todo # <<>> PROVE Len(Tail(todo)) <= 3
        OBVIOUS
    <2>1. todo \in Seq(Area) /\ Len(todo) \in Nat
        BY DEF TodoOK
    <2>2. Len(Tail(todo)) = Len(todo) - 1
        BY <2>1
    <2> QED BY <2>1, <2>2
<1>3. \A areas \in SaveOrders : Len(areas) <= 3
    BY StoreAssumption DEF StoreAssumption
<1>4. CASE Load \/ FormateSystemParameter \/ ProcessMachineMatchTestType \/ AutoBackUpSystem
           \/ HandlerDefaultPassword \/ Saved
    <2>1. todo' = <<>> \/ todo' = AllAreas \/ todo' = <<"pcm">>
        BY <1>4 DEF Load, FormateSystemParameter, ProcessMachineMatchTestType, AutoBackUpSystem,
                    HandlerDefaultPassword, Saved, Goes
    <2> QED BY <1>1, <2>1
<1>5. CASE SaveNext \/ Driver \/ PowerReturns \/ UNCHANGED vars
    <2>1. todo' = todo \/ (todo # <<>> /\ todo' = Tail(todo))
        BY <1>5 DEF SaveNext, Driver, PowerReturns, storeVars, vars, Goes
    <2> QED BY <1>2, <2>1
<1>6. CASE DayDirectory \/ BackupOpens \/ BackupWrites \/ RecoverNext
    <2>1. todo # <<>> /\ todo' \in {todo, Tail(todo), <<>>}
        BY <1>6 DEF DayDirectory, BackupOpens, BackupWrites, RecoverNext, Goes
    <2> QED BY <1>1, <1>2, <2>1
<1>7. CASE BackedUp \/ RecoverEnds \/ SystemSoftwareReset \/ SystemBackup \/ SystemRestore \/ PowerFails
    <2>1. todo' = <<>> \/ todo' = AllAreas
        BY <1>7 DEF BackedUp, RecoverEnds, SystemSoftwareReset, SystemBackup, SystemRestore, PowerFails, Goes
    <2> QED BY <1>1, <2>1
<1>8. CASE PageSaves
    <2>1. todo' \in SaveOrders
        BY <1>8 DEF PageSaves, Goes
    <2> QED BY <1>3, <2>1
<1>9. CASE KeptIsSet
    <2>1. PICK a \in Area : todo' = <<a>>
        BY <1>9, InArea DEF KeptIsSet, Goes
    <2>2. Len(<<a>>) = 1
        OBVIOUS
    <2> QED BY <2>1, <2>2
<1> QED BY <1>4, <1>5, <1>6, <1>7, <1>8, <1>9 DEF Next, Foreground, User

LEMMA FilesTyped ==
    ASSUME KInv, \A p \in Places, a \in Area : files[p][a] \in File, [Next]_vars
    PROVE  \A p \in Places, a \in Area : (files[p][a] \in File)'
<1>1. ASSUME UNCHANGED files PROVE \A p \in Places, a \in Area : (files[p][a] \in File)'
    BY <1>1 DEF File, Content
<1>2. ASSUME NEW place \in Places, NEW file \in File, todo # <<>>,
             files' = [files EXCEPT ![place][Head(todo)] = file]
      PROVE  \A p \in Places, a \in Area : (files[p][a] \in File)'
    <2>1. Head(todo) \in Area /\ FilesOK
        BY <1>2, TodoFacts DEF KInv
    <2>2. \A q \in Places, b \in Area : files'[q][b] = IF q = place /\ b = Head(todo) THEN file ELSE files[q][b]
        BY <1>2, <2>1 DEF FilesOK
    <2>3. \A q \in Places, b \in Area : files'[q][b] \in File
        BY <1>2, <2>2
    <2> QED BY <2>3 DEF File, Content
<1>3. CASE BackupOpens
    <2>1. CASE UNCHANGED files
        BY <1>1, <2>1
    <2>2. CASE files' = [files EXCEPT ![pc][Head(todo)] = Empty]
        <3>1. Empty \in File
            BY InArea DEF Empty, File, Content
        <3> QED BY <1>2, <1>3, <2>2, <3>1 DEF BackupOpens
    <2> QED BY <1>3, <2>1, <2>2 DEF BackupOpens
<1>4. CASE BackupWrites
    <2>1. PICK place \in Places :
            /\ todo # <<>>
            /\ UNCHANGED files \/ files' = [files EXCEPT ![place][Head(todo)] = Whole(ram[Head(todo)])]
        BY <1>4 DEF BackupWrites
    <2>2. Head(todo) \in Area
        BY <2>1, TodoFacts DEF KInv
    <2>3. ram[Head(todo)] \in Content(Head(todo))
        BY <2>2 DEF KInv, RamOK, SetOK
    <2>4. Whole(ram[Head(todo)]) \in File
        BY <2>2, <2>3 DEF Whole, File
    <2> QED BY <1>1, <1>2, <2>1, <2>4
<1>5. CASE Driver \/ PowerReturns \/ PowerFails \/ UNCHANGED vars
    BY <1>1, <1>5 DEF Driver, PowerReturns, PowerFails, storeVars, vars
<1>6. CASE Load \/ FormateSystemParameter \/ ProcessMachineMatchTestType \/ AutoBackUpSystem
           \/ HandlerDefaultPassword \/ SaveNext \/ Saved \/ DayDirectory \/ BackedUp
           \/ RecoverNext \/ RecoverEnds \/ SystemSoftwareReset
    <2>1. UNCHANGED files
        BY <1>6 DEF Load, FormateSystemParameter, ProcessMachineMatchTestType, AutoBackUpSystem,
                    HandlerDefaultPassword, SaveNext, Saved, DayDirectory, BackedUp, RecoverNext, RecoverEnds,
                    SystemSoftwareReset, Untouched
    <2> QED BY <1>1, <2>1
<1>7. CASE User
    BY <1>1, <1>7 DEF User, PageSaves, KeptIsSet, SystemBackup, SystemRestore, Untouched
<1> QED BY <1>3, <1>4, <1>5, <1>6, <1>7 DEF Next, Foreground

LEMMA HistoryTyped ==
    ASSUME KInv, \A a \in Area : snapshot[a] \in Content(a), made \in BOOLEAN,
           lost \subseteq Area, outdated \subseteq Area, unread \subseteq Area, result \in {"ok", "failed"}, [Next]_vars
    PROVE  /\ \A a \in Area : (snapshot[a] \in Content(a))'
           /\ made' \in BOOLEAN /\ lost' \subseteq Area /\ outdated' \subseteq Area /\ unread' \subseteq Area
           /\ result' \in {"ok", "failed"}
<1>1. snapshot' = snapshot \/ snapshot' = ram
    BY DEF Next, Foreground, User, Load, FormateSystemParameter, ProcessMachineMatchTestType, AutoBackUpSystem,
           HandlerDefaultPassword, SaveNext, Saved, Driver, DayDirectory, BackupOpens, BackupWrites, BackedUp, RecoverNext,
           RecoverEnds, SystemSoftwareReset, PageSaves, KeptIsSet, SystemBackup, SystemRestore, PowerFails,
           PowerReturns, Untouched, vars, storeVars, storeHistory
<1>2. \A a \in Area : (snapshot[a] \in Content(a))'
    BY <1>1 DEF KInv, RamOK, SetOK, Content
<1>3. made' \in BOOLEAN /\ result' \in {"ok", "failed"}
    BY DEF Next, Foreground, User, Load, FormateSystemParameter, ProcessMachineMatchTestType, AutoBackUpSystem,
           HandlerDefaultPassword, SaveNext, Saved, Driver, DayDirectory, BackupOpens, BackupWrites, BackedUp, RecoverNext,
           RecoverEnds, SystemSoftwareReset, PageSaves, KeptIsSet, SystemBackup, SystemRestore, PowerFails,
           PowerReturns, Untouched, vars, storeVars
<1>4. unread' \subseteq Area
    <2>1. CASE RecoverNext
        <3>1. Head(todo) \in Area
            BY <2>1, TodoFacts DEF RecoverNext, KInv
        <3> QED BY <2>1, <3>1 DEF RecoverNext
    <2>2. CASE ~RecoverNext
        <3>1. unread' = unread \/ unread' = {}
            BY <2>2 DEF Next, Foreground, User, Load, FormateSystemParameter, ProcessMachineMatchTestType,
                AutoBackUpSystem, HandlerDefaultPassword, SaveNext, Saved, Driver, DayDirectory, BackupOpens, BackupWrites,
                BackedUp, RecoverEnds, SystemSoftwareReset, PageSaves, KeptIsSet, SystemBackup,
                SystemRestore, PowerFails, PowerReturns, Untouched, vars, storeHistory
        <3> QED BY <3>1
    <2> QED BY <2>1, <2>2
<1>5. lost' \subseteq Area
    <2>1. CASE PowerFails
        <3>1. ToSet(todo) \subseteq Area
            BY DEF ToSet, KInv, TodoOK
        <3> QED BY <2>1, <3>1 DEF PowerFails
    <2>2. CASE ~PowerFails
        <3>1. lost' \subseteq lost
            BY <2>2 DEF Next, Foreground, User, Load, FormateSystemParameter, ProcessMachineMatchTestType,
                AutoBackUpSystem, HandlerDefaultPassword, SaveNext, Saved, Driver, DayDirectory, BackupOpens, BackupWrites,
                BackedUp, RecoverNext, RecoverEnds, SystemSoftwareReset, PageSaves, KeptIsSet, SystemBackup,
                SystemRestore, PowerReturns, Untouched, vars, storeHistory
        <3> QED BY <3>1
    <2> QED BY <2>1, <2>2
<1>6. outdated' \subseteq Area
    <2>1. outdated' \subseteq outdated \/ outdated' = Area
        BY DEF Next, Foreground, User, Load, FormateSystemParameter, ProcessMachineMatchTestType,
               AutoBackUpSystem, HandlerDefaultPassword, SaveNext, Saved, Driver, DayDirectory, BackupOpens,
               BackupWrites, BackedUp, RecoverNext, RecoverEnds, SystemSoftwareReset, PageSaves, KeptIsSet,
               SystemBackup, SystemRestore, PowerFails, PowerReturns, Untouched, vars, storeHistory
    <2> QED BY <2>1
<1> QED BY <1>2, <1>3, <1>4, <1>5, <1>6

\* The memory, the flash, the files and what the foreground has still to do are
\* of their types: what is loaded, restored or left by a failure is never more
\* than the bits of its area, and no save order is longer than the areas are many.
THEOREM StoreTypeCorrect == Spec => []TypeOK
<1>1. Init => IInv /\ KInv /\ StoreTypes
    <2> SUFFICES ASSUME Init PROVE StoreTypes
        BY StoreInit, InitInv
    <2>1. NoFile \in File /\ \A p \in Places, a \in Area : files[p][a] = NoFile
        BY InArea DEF Init, NoFile, File, Content
    <2>2. \A a \in Area : snapshot[a] \in Content(a)
        BY ClearedOK DEF Init, SetOK
    <2>3. todo = <<>> /\ pc = "load" /\ result = "ok" /\ made = FALSE /\ lost = {}
          /\ outdated = {} /\ unread = {}
        BY DEF Init
    <2>4. \A p \in Places, a \in Area : files[p][a] \in File
        BY <2>1
    <2>5. Len(todo) <= 3 /\ made \in BOOLEAN
        <3>1. Len(todo) = 0
            BY <2>3
        <3>2. made \in BOOLEAN
            BY <2>3, Zenon
        <3> QED BY <3>1, <3>2
    <2> QED BY <2>2, <2>3, <2>4, <2>5 DEF StoreTypes, StorePcs
<1>2. KInv /\ StoreTypes /\ [Next]_vars => StoreTypes'
    <2> SUFFICES ASSUME KInv, StoreTypes, [Next]_vars PROVE StoreTypes'
        OBVIOUS
    <2>1. pc' \in StorePcs
        BY PcTyped DEF StoreTypes
    <2>2. Len(todo') <= 3
        BY TodoTyped DEF StoreTypes, KInv
    <2>3. \A p \in Places, a \in Area : (files[p][a] \in File)'
        BY FilesTyped DEF StoreTypes
    <2>4. /\ \A a \in Area : (snapshot[a] \in Content(a))'
          /\ made' \in BOOLEAN /\ lost' \subseteq Area /\ outdated' \subseteq Area /\ unread' \subseteq Area
          /\ result' \in {"ok", "failed"}
        BY HistoryTyped DEF StoreTypes
    <2> QED BY <2>1, <2>2, <2>3, <2>4 DEF StoreTypes
<1>3. IInv /\ KInv /\ [Next]_vars => IInv' /\ KInv'
    BY StoreStep
<1>4. FlashTypeOK /\ KInv /\ StoreTypes => TypeOK
    <2> SUFFICES ASSUME FlashTypeOK, KInv, StoreTypes PROVE TypeOK
        OBVIOUS
    <2>1. \A a \in Area : ram[a] \in Content(a) /\ kept[a] \subseteq Kept[a] /\ snapshot[a] \in Content(a)
        BY DEF KInv, RamOK, SetOK, KeptOK, StoreTypes
    <2>2. pc \in DOMAIN AfterSave \cup DOMAIN Source \cup Places \cup {Opened[p] : p \in Places}
                 \cup {"load", "reload", "format?", "match?", "backup?", "password?", "mkdir", "main", "restored"}
        <3>1. "sys" \in Places /\ "day" \in Places /\ Opened["sys"] = "sys+" /\ Opened["day"] = "day+"
            BY DEF Places, Opened
        <3>2. "sys+" \in {Opened[p] : p \in Places} /\ "day+" \in {Opened[p] : p \in Places}
            BY <3>1
        <3> QED BY <3>1, <3>2, Domains DEF StoreTypes, StorePcs
    <2>3. ToSet(todo) \subseteq Area /\ Len(todo) <= 3
        BY DEF ToSet, KInv, TodoOK, StoreTypes
    <2>4. \A p \in Places, a \in Area : files[p][a] \in File /\ files[p][a].data \in Content(a)
        BY DEF KInv, FilesOK, StoreTypes
    <2> QED BY <2>1, <2>2, <2>3, <2>4 DEF TypeOK, StoreTypes
<1>5. Spec => []FlashTypeOK
    BY StoreUsesFlash, FlashTypeCorrect
<1> QED BY <1>1, <1>2, <1>3, <1>4, <1>5, PTL DEF Spec

-----------------------------------------------------------------------------
(* The backups.                                                            *)

\* The files of the day are written from the RAM as it was when their backup
\* began; without the directory there are none.
DatedInv ==
    /\ DatedIsOneState
    /\ pc \in {"mkdir", "day", "day+"} => ram = snapshot
    /\ pc \in {"day", "day+"} => made
    /\ ~made => \A a \in Area : files["day"][a] = NoFile

\* Where the flash is to be what the RAM is: from a load to the backup of the
\* day, and from the saves before a backup or after a restore to their end.
InStep == {"format?", "match?", "match", "backup?", "mkdir", "day", "day+", "backup", "sys", "sys+",
           "restore", "restored"}

PendingHere(a) == pc \in {"match", "backup", "restore"} /\ a \in ToSet(todo)

WritesRam == write # NoWrite => write.data = ram[write.area]

SyncInv == pc \in InStep => \A a \in Reached : ram[a] = flash[a] \/ WriteUnderWay(a) \/ PendingHere(a)

FlashInv == WritesRam /\ SyncInv

\* The RAM holds what the file of an area says, as far as it was read.
FromFile(p, a) ==
    /\ files[p][a].state # "none"
    /\ files[p][a].state = "whole" /\ a \notin unread => ram[a] \ Kept[a] = files[p][a].data \ Kept[a]

RestoreInv ==
    /\ pc \in DOMAIN Source /\ result = "ok" => \A a \in Area \ ToSet(todo) : FromFile(Source[pc], a)
    /\ pc \in {"restore", "restored"} => \E p \in Places : \A a \in Area : FromFile(p, a)

-----------------------------------------------------------------------------
(* The files of the day.                                                   *)

LEMMA DatedSame ==
    ASSUME DatedInv, UNCHANGED <<files, made, snapshot, outdated>>,
           pc' \in {"mkdir", "day", "day+"} => ram' = ram /\ pc \in {"mkdir", "day", "day+"},
           pc' \in {"day", "day+"} => made
    PROVE  DatedInv'
BY DEF DatedInv, DatedIsOneState

\* A backup begins: there is no file, or none that counts until it is opened.
LEMMA DatedBegins == ASSUME DatedInv, AutoBackUpSystem PROVE DatedInv'
<1>1. UNCHANGED <<ram, files, made>> /\ pc = "backup?"
    BY DEF AutoBackUpSystem
<1>2. CASE pc' = "password?" /\ UNCHANGED <<snapshot, outdated>>
    BY <1>1, <1>2, DatedSame
<1>3. CASE pc' = "mkdir" /\ snapshot' = ram /\ outdated' = IF made THEN Area ELSE {}
    <2>1. ~made => \A a \in Area : files'["day"][a].state = "none"
        BY <1>1 DEF DatedInv, NoFile
    <2>2. DatedIsOneState'
        BY <1>1, <1>3, <2>1 DEF DatedIsOneState
    <2> QED BY <1>1, <1>3, <2>2 DEF DatedInv
<1> QED BY <1>2, <1>3 DEF AutoBackUpSystem, Goes

LEMMA DatedDirectory == ASSUME DatedInv, DayDirectory PROVE DatedInv'
<1>1. pc = "mkdir" /\ UNCHANGED <<ram, files, snapshot, outdated>>
    BY DEF DayDirectory
<1>2. (made' = TRUE /\ pc' = "day") \/ (pc' = "mkdir" /\ UNCHANGED made)
    BY DEF DayDirectory, Goes
<1> QED BY <1>1, <1>2 DEF DatedInv, DatedIsOneState

\* A file that was opened holds nothing, whether the opening is reported to have
\* failed or not.
LEMMA DatedOpens == ASSUME KInv, DatedInv, BackupOpens PROVE DatedInv'
<1>1. pc \in {"sys", "day"} /\ Head(todo) \in Area /\ FilesOK /\ UNCHANGED <<ram, made, snapshot>>
    BY TodoFacts, PlacesAre DEF BackupOpens, KInv
<1>2. pc' \in {"mkdir", "day", "day+"} => pc = "day"
    BY <1>1, PlacesAre DEF BackupOpens, Goes
<1>3. \A a \in Area : files'["day"][a] = files["day"][a] \/ (pc = "day" /\ files'["day"][a] = Empty)
    <2>1. CASE UNCHANGED files
        BY <2>1
    <2>2. CASE files' = [files EXCEPT ![pc][Head(todo)] = Empty]
        BY <1>1, <2>2, FileAt, PlacesAre
    <2> QED BY <2>1, <2>2 DEF BackupOpens
<1>4. /\ outdated' \subseteq outdated
      /\ \A a \in outdated \ outdated' : files'["day"][a] = Empty
    <2>1. CASE UNCHANGED outdated
        BY <2>1
    <2>2. CASE /\ files' = [files EXCEPT ![pc][Head(todo)] = Empty]
               /\ pc = "day" /\ outdated' = outdated \ {Head(todo)}
        <3>1. "day" \in Places /\ files' = [files EXCEPT !["day"][Head(todo)] = Empty]
            BY <2>2, PlacesAre
        <3>2. files'["day"][Head(todo)] = Empty
            BY <1>1, <3>1 DEF FilesOK
        <3>3. \A a \in outdated \ outdated' : a = Head(todo)
            BY <2>2
        <3> QED BY <2>2, <3>2, <3>3
    <2> QED BY <2>1, <2>2 DEF BackupOpens
<1>5. DatedIsOneState'
    BY <1>1, <1>3, <1>4 DEF DatedInv, DatedIsOneState, Empty
<1>6. pc = "day" => made /\ ram = snapshot
    BY DEF DatedInv
<1> QED BY <1>1, <1>2, <1>3, <1>5, <1>6 DEF DatedInv

LEMMA DatedWrites == ASSUME KInv, DatedInv, BackupWrites PROVE DatedInv'
<1>1. PICK place \in Places :
        /\ pc = Opened[place] /\ pc' = NextFile[place] /\ todo # <<>>
        /\ UNCHANGED <<ram, made, snapshot, outdated>>
        /\ UNCHANGED files \/ files' = [files EXCEPT ![place][Head(todo)] = Whole(ram[Head(todo)])]
    BY DEF BackupWrites, Goes
<1>2. Head(todo) \in Area /\ FilesOK /\ "day" \in Places
    BY <1>1, TodoFacts, PlacesAre DEF KInv
<1>3. (place = "day") = (pc = "day+") /\ (pc' \in {"mkdir", "day", "day+"} => pc' = "mkdir" /\ place = "day")
    BY <1>1, PlacesAre
<1>4. CASE UNCHANGED files
    BY <1>1, <1>3, <1>4, DatedSame
<1>5. CASE files' = [files EXCEPT ![place][Head(todo)] = Whole(ram[Head(todo)])]
    <2>1. \A a \in Area : \/ files'["day"][a] = files["day"][a]
                          \/ place = "day" /\ files'["day"][a].data = ram[a]
        BY <1>2, <1>5, FileAt DEF Whole
    <2>2. place = "day" => ram = snapshot /\ made
        BY <1>3 DEF DatedInv
    <2>3. DatedIsOneState'
        BY <1>1, <2>1, <2>2 DEF DatedInv, DatedIsOneState
    <2>4. ~made => \A a \in Area : files'["day"][a] = NoFile
        BY <2>1, <2>2 DEF DatedInv
    <2> QED BY <1>1, <1>3, <2>2, <2>3, <2>4 DEF DatedInv
<1> QED BY <1>1, <1>4, <1>5

LEMMA DatedStep == ASSUME KInv, DatedInv, [Next]_vars PROVE DatedInv'
<1>1. CASE UNCHANGED vars \/ Driver \/ PowerReturns
    <2>1. UNCHANGED <<ram, pc, files, made, snapshot, outdated>>
        BY <1>1 DEF vars, Driver, PowerReturns, storeVars, storeHistory
    <2>2. pc' \in {"day", "day+"} => made
        BY <2>1 DEF DatedInv
    <2> QED BY <2>1, <2>2, DatedSame
<1>2. CASE \/ Load \/ FormateSystemParameter \/ ProcessMachineMatchTestType \/ HandlerDefaultPassword
           \/ SaveNext \/ Saved \/ RecoverNext \/ RecoverEnds \/ SystemSoftwareReset \/ BackedUp
    <2>1. UNCHANGED <<files, made, snapshot, outdated>>
        BY <1>2 DEF Load, FormateSystemParameter, ProcessMachineMatchTestType, HandlerDefaultPassword,
                    SaveNext, Saved, RecoverNext, RecoverEnds, SystemSoftwareReset, BackedUp, Untouched
    <2>2. pc' \notin {"mkdir", "day", "day+"}
        BY <1>2, Domains DEF Load, FormateSystemParameter, ProcessMachineMatchTestType, HandlerDefaultPassword,
                    SaveNext, Saved, RecoverNext, RecoverEnds, SystemSoftwareReset, BackedUp, Goes, AfterSave
    <2> QED BY <2>1, <2>2, DatedSame
<1>3. CASE User \/ PowerFails
    <2>1. UNCHANGED <<files, made, snapshot, outdated>>
        BY <1>3 DEF User, PageSaves, KeptIsSet, SystemBackup, SystemRestore, PowerFails, Untouched
    <2>2. pc' \notin {"mkdir", "day", "day+"}
        BY <1>3, Domains DEF User, PageSaves, KeptIsSet, SystemBackup, SystemRestore, PowerFails, Goes
    <2> QED BY <2>1, <2>2, DatedSame
<1> QED BY <1>1, <1>2, <1>3, DatedBegins, DatedDirectory, DatedOpens, DatedWrites DEF Next, Foreground

\* The files of an automatic backup come from one start of the machine, for
\* every layout of the areas, and wherever and however often the power is cut
\* and files fail; only a backup of the same day that begins again, because the
\* card did not show the directory, can leave older files beside its own, and
\* those are the ones it has not opened.
THEOREM DatedBackupIsOneState == Spec => []DatedIsOneState
<1>1. Init => IInv /\ KInv /\ DatedInv
    <2> SUFFICES ASSUME Init PROVE IInv /\ KInv /\ DatedInv
        OBVIOUS
    <2>1. \A a \in Area : files["day"][a] = NoFile
        BY DEF Init, Places
    <2>2. pc = "load"
        BY DEF Init
    <2>3. NoFile.state = "none"
        BY DEF NoFile
    <2>4. DatedInv
        BY <2>1, <2>2, <2>3 DEF DatedInv, DatedIsOneState
    <2> QED BY <2>4, StoreInit, InitInv
<1>2. IInv /\ KInv /\ DatedInv /\ [Next]_vars => IInv' /\ KInv' /\ DatedInv'
    BY StoreStep, DatedStep
<1>3. DatedInv => DatedIsOneState
    BY DEF DatedInv
<1> QED BY <1>1, <1>2, <1>3, PTL DEF Spec

-----------------------------------------------------------------------------
(* The flash and the RAM.                                                  *)

\* Nothing is under way and the step that follows is one of those in which the
\* flash is what the RAM is, or none of them.
LEMMA FlashSettled ==
    ASSUME write' = NoWrite, pc' \in InStep => \A a \in Reached : ram'[a] = flash'[a] \/ PendingHere(a)'
    PROVE  FlashInv'
BY DEF FlashInv, WritesRam, SyncInv

\* Outside the saves the flash is what the RAM is.
LEMMA InAgreement ==
    ASSUME KInv, FlashInv, pc \in InStep, write = NoWrite,
           pc \notin {"match", "backup", "restore"} \/ todo = <<>>
    PROVE  \A a \in Reached : ram[a] = flash[a]
<1>1. ToSet(<<>>) = {}
    BY DEF ToSet
<1> QED BY <1>1 DEF FlashInv, SyncInv, WriteUnderWay, PendingHere

LEMMA LoadFlash == ASSUME KInv, FlashInv, Load PROVE FlashInv'
<1>1. write = NoWrite /\ UNCHANGED <<flash, write>> /\ ram' = Loaded
    BY NotSaving, Domains DEF Load, flashVars
<1>2. \A a \in Reached : Loaded[a] = flash[a]
    BY InArea DEF Loaded
<1> QED BY <1>1, <1>2, FlashSettled

LEMMA DialogFlash ==
    ASSUME KInv, FlashInv, FormateSystemParameter \/ ProcessMachineMatchTestType \/ AutoBackUpSystem
    PROVE  FlashInv'
<1>1. write' = NoWrite /\ UNCHANGED flash /\ \A a \in Reached : ram[a] = flash[a]
    <2>1. pc \in InStep /\ pc \notin DOMAIN AfterSave /\ UNCHANGED <<flash, write>>
        BY Domains DEF FormateSystemParameter, ProcessMachineMatchTestType, AutoBackUpSystem, InStep, flashVars
    <2> QED BY <2>1, NotSaving, InAgreement, Domains
<1>2. CASE FormateSystemParameter
    <2>1. pc' = "format" \/ UNCHANGED ram
        BY <1>2 DEF FormateSystemParameter, Goes
    <2> QED BY <1>1, <2>1, FlashSettled DEF InStep
<1>3. CASE ProcessMachineMatchTestType
    <2>1. CASE UNCHANGED ram
        BY <1>1, <2>1, FlashSettled
    <2>2. CASE ram' = [ram EXCEPT !["pcm"] = ram["pcm"] \cap Kept["pcm"]] /\ Goes("match", <<"pcm">>)
        <3>1. \A a \in Area \ {"pcm"} : ram'[a] = ram[a]
            BY <2>2, InArea DEF KInv, RamOK, SetOK
        <3>2. PendingHere("pcm")'
            BY <2>2, AreaFacts, InArea DEF PendingHere, Goes
        <3> QED BY <1>1, <3>1, <3>2, InArea, FlashSettled
    <2> QED BY <1>3, <2>1, <2>2 DEF ProcessMachineMatchTestType
<1>4. CASE AutoBackUpSystem
    BY <1>1, <1>4, FlashSettled DEF AutoBackUpSystem
<1> QED BY <1>2, <1>3, <1>4

\* A backup writes files; what it is made of does not change.
LEMMA FilesFlash == ASSUME KInv, FlashInv, DayDirectory \/ BackupOpens \/ BackupWrites \/ BackedUp PROVE FlashInv'
<1>1. pc \in {"mkdir", "day", "sys", "day+", "sys+"} /\ UNCHANGED <<flash, write, ram>>
    BY PlacesAre DEF DayDirectory, BackupOpens, BackupWrites, BackedUp, flashVars
<1>2. write = NoWrite /\ \A a \in Reached : ram[a] = flash[a]
    BY <1>1, NotSaving, InAgreement, Domains DEF InStep
<1> QED BY <1>1, <1>2, FlashSettled

LEMMA ElsewhereFlash ==
    ASSUME KInv, HandlerDefaultPassword \/ RecoverNext \/ SystemSoftwareReset
                 \/ PageSaves \/ KeptIsSet \/ SystemRestore \/ PowerFails
    PROVE  FlashInv'
<1>1. pc' \notin InStep
    BY Domains DEF HandlerDefaultPassword, RecoverNext, SystemSoftwareReset, PageSaves, KeptIsSet,
                   SystemRestore, PowerFails, Goes, InStep
<1>2. CASE PowerFails
    BY <1>1, <1>2, FlashSettled DEF PowerFails, PowerCut, Finished
<1>3. CASE ~PowerFails
    <2>1. pc \notin DOMAIN AfterSave /\ UNCHANGED write
        BY <1>3, Domains DEF HandlerDefaultPassword, RecoverNext, SystemSoftwareReset, PageSaves, KeptIsSet,
                             SystemRestore, flashVars
    <2> QED BY <1>1, <2>1, NotSaving, FlashSettled
<1> QED BY <1>2, <1>3

\* All areas are about to be saved.
LEMMA AllFlash == ASSUME KInv, SystemBackup \/ RecoverEnds PROVE FlashInv'
<1>1. write' = NoWrite
    BY NotSaving, Domains DEF SystemBackup, RecoverEnds, flashVars
<1>2. pc' = "main" \/ (pc' \in {"backup", "restore"} /\ todo' = AllAreas)
    BY DEF SystemBackup, RecoverEnds, Goes
<1>3. pc' \in InStep => \A a \in Reached : PendingHere(a)'
    BY <1>2, AreaFacts, InArea DEF InStep, PendingHere
<1> QED BY <1>1, <1>3, FlashSettled

LEMMA SaveFlash == ASSUME KInv, FlashInv, SaveNext PROVE FlashInv'
<1>1. /\ pc \in DOMAIN AfterSave /\ todo # <<>> /\ pc' = pc /\ todo' = Tail(todo)
      /\ UNCHANGED <<ram, flash>> /\ write = NoWrite
    BY DEF SaveNext, Goes, sf_WriteBuffer, Idle
<1>2. PICK a \in Area : a = Head(todo) /\ ToSet(todo) \subseteq {a} \cup ToSet(todo')
    BY <1>1, TodoFacts DEF KInv
<1>3. ram[a] \in Content(a)
    BY <1>2 DEF KInv, RamOK, SetOK
<1>4. CASE a \in Reached
    <2>1. write' = [area |-> a, data |-> ram[a]]
        BY <1>2, <1>4 DEF SaveNext, sf_WriteBuffer
    <2>2. write' # NoWrite /\ write'.area = a /\ write'.data = ram[a]
        BY <1>2, <1>3, <2>1, RequestRecord
    <2>3. WritesRam' /\ WriteUnderWay(a)'
        BY <1>1, <2>2 DEF WritesRam, WriteUnderWay
    <2>4. SyncInv'
        BY <1>1, <1>2, <2>3 DEF FlashInv, SyncInv, WriteUnderWay, PendingHere
    <2> QED BY <2>3, <2>4 DEF FlashInv
<1>5. CASE a \notin Reached
    <2>1. write' = NoWrite
        BY <1>1, <1>2, <1>5 DEF SaveNext, sf_WriteBuffer
    <2>2. pc' \in InStep => \A b \in Reached : ram'[b] = flash'[b] \/ PendingHere(b)'
        BY <1>1, <1>2, <1>5 DEF FlashInv, SyncInv, WriteUnderWay, PendingHere
    <2> QED BY <2>1, <2>2, FlashSettled
<1> QED BY <1>4, <1>5

LEMMA SavedFlash == ASSUME KInv, FlashInv, Saved PROVE FlashInv'
<1>1. /\ pc \in DOMAIN AfterSave /\ todo = <<>> /\ write = NoWrite /\ UNCHANGED <<flash, write>>
      /\ ram' = IF pc = "restore" THEN Loaded ELSE ram
      /\ pc' = AfterSave[pc]
    BY DEF Saved, Goes, flashVars, Idle
<1>2. pc \notin InStep => pc' \notin InStep
    BY <1>1, Domains DEF AfterSave, InStep
<1>3. pc \in InStep => \A a \in Reached : ram[a] = flash[a]
    BY <1>1, InAgreement
<1>4. \A a \in Reached : Loaded[a] = flash[a]
    BY InArea DEF Loaded
<1> QED BY <1>1, <1>2, <1>3, <1>4, FlashSettled

LEMMA DriverFlash == ASSUME IInv, KInv, FlashInv, Driver PROVE FlashInv'
<1>1. UNCHANGED <<ram, pc, todo>>
    BY RestSame DEF Driver
<1>2. CASE sf_EraseSector \/ sf_PageWrite
    <2>1. write # NoWrite /\ OneSector(write.area) /\ SectorsOK
        BY <1>2, ErasedSector, ProgrammedSector DEF IInv
    <2>2. UNCHANGED write
        BY <1>2 DEF sf_EraseSector, sf_PageWrite
    <2>3. \A a \in Area : a # write.area => flash'[a] = flash[a]
        BY <2>1 DEF OneSector, SectorsOK
    <2> QED BY <1>1, <2>1, <2>2, <2>3, InArea DEF FlashInv, WritesRam, SyncInv, WriteUnderWay, PendingHere
<1>3. CASE (Compare \/ sf_CmpData) /\ ~Finished
    <2>1. UNCHANGED <<flash, write>>
        BY <1>3 DEF Compare, sf_CmpData
    <2> QED BY <1>1, <2>1 DEF FlashInv, WritesRam, SyncInv, WriteUnderWay, PendingHere
<1>4. CASE (Compare \/ sf_CmpData) /\ Finished
    <2>1. write' = NoWrite /\ UNCHANGED flash
        BY <1>4 DEF Compare, sf_CmpData, Finished
    <2>2. write # NoWrite /\ flash[write.area] = write.data
        BY <1>4, SaveEnds
    <2>3. pc' \in InStep => \A a \in Reached : ram'[a] = flash'[a] \/ PendingHere(a)'
        BY <1>1, <2>1, <2>2 DEF FlashInv, WritesRam, SyncInv, WriteUnderWay, PendingHere
    <2> QED BY <2>1, <2>3, FlashSettled
<1> QED BY <1>2, <1>3, <1>4 DEF Driver, FlashStep

LEMMA FlashStays == ASSUME FlashInv, UNCHANGED <<flash, write, ram, pc, todo>> PROVE FlashInv'
BY DEF FlashInv, WritesRam, SyncInv, WriteUnderWay, PendingHere

LEMMA FlashInvStep == ASSUME IInv, KInv, FlashInv, [Next]_vars PROVE FlashInv'
<1>1. CASE UNCHANGED vars
    BY <1>1, FlashStays DEF vars, flashVars, storeVars
<1>2. CASE PowerReturns
    BY <1>2, FlashStays DEF PowerReturns, PowerOn, storeVars
<1>3. CASE Foreground
    BY <1>3, LoadFlash, DialogFlash, ElsewhereFlash, SaveFlash, SavedFlash, DriverFlash, FilesFlash, AllFlash
       DEF Foreground
<1>4. CASE User \/ PowerFails
    BY <1>4, ElsewhereFlash, AllFlash DEF User
<1> QED BY <1>1, <1>2, <1>3, <1>4 DEF Next

\* What a backup writes is what the next start would load, for every layout of
\* the areas and however often the chip fails or the power is cut before.
THEOREM BackupsAreOfTheFlash == Spec => []BackupIsOfTheFlash
<1>1. Init => IInv /\ KInv /\ FlashInv
    <2>1. Init => FlashInv
        BY DEF Init, FlashInit, FlashInv, WritesRam, SyncInv, InStep
    <2> QED BY <2>1, StoreInit, InitInv
<1>2. IInv /\ KInv /\ FlashInv /\ [Next]_vars => IInv' /\ KInv' /\ FlashInv'
    BY StoreStep, FlashInvStep
<1>3. KInv /\ FlashInv => BackupIsOfTheFlash
    <2> SUFFICES ASSUME KInv, FlashInv, pc \in {"sys", "day", "sys+", "day+"}
                 PROVE  \A a \in Reached : ram[a] = flash[a]
        BY DEF BackupIsOfTheFlash, Places, Opened
    <2> QED BY NotSaving, InAgreement, Domains DEF InStep
<1> QED BY <1>1, <1>2, <1>3, PTL DEF Spec

-----------------------------------------------------------------------------
(* The restore.                                                            *)

LEMMA RestoreSame ==
    ASSUME RestoreInv, UNCHANGED <<ram, pc, todo, result, files, unread>>
    PROVE  RestoreInv'
BY DEF RestoreInv, FromFile

\* Steps that lead to no part of a restore.
LEMMA RestoreElsewhere ==
    ASSUME pc' \notin {"recoverSys", "recoverDay", "restore", "restored"}
    PROVE  RestoreInv'
BY Domains DEF RestoreInv

LEMMA RestoreBegins == ASSUME SystemRestore PROVE RestoreInv'
<1>1. pc' \in DOMAIN Source /\ ToSet(todo') = Area
    BY AreaFacts DEF SystemRestore, Goes
<1> QED BY <1>1, Domains DEF RestoreInv

\* An area of which nothing is said to have failed has come from its file.
LEMMA RestoreReads == ASSUME KInv, RestoreInv, RecoverNext PROVE RestoreInv'
<1>1. /\ pc \in DOMAIN Source /\ todo # <<>> /\ pc' = pc /\ todo' = Tail(todo)
      /\ UNCHANGED files /\ unread \subseteq unread'
    BY DEF RecoverNext, Goes
<1>2. PICK a \in Area : a = Head(todo) /\ ToSet(todo) \subseteq {a} \cup ToSet(todo')
    BY <1>1, TodoFacts DEF KInv
<1>3. PICK p \in Places : p = Source[pc]
    BY <1>1 DEF Source, Places
<1>4. \A b \in Area \ {a} : ram'[b] = ram[b]
    BY <1>2 DEF RecoverNext, KInv, RamOK, SetOK
<1>5. result' = "ok" => result = "ok" /\ FromFile(p, a)'
    <2>1. CASE /\ ram' = [ram EXCEPT ![a] = IF files[p][a].state = "whole"
                                            THEN Recovered(a, ram[a], files[p][a].data) ELSE ram[a]]
               /\ result' = IF files[p][a].state = "none" THEN "failed" ELSE result
        <3>1. ram'[a] = IF files[p][a].state = "whole" THEN Recovered(a, ram[a], files[p][a].data) ELSE ram[a]
            BY <2>1 DEF KInv, RamOK, SetOK
        <3> QED BY <1>1, <2>1, <3>1 DEF FromFile, Recovered
    <2>2. CASE result' = "failed"
        BY <2>2
    <2>3. CASE files[p][a].state = "whole" /\ unread' = unread \cup {a} /\ UNCHANGED result
        BY <1>1, <2>3 DEF FromFile
    <2> QED BY <1>2, <1>3, <2>1, <2>2, <2>3 DEF RecoverNext
<1>6. \A b \in Area \ {a} : FromFile(p, b) => FromFile(p, b)'
    BY <1>1, <1>4 DEF FromFile
<1>7. result' = "ok" => \A b \in Area \ ToSet(todo') : FromFile(p, b)'
    BY <1>1, <1>2, <1>3, <1>5, <1>6 DEF RestoreInv
<1> QED BY <1>1, <1>3, <1>7, Domains DEF RestoreInv

LEMMA RestoreSaves == ASSUME RestoreInv, RecoverEnds PROVE RestoreInv'
<1>1. CASE result = "ok"
    <2>1. pc \in DOMAIN Source /\ ToSet(todo) = {} /\ pc' = "restore" /\ UNCHANGED <<ram, files, unread>>
        BY <1>1 DEF RecoverEnds, Goes, Untouched, ToSet
    <2>2. PICK p \in Places : p = Source[pc]
        BY <2>1 DEF Source, Places
    <2>3. \A a \in Area : FromFile(p, a)
        BY <1>1, <2>1, <2>2 DEF RestoreInv
    <2>4. \A a \in Area : FromFile(p, a)'
        BY <2>1, <2>3 DEF FromFile
    <2> QED BY <2>1, <2>4, Domains DEF RestoreInv
<1>2. CASE result # "ok"
    BY <1>2, RestoreElsewhere DEF RecoverEnds, Goes
<1> QED BY <1>1, <1>2

\* The saves that follow change neither the RAM nor the files; the RAM they end
\* with is the flash, which is the RAM.
LEMMA RestoreSaved == ASSUME KInv, FlashInv, RestoreInv, SaveNext \/ Saved PROVE RestoreInv'
<1>1. CASE pc # "restore"
    BY <1>1, RestoreElsewhere, Domains DEF SaveNext, Saved, Goes, AfterSave
<1>2. CASE pc = "restore"
    <2>1. pc' \in {"restore", "restored"} /\ UNCHANGED <<files, unread>>
        BY <1>2 DEF SaveNext, Saved, Goes, AfterSave, Untouched
    <2>2. \A a \in Area : ram'[a] = ram[a]
        <3>1. CASE SaveNext
            BY <3>1 DEF SaveNext
        <3>2. CASE Saved
            <4>1. \A a \in Reached : ram[a] = flash[a]
                BY <1>2, <3>2, InAgreement DEF Saved, Idle, InStep
            <4> QED BY <1>2, <3>2, <4>1 DEF Saved, Loaded
        <3> QED BY <3>1, <3>2
    <2>3. PICK p \in Places : \A a \in Area : FromFile(p, a)
        BY <1>2 DEF RestoreInv
    <2>4. \A a \in Area : FromFile(p, a)'
        BY <2>1, <2>2, <2>3 DEF FromFile
    <2> QED BY <2>1, <2>4, Domains DEF RestoreInv
<1> QED BY <1>1, <1>2

LEMMA RestoreStep == ASSUME KInv, FlashInv, RestoreInv, [Next]_vars PROVE RestoreInv'
<1>1. CASE UNCHANGED vars \/ Driver \/ PowerReturns
    BY <1>1, RestoreSame DEF vars, Driver, PowerReturns, storeVars, storeHistory
<1>2. CASE Load \/ FormateSystemParameter \/ ProcessMachineMatchTestType \/ AutoBackUpSystem
           \/ HandlerDefaultPassword \/ DayDirectory \/ BackupOpens \/ BackupWrites \/ BackedUp
           \/ SystemSoftwareReset
    BY <1>2, RestoreElsewhere, PlacesAre
       DEF Load, FormateSystemParameter, ProcessMachineMatchTestType, AutoBackUpSystem, HandlerDefaultPassword,
           DayDirectory, BackupOpens, BackupWrites, BackedUp, SystemSoftwareReset, Goes
<1>3. CASE PageSaves \/ KeptIsSet \/ SystemBackup \/ PowerFails
    BY <1>3, RestoreElsewhere DEF PageSaves, KeptIsSet, SystemBackup, PowerFails, Goes
<1>4. CASE SystemRestore \/ RecoverNext \/ RecoverEnds \/ SaveNext \/ Saved
    BY <1>4, RestoreBegins, RestoreReads, RestoreSaves, RestoreSaved
<1> QED BY <1>1, <1>2, <1>3, <1>4 DEF Next, Foreground, User

\* When the user is told that the system is restored, the flash holds one backup
\* as it was made, but for files that were cut short or not read to their end.
THEOREM RestoredBackupIsWhole == Spec => []RestoredIsBackup
<1>1. Init => IInv /\ KInv /\ FlashInv /\ RestoreInv
    <2>1. Init => FlashInv
        BY DEF Init, FlashInit, FlashInv, WritesRam, SyncInv, InStep
    <2>2. Init => RestoreInv
        BY Domains DEF Init, RestoreInv
    <2> QED BY <2>1, <2>2, StoreInit, InitInv
<1>2. IInv /\ KInv /\ FlashInv /\ RestoreInv /\ [Next]_vars => IInv' /\ KInv' /\ FlashInv' /\ RestoreInv'
    BY StoreStep, FlashInvStep, RestoreStep
<1>3. KInv /\ FlashInv /\ RestoreInv => RestoredIsBackup
    <2> SUFFICES ASSUME KInv, FlashInv, RestoreInv, pc = "restored" PROVE RestoredIsBackup
        BY DEF RestoredIsBackup
    <2>1. \A a \in Reached : ram[a] = flash[a]
        BY NotSaving, InAgreement, Domains DEF InStep
    <2>2. PICK p \in Places : \A a \in Area : FromFile(p, a)
        BY DEF RestoreInv
    <2> QED BY <2>1, <2>2 DEF FromFile, RestoredIsBackup
<1> QED BY <1>1, <1>2, <1>3, PTL DEF Spec
=============================================================================
