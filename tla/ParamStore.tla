----------------------------- MODULE ParamStore -----------------------------
(***************************************************************************)
(* The parameters of the machine: three areas (pcm.c, prm.c), each with a  *)
(* copy in RAM and a sector of the serial flash; the start-up that loads,  *)
(* formats and backs them up (initial.c); the pages that change and save   *)
(* them; the backup on a card and the restoring from it (SystemBackup.c,   *)
(* SystemRestore.c).  All of it is one foreground, which the power cut may *)
(* stop at every step.                                                     *)
(*                                                                         *)
(* The user's backup is one set of files ("sys", on the SD card or on a    *)
(* USB disk), the automatic one a directory named after the day; one day   *)
(* is modelled.  A file whose opening or writing was cut short or failed   *)
(* may hold nothing.                                                       *)
(***************************************************************************)
EXTENDS SpiFlash, Sequences, SequencesExt

CONSTANTS Kept,                 \* Kept[a]: the bits of area a that a restore keeps
          DEFAULT_PASSWORD,
          SaveOrders,           \* the areas a page saves, in its order
          MaxChanges,           \* bound: changes the user makes
          MaxMishaps            \* bound: power cuts and failures of the card

ASSUME StoreAssumption ==
    /\ Area = {"pcm", "prm", "prv"}
    /\ \A a \in Area : Kept[a] \subseteq Bits[a]
    /\ Kept["prv"] = {}
    /\ SaveOrders \subseteq Seq(Area) /\ \A areas \in SaveOrders : Len(areas) <= 3
    /\ DEFAULT_PASSWORD \subseteq Kept["pcm"] /\ DEFAULT_PASSWORD # {}

VARIABLES ram,          \* pcm_ram, prm_ram, prv_ram
          pc,           \* what the foreground is at
          todo,         \* the areas this loop has still to handle, in order
          result,       \* what the backup or restore under way will report
          files,        \* files[place][a] on the card
          made,         \* the directory of the day exists
          kept,         \* history: the password and the device's data as they were last set
          lost,         \* history: areas a power cut caught before a save had done with them
          snapshot,     \* history: the parameters when a backup of the day was last begun
          outdated,     \* history: areas whose file that backup found there and has not opened
          unread,       \* history: areas whose file this restore could not read to its end
          changes, mishaps         \* counters for the bounds

storeVars == <<ram, pc, todo, result, files, made>>
storeHistory == <<kept, lost, snapshot, outdated, unread, changes, mishaps>>
vars == <<flashVars, storeVars, storeHistory>>

AllAreas == <<"pcm", "prm", "prv">>
Places == {"sys", "day"}
NoFile == [state |-> "none", data |-> {}]
Empty == [state |-> "empty", data |-> {}]
Whole(data) == [state |-> "whole", data |-> data]
KeptOf(memory) == [a \in Area |-> memory[a] \cap Kept[a]]
Cleared == [a \in Area |-> {}]          \* .bss at a start of the program

Init ==
    /\ FlashInit
    /\ flash \in {[a \in Area |-> Blank(a)], [Cleared EXCEPT !["pcm"] = DEFAULT_PASSWORD]}
    /\ ram = Cleared /\ pc = "load" /\ todo = <<>> /\ result = "ok"
    /\ files = [p \in Places |-> [a \in Area |-> NoFile]] /\ made = FALSE
    /\ kept = KeptOf(flash) /\ lost = {} /\ snapshot = Cleared /\ outdated = {} /\ unread = {}
    /\ changes = 0 /\ mishaps = 0

Goes(to, areas) == pc' = to /\ todo' = areas
Mishap == mishaps < MaxMishaps /\ mishaps' = mishaps + 1
Untouched == UNCHANGED <<files, made, snapshot, outdated, unread, changes, mishaps>>

-----------------------------------------------------------------------------
(* The saves of a handler, one after the other; what follows them.         *)

AfterSave == [format |-> "reload", match |-> "backup?", password |-> "main", page |-> "main",
              backup |-> "sys", restore |-> "restored"]

SaveNext ==
    /\ pc \in DOMAIN AfterSave /\ todo # <<>>
    /\ sf_WriteBuffer(Head(todo), ram[Head(todo)])
    /\ Goes(pc, Tail(todo))
    /\ UNCHANGED <<ram, result, kept, lost>> /\ Untouched

\* FormateSystemParameterExecuteBody and the restore read back what they saved.
Loaded == [a \in Area |-> IF a \in Reached THEN flash[a] ELSE ram[a]]

Saved ==
    /\ pc \in DOMAIN AfterSave /\ todo = <<>> /\ Idle
    /\ ram' = IF pc = "restore" THEN Loaded ELSE ram
    /\ Goes(AfterSave[pc], IF pc = "backup" THEN AllAreas ELSE <<>>)
    /\ UNCHANGED <<flashVars, result, kept, lost>> /\ Untouched

-----------------------------------------------------------------------------
(* LoadSystemSetupPage.                                                    *)

Load ==                 \* pcm_read, prm_read, prv_read
    /\ power = "on" /\ pc \in {"load", "reload"}
    /\ ram' = Loaded
    /\ Goes(IF pc = "load" THEN "format?" ELSE "match?", <<>>)
    /\ UNCHANGED <<flashVars, result, kept, lost>> /\ Untouched

FormatInsists ==        \* mutant: who refuses is asked again
    /\ pc = "format?"
    /\ \/ /\ \A a \in Area : ram[a] = Blank(a)
          /\ ram' = Cleared /\ kept' = Cleared /\ lost' = {}
          /\ Goes("format", AllAreas)
       \/ /\ Goes(IF \A a \in Area : ram[a] = Blank(a) THEN "load" ELSE "match?", <<>>)
          /\ UNCHANGED <<ram, kept, lost>>
    /\ UNCHANGED <<flashVars, result>> /\ Untouched

FormateSystemParameter ==       \* the user may refuse
    /\ pc = "format?"
    /\ \/ /\ \A a \in Area : ram[a] = Blank(a)
          /\ ram' = Cleared /\ kept' = Cleared /\ lost' = {}
          /\ Goes("format", AllAreas)
       \/ Goes("match?", <<>>) /\ UNCHANGED <<ram, kept, lost>>
    /\ UNCHANGED <<flashVars, result>> /\ Untouched

ProcessMachineMatchTestType ==  \* whether the test fits the machine is left open
    /\ pc = "match?"
    /\ \/ Goes("backup?", <<>>) /\ UNCHANGED ram
       \/ ram' = [ram EXCEPT !["pcm"] = @ \cap Kept["pcm"]] /\ Goes("match", <<"pcm">>)
    /\ UNCHANGED <<flashVars, result, kept, lost>> /\ Untouched

BackUpMissing ==        \* mutant: a directory without all its files gets those it lacks
    /\ pc = "backup?"
    /\ IF \A a \in Area : files["day"][a].state = "whole"
       THEN Goes("password?", <<>>) /\ UNCHANGED snapshot
       ELSE /\ Goes("mkdir", SelectSeq(AllAreas, LAMBDA a : files["day"][a].state # "whole"))
            /\ snapshot' = ram
    /\ UNCHANGED <<flashVars, ram, result, files, made, kept, lost, outdated, unread, changes, mishaps>>

\* CheckBackUpFileExist only looks whether the directory can be opened: one that the
\* card fails to open counts as missing, and its files are written again.
AutoBackUpSystem ==
    /\ pc = "backup?"
    /\ \/ /\ made /\ Goes("password?", <<>>)
          /\ UNCHANGED <<snapshot, outdated, mishaps>>
       \/ /\ (made /\ Mishap) \/ (~made /\ UNCHANGED mishaps)
          /\ Goes("mkdir", AllAreas) /\ snapshot' = ram
          /\ outdated' = IF made THEN Area ELSE {}
    /\ UNCHANGED <<flashVars, ram, result, files, made, kept, lost, unread, changes>>

HandlerDefaultPassword ==
    /\ pc = "password?"
    /\ IF ram["pcm"] \cap Kept["pcm"] = {}
       THEN /\ ram' = [ram EXCEPT !["pcm"] = @ \cup DEFAULT_PASSWORD]
            /\ kept' = [kept EXCEPT !["pcm"] = DEFAULT_PASSWORD] /\ lost' = lost \ {"pcm"}
            /\ Goes("password", <<"pcm">>)
       ELSE Goes("main", <<>>) /\ UNCHANGED <<ram, kept, lost>>
    /\ UNCHANGED <<flashVars, result>> /\ Untouched

-----------------------------------------------------------------------------
(* The files of a backup; sf_WriteBuffer is not involved.                  *)

Opened == [day |-> "day+", sys |-> "sys+"]
NextFile == [day |-> "mkdir", sys |-> "sys"]

\* Each file of the day has the directory made first; that there is one is no matter.
\* Without "sys", or without the directory, the file cannot be opened; without a card
\* none of those that follow can.
DayDirectory ==
    /\ pc = "mkdir" /\ todo # <<>>
    /\ \/ made' = TRUE /\ Goes("day", todo) /\ UNCHANGED mishaps
       \/ Mishap /\ (\E rest \in {Tail(todo), <<>>} : Goes("mkdir", rest)) /\ UNCHANGED made
    /\ UNCHANGED <<flashVars, ram, result, files, kept, lost, snapshot, outdated, unread, changes>>

BackupOpens ==          \* f_open with FA_CREATE_ALWAYS, which may fail after it has emptied the file
    /\ pc \in Places /\ todo # <<>>
    /\ LET emptied == [files EXCEPT ![pc][Head(todo)] = Empty]
       IN \/ /\ files' = emptied
             /\ outdated' = IF pc = "day" THEN outdated \ {Head(todo)} ELSE outdated
             /\ Goes(Opened[pc], todo) /\ UNCHANGED <<result, mishaps>>
          \/ /\ Mishap
             /\ files' \in {files, emptied}
             /\ Goes(NextFile[pc], Tail(todo)) /\ result' = "failed" /\ UNCHANGED outdated
    /\ UNCHANGED <<flashVars, ram, made, kept, lost, snapshot, unread, changes>>

BackupWrites ==         \* f_write, whose result is not looked at, and f_close
    \E place \in Places :
        /\ pc = Opened[place] /\ todo # <<>>
        /\ \/ files' = [files EXCEPT ![place][Head(todo)] = Whole(ram[Head(todo)])] /\ UNCHANGED mishaps
           \/ Mishap /\ UNCHANGED files
        /\ Goes(NextFile[place], Tail(todo))
        /\ UNCHANGED <<flashVars, ram, result, made, kept, lost, snapshot, outdated, unread, changes>>

BackedUp ==             \* the user is told how it went, or nothing
    /\ pc \in {NextFile[p] : p \in Places} /\ todo = <<>>
    /\ Goes(IF pc = "mkdir" THEN "password?" ELSE "main", <<>>)
    /\ result' = "ok"
    /\ UNCHANGED <<flashVars, ram, kept, lost>> /\ Untouched

-----------------------------------------------------------------------------
(* The pages.                                                              *)

PageSaves ==            \* a page puts what was entered into RAM and saves
    /\ pc = "main" /\ changes < MaxChanges /\ changes' = changes + 1
    /\ \E areas \in SaveOrders : \E entered \in SUBSET UNION {Bits[a] \ Kept[a] : a \in ToSet(areas)} :
        /\ ram' = [a \in Area |-> IF a \in ToSet(areas)
                                 THEN (ram[a] \cap Kept[a]) \cup ((Bits[a] \ Kept[a]) \cap entered)
                                 ELSE ram[a]]
        /\ Goes("page", areas)
    /\ UNCHANGED <<flashVars, result, files, made, kept, lost, snapshot, outdated, unread, mishaps>>

\* The password page; the activation of the device.
KeptIsSet ==
    /\ pc = "main" /\ changes < MaxChanges /\ changes' = changes + 1
    /\ \E a \in {"pcm", "prm"} : \E new \in SUBSET Kept[a] :
        /\ ram' = [ram EXCEPT ![a] = (@ \ Kept[a]) \cup new]
        /\ kept' = [kept EXCEPT ![a] = new] /\ lost' = lost \ {a}
        /\ Goes("page", <<a>>)
    /\ UNCHANGED <<flashVars, result, files, made, snapshot, outdated, unread, mishaps>>

BackupUnsaved ==        \* mutant: the areas are not saved first
    /\ pc = "main"
    /\ Goes("sys", AllAreas) /\ result' = "ok"
    /\ UNCHANGED <<flashVars, ram, kept, lost>> /\ Untouched

SystemBackup ==         \* SystemBackupUSBProcess, SystemBackupSDProcess
    /\ pc = "main"
    /\ Goes("backup", AllAreas) /\ result' = "ok"
    /\ UNCHANGED <<flashVars, ram, kept, lost>> /\ Untouched

Source == [recoverSys |-> "sys", recoverDay |-> "day"]

SystemRestore ==        \* SystemRestoreFromUSBProcess, SystemRestoreFromSDProcess
    /\ pc = "main"
    /\ \E recover \in DOMAIN Source : Goes(recover, AllAreas)
    /\ result' = "ok" /\ unread' = {}
    /\ UNCHANGED <<flashVars, ram, files, made, kept, lost, snapshot, outdated, changes, mishaps>>

RecoveredWhole(a, old, new) == new      \* mutant: the password is not put back

Recovered(a, old, new) == (new \ Kept[a]) \cup (old \cap Kept[a])

\* What f_read leaves in the RAM when it stops somewhere.
Mixtures(a, old, new) == {(new \cap part) \cup (old \ part) : part \in SUBSET Bits[a]}

\* A file that cannot be opened fails the restore, which goes on.  What f_read
\* returns is not looked at: an empty file leaves the RAM as it is, a card that
\* fails a mixture, and both count as read.
RecoverNext ==
    /\ pc \in DOMAIN Source /\ todo # <<>>
    /\ LET a == Head(todo) file == files[Source[pc]][Head(todo)]
       IN \/ /\ ram' = [ram EXCEPT ![a] = IF file.state = "whole" THEN Recovered(a, @, file.data) ELSE @]
             /\ result' = IF file.state = "none" THEN "failed" ELSE result
             /\ UNCHANGED <<mishaps, unread>>
          \/ Mishap /\ result' = "failed" /\ UNCHANGED <<ram, unread>>
          \/ /\ Mishap /\ file.state = "whole"
             /\ \E read \in Mixtures(a, ram[a], file.data) :
                    ram' = [ram EXCEPT ![a] = Recovered(a, @, read)]
             /\ unread' = unread \cup {a} /\ UNCHANGED result
    /\ Goes(pc, Tail(todo))
    /\ UNCHANGED <<flashVars, files, made, kept, lost, snapshot, outdated, changes>>

RecoverUnsaved ==       \* mutant: what was restored is only in the RAM
    /\ pc \in DOMAIN Source /\ todo = <<>>
    /\ IF result = "ok" THEN Goes("restored", <<>>) ELSE Goes("main", <<>>)
    /\ result' = "ok"
    /\ UNCHANGED <<flashVars, ram, kept, lost>> /\ Untouched

RecoverEnds ==          \* a restore that failed leaves the RAM as it has become
    /\ pc \in DOMAIN Source /\ todo = <<>>
    /\ IF result = "ok" THEN Goes("restore", AllAreas) ELSE Goes("main", <<>>)
    /\ result' = "ok"
    /\ UNCHANGED <<flashVars, ram, kept, lost>> /\ Untouched

SystemSoftwareReset ==  \* the user has been told of the success
    /\ pc = "restored"
    /\ ram' = Cleared /\ Goes("load", <<>>)
    /\ UNCHANGED <<flashVars, result, kept, lost>> /\ Untouched

-----------------------------------------------------------------------------
Driver == FlashStep /\ UNCHANGED <<storeVars, storeHistory>>

\* The saves that put a new password or new data of the device into the flash.
SetsKept == {"format", "password", "page"}

PowerFails ==
    /\ Mishap
    /\ PowerCut
    /\ lost' = lost \cup {a \in Area : write # NoWrite /\ write.area = a}
                    \cup (IF pc \in SetsKept THEN ToSet(todo) ELSE {})
    /\ ram' = Cleared /\ Goes("load", <<>>) /\ result' = "ok" /\ unread' = {}
    /\ UNCHANGED <<files, made, kept, snapshot, outdated, changes>>

PowerReturns == PowerOn /\ UNCHANGED <<storeVars, storeHistory>>

Foreground ==
    \/ Load \/ FormateSystemParameter \/ ProcessMachineMatchTestType
    \/ AutoBackUpSystem \/ HandlerDefaultPassword
    \/ SaveNext \/ Saved \/ Driver
    \/ DayDirectory \/ BackupOpens \/ BackupWrites \/ BackedUp
    \/ RecoverNext \/ RecoverEnds \/ SystemSoftwareReset

User == PageSaves \/ KeptIsSet \/ SystemBackup \/ SystemRestore

Next == Foreground \/ User \/ PowerFails \/ PowerReturns

Spec == Init /\ [][Next]_vars /\ WF_vars(Foreground)

-----------------------------------------------------------------------------
File == [state : {"none", "empty", "whole"}, data : UNION {Content(a) : a \in Area}]

TypeOK ==
    /\ FlashTypeOK
    /\ \A a \in Area : ram[a] \in Content(a) /\ kept[a] \subseteq Kept[a] /\ snapshot[a] \in Content(a)
    /\ pc \in DOMAIN AfterSave \cup DOMAIN Source \cup Places \cup {Opened[p] : p \in Places}
              \cup {"load", "reload", "format?", "match?", "backup?", "password?", "mkdir", "main", "restored"}
    /\ ToSet(todo) \subseteq Area /\ Len(todo) <= 3
    /\ result \in {"ok", "failed"} /\ made \in BOOLEAN
    /\ lost \subseteq Area /\ outdated \subseteq Area /\ unread \subseteq Area
    /\ \A p \in Places, a \in Area : files[p][a] \in File /\ files[p][a].data \in Content(a)

\* The password and the data that activate the device are the ones last set,
\* whatever backups are restored and wherever the power is cut, unless it was
\* cut in a save of their own area: a restore reads the old ones into the RAM,
\* and its failing must not leave them there.
KeptSurvives ==
    pc # "load" => \A a \in Reached \ lost : ram[a] \cap Kept[a] = kept[a]

\* When the user is told that the system is restored, the flash holds a backup
\* as it was made, all of its areas out of the same set of files.  A file that
\* was cut short, or that the card failed to read to its end, is left out of
\* this: the program does not notice either.
RestoredIsBackup ==
    pc = "restored" =>
        \E p \in Places : \A a \in Area :
            /\ files[p][a].state # "none"
            /\ files[p][a].state = "whole" /\ a \in Reached \ unread
                  => flash[a] \ Kept[a] = files[p][a].data \ Kept[a]

\* The files of an automatic backup come from one start of the machine, also
\* when the power was cut while they were written and the machine started again.
\* Only a card that hides the directory has them written again, from a later
\* start; what that backup has not come to, because it is under way, was cut or
\* failed, may be older.
DatedIsOneState ==
    \A a \in Area \ outdated : files["day"][a].state = "whole" => files["day"][a].data = snapshot[a]

\* What a backup writes is what the next start would load: no backup is made of
\* parameters that are only in the RAM.
BackupIsOfTheFlash ==
    pc \in Places \cup {Opened[p] : p \in Places} => \A a \in Reached : ram[a] = flash[a]

\* Every start comes to the main page, through the dialog that asks whether to
\* format and however often the chip fails, or the power is cut again.
StartsUp == (power = "on" /\ pc = "load") ~> (pc = "main" \/ power = "off")
=============================================================================
