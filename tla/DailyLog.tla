----------------------------- MODULE DailyLog ------------------------------
(***************************************************************************)
(* The log files (core/log.cpp, logconf.cpp): one file a day, opened by    *)
(* the first line of the day; opening it removes the file that is days     *)
(* old, and a thread that wakes up all the time removes the files older    *)
(* than ten days.  Calls of logger exclude each other.  The thread does    *)
(* not take part in that, nor does the start of the program, which opens   *)
(* the first file while the thread runs already and may call logger; and   *)
(* gmtime has one buffer for all.                                          *)
(***************************************************************************)
EXTENDS Integers

CONSTANTS
  TenDays,      (* what the thread keeps                                   *)
  MonthDays,    (* days of a month: dates are compared field by field      *)
  FirstDay,     (* today, in the beginning                                 *)
  MaxDay,       (* bound: the last day                                     *)
  MaxDays,      (* bound: the option days                                  *)
  MaxStarts     (* bound: starts of the program                            *)

ASSUME DailyLogAssumption ==
  /\ {TenDays, MonthDays, MaxDays} \subseteq Nat \ {0} /\ {FirstDay, MaxDay, MaxStarts} \subseteq Nat
  /\ TenDays <= FirstDay /\ MaxDays <= FirstDay /\ FirstDay <= MaxDay

VARIABLES
  days,         (* LogOption::days                                         *)
  logName,      (* LogOption::name: "plain", or "dashed": it has a '-'     *)
  day,          (* the clock                                               *)
  starts,       (* starts of the program so far                            *)
  files, lines, (* the files, by day; the days stamped on their lines      *)
  fp,           (* the open file, Null, or Gone: open, but unlinked        *)
  thisDay, fileName,  (* this_day; the day in fileName                     *)
  pc, began,    (* the start and the call of logger, and the days they     *)
                (* began                                                   *)
  mine,         (* what each of them has put into gmtime's buffer          *)
  opened,       (* what the start's fopen has returned, until it is stored *)
  caller,       (* who calls logger: the history thread or another         *)
  stamp,        (* the day in the line's time stamp                        *)
  tm,           (* gmtime's buffer                                         *)
  task,         (* the history thread                                      *)
  taskMine, limit, victim,  (* its date in tm, its days, its entry         *)
  raced         (* history: a date was read after another was written over *)
                (* it, or logger was called by the history thread while the*)
                (* start had midnight behind or before it                  *)

disk == <<files, lines>>
line == <<caller, stamp>>
place == <<pc, began>>
name == <<fp, opened, thisDay, fileName>>
history == <<task, taskMine, limit, victim>>
option == <<days, logName>>
vars == <<option, day, starts, disk, name, place, mine, line, tm, history, raced>>

Dates == 0..MaxDay + MonthDays
Null == -1
Gone == -2
Odd == -3       (* a name half written or cleared, and a file of that name *)

Actors == {"start", "call"}
Goto(a, from, to) == pc[a] = from /\ pc' = [pc EXCEPT ![a] = to]
Up == pc["start"] # "down"
Starting == pc["start"] \notin {"down", "up"}
Calling == pc["call"] # "idle"

(* What may be read of the date a when b has been written over it: every   *)
(* field may be of the one or the other.                                   *)
Mixed(a, b) ==
  {date \in Dates : /\ date \div MonthDays \in {a \div MonthDays, b \div MonthDays}
                   /\ date % MonthDays \in {a % MonthDays, b % MonthDays}}

(* The date read where own was put in the buffer. *)
Reading(own, date) ==
  \/ tm = own /\ date = own /\ UNCHANGED raced
  \/ tm # own /\ date \in Mixed(own, tm) /\ raced' = "yes"

Gmtime(a, date) == tm' = date /\ mine' = [mine EXCEPT ![a] = date]

Unlink(f) ==
  /\ files' = files \ {f}
  /\ lines' = [lines EXCEPT ![f] = {}]
  /\ fp' = IF fp = f THEN Gone ELSE fp
  /\ opened' = IF opened = f THEN Gone ELSE opened
-----------------------------------------------------------------------------
(* The start. *)

(* read_log_config and logger_initialize: the history thread is created... *)
Restart ==
  /\ starts < MaxStarts /\ starts' = starts + 1
  /\ Goto("start", "down", "thread")
  /\ began' = [began EXCEPT !["start"] = day]
  /\ task' = "sleep"
  /\ UNCHANGED <<option, day, disk, name, mine, line, tm, taskMine, limit, victim, raced>>

(* ... before initalized is set, and create_file called, which begins with *)
(* generate_filename.                                                      *)
Initalized ==
  /\ Goto("start", "thread", "day")
  /\ UNCHANGED <<option, day, starts, disk, name, began, mine, line, tm, history, raced>>

(* create_file: fopen, with the "w+" of read_log_config, ... *)
CreateFile ==
  /\ Goto("start", "open", "store")
  /\ \/ /\ fileName # Odd
        /\ opened' = fileName /\ files' = files \cup {fileName}
        /\ lines' = [lines EXCEPT ![fileName] = {}]
     \/ opened' \in {Null} \cup ({fileName} \cap {Odd}) /\ UNCHANGED disk
  /\ UNCHANGED <<option, day, starts, fp, thisDay, fileName, began, mine, line, tm, history, raced>>

(* ... whose result is stored, over a file that the history thread may     *)
(* have opened meanwhile.  A stream of mode "w+" writes from its beginning:*)
(* the lines in the file already get lost, counted here, in part or all.   *)
StoreFp ==
  /\ Goto("start", "store", "up")
  /\ fp' = opened /\ opened' = Null
  /\ IF opened \in Dates
     THEN \E kept \in SUBSET lines[opened] : lines' = [lines EXCEPT ![opened] = kept]
     ELSE UNCHANGED lines
  /\ mine' = [mine EXCEPT !["start"] = 0]
  /\ UNCHANGED <<option, day, starts, files, thisDay, fileName, began, line, tm, history, raced>>
-----------------------------------------------------------------------------
(* generate_filename, by the start and by a call of logger. *)

(* Mutation: this_day is the day the next file is due. *)
ThisDayNext(a) ==
  /\ Goto(a, "day", "name")
  /\ thisDay' = day + 1 /\ fileName' = Odd
  /\ UNCHANGED <<option, day, starts, disk, fp, opened, began, mine, line, tm, history, raced>>

(* this_day = now_day(), memset, ... *)
ThisDay(a) ==
  /\ Goto(a, "day", "name")
  /\ thisDay' = day /\ fileName' = Odd
  /\ UNCHANGED <<option, day, starts, disk, fp, opened, began, mine, line, tm, history, raced>>

(* ... date_day, ... *)
DateDay(a) ==
  /\ Goto(a, "name", "named")
  /\ Gmtime(a, day)
  /\ UNCHANGED <<option, day, starts, disk, name, began, line, history, raced>>

(* What sprintf leaves in fileName: its beginning cleared, if another has  *)
(* come to memset.                                                         *)
Written(a, date) == {date} \cup {n \in {Odd} : \E b \in Actors \ {a} : pc[b] \in {"name", "named"}}

(* ... the name, mixed with another that has been written meanwhile;       *)
(* date_day again for the day that was days ago, ...                       *)
FileName(a) ==
  /\ Goto(a, "named", "delete")
  /\ \/ \E date \in Dates : Reading(mine[a], date) /\ fileName' \in Written(a, date)
     \/ /\ fileName \in Dates \ {mine[a]}
        /\ \E date \in Mixed(mine[a], tm) : fileName' \in Mixed(date, fileName)
        /\ raced' = "yes"
  /\ Gmtime(a, day - days)
  /\ UNCHANGED <<option, day, starts, disk, fp, opened, thisDay, began, line, history>>

(* ... and unlink. *)
DeleteOld(a) ==
  /\ Goto(a, "delete", "open")
  /\ \E f \in Dates : Reading(mine[a], f) /\ Unlink(f)
  /\ UNCHANGED <<option, day, starts, thisDay, fileName, began, mine, line, tm, history>>
-----------------------------------------------------------------------------
(* A call of logger. *)

(* logger locks mut, and date_millsecond begins. *)
Begin(who) ==
  /\ Goto("call", "idle", "stamp")
  /\ began' = [began EXCEPT !["call"] = day]
  /\ caller' = who
  /\ Gmtime("call", day)
  /\ raced' = IF Starting /\ began["start"] # day THEN "yes" ELSE raced

(* The other threads are created when the start is over. *)
Logger ==
  /\ pc["start"] = "up"
  /\ Begin("other")
  /\ UNCHANGED <<option, day, starts, disk, name, stamp, history>>

Stamp ==
  /\ Goto("call", "stamp", "check")
  /\ Reading(mine["call"], stamp')
  /\ UNCHANGED <<option, day, starts, disk, name, began, mine, caller, tm, history>>

(* Mutation: the file of the first day is used for ever. *)
CheckNever ==
  /\ pc["call"] = "check"
  /\ pc' = [pc EXCEPT !["call"] = CASE pc["start"] = "thread" -> "return"
                                    [] thisDay = Null -> "day"
                                    [] OTHER -> "write"]
  /\ UNCHANGED <<option, day, starts, disk, name, began, mine, line, tm, history, raced>>

(* write_file: initalized, and now_day() != this_day *)
Check ==
  /\ pc["call"] = "check"
  /\ pc' = [pc EXCEPT !["call"] = CASE pc["start"] = "thread" -> "return"
                                    [] pc["start"] # "thread" /\ day # thisDay -> "day"
                                    [] OTHER -> "write"]
  /\ UNCHANGED <<option, day, starts, disk, name, began, mine, line, tm, history, raced>>

(* Mutation: "w+" for every file. *)
OpenEmpty ==
  /\ Goto("call", "open", "test")
  /\ fp' = fileName
  /\ IF fileName = Odd
     THEN UNCHANGED disk
     ELSE files' = files \cup {fileName} /\ lines' = [lines EXCEPT ![fileName] = {}]
  /\ UNCHANGED <<option, day, starts, opened, thisDay, fileName, began, mine, line, tm, history, raced>>

(* fclose, and fopen with "a+", which may fail. *)
Open ==
  /\ Goto("call", "open", "test")
  /\ \/ /\ fp' = fileName
        /\ files' = IF fileName = Odd THEN files ELSE files \cup {fileName}
     \/ fp' = Null /\ UNCHANGED files
  /\ UNCHANGED <<option, day, starts, lines, opened, thisDay, fileName, began, mine, line, tm, history, raced>>

(* The test of fp, which the start may have stored meanwhile: the line is  *)
(* not written when it is NULL.                                            *)
Opened ==
  /\ pc["call"] = "test"
  /\ pc' = [pc EXCEPT !["call"] = IF fp = Null THEN "return" ELSE "write"]
  /\ UNCHANGED <<option, day, starts, disk, name, began, mine, line, tm, history, raced>>

(* fprintf and fflush; there is no going on with a NULL.  Between the two  *)
(* the start may store its stream, and the line stays in memory.           *)
Write ==
  /\ fp # Null
  /\ Goto("call", "write", "return")
  /\ \/ lines' = IF fp \in Dates THEN [lines EXCEPT ![fp] = lines[fp] \cup {stamp}] ELSE lines
     \/ pc["start"] = "store" /\ UNCHANGED lines
  /\ UNCHANGED <<option, day, starts, files, name, began, mine, line, tm, history, raced>>

(* logger unlocks mut and its locals are gone; the history thread goes on. *)
Return ==
  /\ Goto("call", "return", "idle")
  /\ task' = CASE caller = "history" /\ task = "announce" -> "unlink"
               [] caller = "history" /\ task = "complain" -> "scan"
               [] OTHER -> task
  /\ stamp' = 0 /\ caller' = "other"
  /\ mine' = [mine EXCEPT !["call"] = 0] /\ began' = [began EXCEPT !["call"] = FirstDay]
  /\ UNCHANGED <<option, day, starts, disk, name, tm, taskMine, limit, victim, raced>>
-----------------------------------------------------------------------------
(* The history thread. *)

(* Mutation: the limit is today, ten days are not subtracted. *)
TaskWakesToday ==
  /\ task = "sleep"
  /\ taskMine' = day /\ tm' = day
  /\ task' = "limit"
  /\ UNCHANGED <<option, day, starts, disk, name, place, mine, line, limit, victim, raced>>

(* rm_history_task: ftime and gmtime, ... *)
TaskWakes ==
  /\ task = "sleep"
  /\ taskMine' = day - TenDays /\ tm' = day - TenDays
  /\ task' = "limit"
  /\ UNCHANGED <<option, day, starts, disk, name, place, mine, line, limit, victim, raced>>

(* ... the three fields. *)
TaskLimit ==
  /\ task = "limit"
  /\ Reading(taskMine, limit')
  /\ task' = "scan"
  /\ UNCHANGED <<option, day, starts, disk, name, place, mine, line, tm, taskMine, victim>>

(* The date is read from behind the first '-' in the name of the file.     *)
FileDay(f) == IF logName = "dashed" THEN -1 ELSE f

(* An entry of the directory; it is announced, if the level has it.        *)
TaskEntry ==
  /\ task = "scan"
  /\ \E f \in files : FileDay(f) < limit /\ victim' = f
  /\ \/ task' = "unlink" /\ UNCHANGED <<place, mine, line, tm, raced>>
     \/ task' = "announce" /\ Begin("history") /\ UNCHANGED stamp
  /\ UNCHANGED <<option, day, starts, disk, name, taskMine, limit>>

(* unlink, or an error in the log when the file is no longer there.        *)
TaskUnlink ==
  /\ task = "unlink"
  /\ IF victim \in files
     THEN Unlink(victim) /\ task' = "scan" /\ UNCHANGED <<place, mine, line, tm, raced>>
     ELSE task' = "complain" /\ Begin("history") /\ UNCHANGED <<stamp, disk, fp, opened>>
  /\ UNCHANGED <<option, day, starts, thisDay, fileName, taskMine, limit, victim>>

TaskEnds ==
  /\ task = "scan"
  /\ task' = "sleep" /\ taskMine' = 0 /\ limit' = 0 /\ victim' = 0
  /\ UNCHANGED <<option, day, starts, disk, name, place, mine, line, tm, raced>>
-----------------------------------------------------------------------------
(* Another thread asks for the time without calling logger. *)
Elsewhere ==
  /\ pc["start"] = "up"
  /\ tm' = day
  /\ UNCHANGED <<option, day, starts, disk, name, place, mine, line, history, raced>>

(* Midnight; a start and a call last less than a day. *)
Midnight ==
  /\ day < MaxDay
  /\ Starting => began["start"] = day
  /\ Calling => began["call"] = day
  /\ day' = day + 1
  /\ raced' = IF Starting /\ Calling THEN "yes" ELSE raced
  /\ UNCHANGED <<option, starts, disk, name, place, mine, line, tm, history>>

(* The program is killed, or fprintf is given NULL: the disk remains. *)
Crash ==
  /\ Up
  /\ fp' = Null /\ opened' = Null /\ thisDay' = Null /\ fileName' = Null /\ tm' = 0
  /\ pc' = [start |-> "down", call |-> "idle"]
  /\ began' = [a \in Actors |-> FirstDay] /\ mine' = [a \in Actors |-> 0]
  /\ caller' = "other" /\ stamp' = 0
  /\ task' = "none" /\ taskMine' = 0 /\ limit' = 0 /\ victim' = 0
  /\ UNCHANGED <<option, day, starts, disk, raced>>

Init ==
  /\ days \in 1..MaxDays /\ logName \in {"plain", "dashed"}
  /\ day = FirstDay /\ starts = 0
  /\ files \in SUBSET (0..FirstDay) /\ lines = [f \in Dates |-> IF f \in files THEN {f} ELSE {}]
  /\ fp = Null /\ opened = Null /\ thisDay = Null /\ fileName = Null /\ tm = 0
  /\ pc = [start |-> "down", call |-> "idle"]
  /\ began = [a \in Actors |-> FirstDay] /\ mine = [a \in Actors |-> 0]
  /\ caller = "other" /\ stamp = 0
  /\ task = "none" /\ taskMine = 0 /\ limit = 0 /\ victim = 0
  /\ raced = "no"

Generate(a) == ThisDay(a) \/ DateDay(a) \/ FileName(a) \/ DeleteOld(a)

Next ==
  \/ Restart \/ Initalized \/ CreateFile \/ StoreFp
  \/ \E a \in Actors : Generate(a)
  \/ Logger \/ Stamp \/ Check \/ Open \/ Opened \/ Write \/ Return
  \/ TaskWakes \/ TaskLimit \/ TaskEntry \/ TaskUnlink \/ TaskEnds
  \/ Elsewhere \/ Midnight \/ Crash

Spec == Init /\ [][Next]_vars
-----------------------------------------------------------------------------
Generating == {"day", "name", "named", "delete", "open"}

TypeOK ==
  /\ days \in 1..MaxDays /\ logName \in {"plain", "dashed"} /\ raced \in {"no", "yes"}
  /\ day \in FirstDay..MaxDay /\ starts \in 0..MaxStarts
  /\ files \subseteq Dates /\ lines \in [Dates -> SUBSET Dates]
  /\ \A f \in Dates \ files : lines[f] = {}
  /\ {fp, opened} \subseteq files \cup {Null, Gone, Odd}
  /\ fileName \in Dates \cup {Null, Odd} /\ thisDay \in {Null} \cup FirstDay..day
  /\ pc \in [Actors -> {"down", "thread", "store", "up", "idle", "stamp", "check", "test",
                        "write", "return"} \cup Generating]
  /\ pc["start"] \in {"down", "thread", "store", "up"} \cup Generating
  /\ pc["call"] \in {"idle", "stamp", "check", "test", "write", "return"} \cup Generating
  /\ began \in [Actors -> FirstDay..day] /\ mine \in [Actors -> Dates]
  /\ {stamp, tm, taskMine, limit, victim} \subseteq Dates
  /\ caller \in {"history", "other"}
  /\ task \in {"none", "sleep", "limit", "scan", "announce", "unlink", "complain"}

(* As long as no two threads met in gmtime, nor the history thread and a   *)
(* start around midnight: a line is in the file of the day it is stamped   *)
(* with, or, around midnight, of the next; where the name has no '-', none *)
(* is written to a file that is no longer there; and a file misnamed by a  *)
(* start and a call that generate its name together takes the lines of the *)
(* day of that start, and no others.                                       *)
LineInItsFile ==
  raced = "no" =>
    /\ \A f \in files : lines[f] \subseteq {f - 1, f}
    /\ pc["call"] = "write" /\ logName = "plain" => fp # Gone
    /\ pc["call"] = "write" /\ fp = Odd => began["call"] = began["start"]

(* Under the same conditions a file is removed only when it is days old,   *)
(* or more than ten.                                                       *)
RemovedIsOld ==
  [][\/ raced' = "yes" \/ logName = "dashed"
     \/ \A f \in files \ files' : day - f >= days \/ day - f > TenDays]_vars

(* Lines disappear with their file, or when the program is started again   *)
(* on the same day, by what the start itself does; no midnight, no failure *)
(* to open and no call of logger empties a file.                           *)
LinesKept ==
  [][\A f \in files \cap files' :
       \/ lines[f] \subseteq lines'[f]
       \/ /\ pc["start"] \in {"open", "store"} /\ pc'["start"] # pc["start"]
          /\ raced = "yes" \/ f \in {began["start"], day}]_vars
=============================================================================
