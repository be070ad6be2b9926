--------------------------- MODULE DailyLogProofs ---------------------------
(***************************************************************************)
(* Proofs about DailyLog, for any number of days and starts: as long as no *)
(* date was mixed with another, nor a start around midnight met a call,    *)
(* every date in use is the clock's of a moment ago.                       *)
(***************************************************************************)
EXTENDS DailyLog, TLAPS

Naming == {"name", "named", "delete", "open"}

StartedToday == Starting => began["start"] = day

(* Who began when. *)
ClockInv ==
  /\ Starting => day <= began["start"] + 1
  /\ Calling => began["start"] <= began["call"] /\ day <= began["call"] + 1
  /\ \A a \in Actors : pc[a] \in Naming => began[a] <= thisDay
  /\ pc["call"] \in {"test", "write"} => began["call"] <= thisDay

(* What is there of the log before, in and after the start. *)
StartInv ==
  /\ pc["start"] = "down" => pc["call"] = "idle" /\ task = "none"
  /\ pc["start"] \in {"down", "thread"} =>
       /\ fp = Null /\ thisDay = Null /\ fileName = Null
       /\ pc["call"] \in {"idle", "stamp", "check", "return"}
  /\ pc["start"] # "store" => opened = Null
  /\ pc["start"] \in Naming \cup {"store", "up"} \/ pc["call"] \in Naming => fileName # Null
  /\ fileName = Odd => \E a \in Actors : pc[a] \in {"name", "named"}

(* The dates the start and the call of logger hold. *)
DateInv ==
  /\ Starting /\ Calling => began["start"] = day
  /\ pc["call"] = "stamp" => mine["call"] = began["call"]
  /\ pc["call"] \in {"check", "day", "test", "write"} \cup Naming => stamp = began["call"]
  /\ \A a \in Actors : pc[a] = "named" => mine[a] <= day /\ mine[a] \in {thisDay, thisDay + 1}
  /\ \A a \in Actors : pc[a] = "delete" => mine[a] <= day - days

(* The name of the file, and the stream the start is about to store. *)
NameInv ==
  /\ fileName \in Dates => fileName <= day /\ fileName \in {thisDay, thisDay + 1}
  /\ opened \in Dates => began["start"] <= opened /\ opened <= day /\ opened \in {thisDay, thisDay + 1}
  /\ logName = "plain" => opened # Gone

(* The open file: that of this_day or, around midnight, of the next; an    *)
(* unlinked one is older than yesterday; a misnamed one is the start's.    *)
FileInv ==
  /\ Starting /\ began["start"] = day => thisDay \in {Null, day} /\ fp \in {Null, Gone, Odd, day}
  /\ StartedToday /\ pc["call"] \notin Naming =>
       /\ fp \in Dates => fp <= day /\ fp \in {thisDay, thisDay + 1}
       /\ logName = "plain" /\ fp = Gone => ~Starting /\ thisDay < day - 1
  /\ fp = Odd \/ opened = Odd => pc["start"] \notin {"thread", "day"}
  /\ opened = Odd => thisDay = began["start"]
  /\ fp = Odd /\ pc["call"] \notin Naming => thisDay = began["start"]

(* The dates the history thread holds. *)
TaskInv ==
  /\ task = "limit" => taskMine <= day - TenDays
  /\ task \in {"scan", "announce", "unlink", "complain"} => limit <= day - TenDays
  /\ task \in {"announce", "unlink"} /\ logName = "plain" => victim < limit

LinesInv == \A f \in files : lines[f] \subseteq {f - 1, f}

DatesInv == DateInv /\ NameInv /\ FileInv /\ TaskInv /\ LinesInv

IInv == TypeOK /\ ClockInv /\ StartInv /\ (raced = "no" => DatesInv)

(* The numbers. *)
LEMMA Numbers ==
  ASSUME TypeOK
  PROVE  /\ TenDays \in Nat /\ TenDays >= 1 /\ MonthDays \in Nat /\ MonthDays >= 1
         /\ FirstDay \in Nat /\ MaxDay \in Nat /\ MaxStarts \in Nat
         /\ day \in Nat /\ FirstDay <= day /\ day <= MaxDay
         /\ TenDays <= day /\ days \in Nat /\ 1 <= days /\ days <= day
         /\ starts \in Nat /\ starts <= MaxStarts
         /\ \A a \in Actors : began[a] \in Nat /\ FirstDay <= began[a] /\ began[a] <= day /\ mine[a] \in Nat
         /\ thisDay \in Int /\ thisDay <= day /\ fileName \in Int /\ fp \in Int /\ opened \in Int
         /\ {stamp, tm, taskMine, limit, victim} \subseteq Nat
         /\ Dates \subseteq Nat /\ 0 \in Dates
<1>1. /\ TenDays \in Nat \ {0} /\ MonthDays \in Nat \ {0} /\ MaxDays \in Nat
      /\ FirstDay \in Nat /\ MaxDay \in Nat /\ MaxStarts \in Nat
      /\ TenDays <= FirstDay /\ MaxDays <= FirstDay /\ FirstDay <= MaxDay
  BY DailyLogAssumption
<1>2. Dates \subseteq Nat /\ 0 \in Dates
  BY <1>1 DEF Dates
<1>3. days \in 1..MaxDays /\ day \in FirstDay..MaxDay /\ starts \in 0..MaxStarts
  BY DEF TypeOK
<1>4. /\ fileName \in Dates \cup {-1, -3} /\ thisDay \in {-1} \cup FirstDay..day
      /\ fp \in Dates \cup {-1, -2, -3} /\ opened \in Dates \cup {-1, -2, -3}
  BY DEF TypeOK, Null, Gone, Odd
<1>5. {stamp, tm, taskMine, limit, victim} \subseteq Dates
  BY DEF TypeOK
<1>6. /\ day \in Nat /\ FirstDay <= day /\ day <= MaxDay /\ TenDays <= day
      /\ days \in Nat /\ 1 <= days /\ days <= day /\ starts \in Nat /\ starts <= MaxStarts
  BY <1>1, <1>3
<1>7. thisDay \in Int /\ thisDay <= day
  BY <1>1, <1>4, <1>6
<1>8. fileName \in Int /\ fp \in Int /\ opened \in Int
  BY <1>2, <1>4
<1>9. {stamp, tm, taskMine, limit, victim} \subseteq Nat
  BY <1>2, <1>5
<1>10. \A a \in Actors : began[a] \in FirstDay..day /\ mine[a] \in Dates
  BY DEF TypeOK
<1>11. \A a \in Actors : began[a] \in Nat /\ FirstDay <= began[a] /\ began[a] <= day /\ mine[a] \in Nat
  BY <1>1, <1>2, <1>6, <1>10
<1>12. TenDays >= 1 /\ MonthDays >= 1
  BY <1>1
<1> QED
  BY <1>1, <1>2, <1>6, <1>7, <1>8, <1>9, <1>11, <1>12

(* Null, Gone and Odd are no dates. *)
LEMMA NoDates == /\ Null = -1 /\ Gone = -2 /\ Odd = -3
                 /\ Null \notin Dates /\ Gone \notin Dates /\ Odd \notin Dates
<1>1. MaxDay \in Nat /\ MonthDays \in Nat
  BY DailyLogAssumption
<1> QED
  BY <1>1 DEF Dates, Null, Gone, Odd

(* A day not after the clock's, and one before it, are dates. *)
LEMMA IsDate ==
  ASSUME TypeOK, NEW d \in Int, 0 <= d, d <= day
  PROVE  d \in Dates
<1>1. day \in Nat /\ day <= MaxDay /\ MaxDay \in Nat /\ MonthDays \in Nat
  BY Numbers
<1> QED
  BY <1>1 DEF Dates

(* What is read is a date, and, if it is known to be right, the own one. *)
LEMMA ReadsDate ==
  ASSUME TypeOK, NEW own \in Dates, NEW date, Reading(own, date)
  PROVE  date \in Dates /\ raced' \in {"no", "yes"} /\ (raced' = "no" => raced = "no" /\ date = own)
BY DEF Reading, Mixed, TypeOK

(* A step of one of the two leaves the other where it is. *)
LEMMA Goes ==
  ASSUME TypeOK, NEW a \in Actors, NEW from, NEW to, Goto(a, from, to)
  PROVE  pc[a] = from /\ pc'[a] = to /\ \A b \in Actors \ {a} : pc'[b] = pc[b]
BY DEF Goto, TypeOK

(* unlink. *)
LEMMA Unlinks ==
  ASSUME TypeOK, NEW f \in Dates, Unlink(f)
  PROVE  /\ files' \subseteq Dates /\ lines' \in [Dates -> SUBSET Dates]
         /\ \A g \in Dates \ files' : lines'[g] = {}
         /\ fp' = (IF fp = f THEN Gone ELSE fp) /\ opened' = (IF opened = f THEN Gone ELSE opened)
         /\ {fp', opened'} \subseteq files' \cup {Null, Gone, Odd}
         /\ LinesInv => LinesInv'
<1>1. /\ files' = files \ {f} /\ lines' = [lines EXCEPT ![f] = {}]
      /\ fp' = (IF fp = f THEN Gone ELSE fp) /\ opened' = (IF opened = f THEN Gone ELSE opened)
  BY DEF Unlink
<1>2. files \subseteq Dates /\ lines \in [Dates -> SUBSET Dates]
      /\ (\A g \in Dates \ files : lines[g] = {}) /\ {fp, opened} \subseteq files \cup {Null, Gone, Odd}
  BY DEF TypeOK
<1>3. \A g \in Dates : lines'[g] = IF g = f THEN {} ELSE lines[g]
  BY <1>1, <1>2
<1>4. lines' \in [Dates -> SUBSET Dates]
  BY <1>1, <1>2
<1>5. LinesInv => LinesInv'
  BY <1>1, <1>2, <1>3 DEF LinesInv
<1>6. {fp', opened'} \subseteq files' \cup {Null, Gone, Odd}
  BY <1>1, <1>2
<1> QED
  BY <1>1, <1>2, <1>3, <1>4, <1>5, <1>6

LEMMA InitHolds == Init => IInv
<1> SUFFICES ASSUME Init PROVE IInv
  OBVIOUS
<1>1. /\ FirstDay \in Nat /\ MaxDay \in Nat /\ FirstDay <= MaxDay /\ MonthDays \in Nat
      /\ MaxStarts \in Nat /\ MaxDays \in Nat
  BY DailyLogAssumption
<1>2. 0..FirstDay \subseteq Dates /\ 0 \in Dates
  BY <1>1 DEF Dates
<1>3. /\ files \subseteq Dates /\ lines = [f \in Dates |-> IF f \in files THEN {f} ELSE {}]
      /\ fp = Null /\ opened = Null /\ thisDay = Null /\ fileName = Null /\ day = FirstDay
      /\ pc = [start |-> "down", call |-> "idle"]
      /\ began = [a \in Actors |-> FirstDay] /\ mine = [a \in Actors |-> 0]
      /\ caller = "other" /\ task = "none" /\ raced = "no"
  BY <1>2 DEF Init
<1>4. lines \in [Dates -> SUBSET Dates] /\ \A f \in Dates : lines[f] = IF f \in files THEN {f} ELSE {}
  BY <1>3
<1>5. pc["start"] = "down" /\ pc["call"] = "idle" /\ DOMAIN pc = Actors /\ pc = [a \in Actors |-> pc[a]]
  BY <1>3 DEF Actors
<1>6. pc \in [Actors -> {"down", "thread", "store", "up", "idle", "stamp", "check", "test",
                        "write", "return"} \cup Generating]
  BY <1>5 DEF Actors
<1>7. TypeOK
  BY <1>1, <1>2, <1>3, <1>4, <1>5, <1>6 DEF Init, TypeOK
<1>8. ClockInv /\ StartInv /\ DateInv /\ TaskInv
  BY <1>3, <1>5, NoDates DEF ClockInv, StartInv, DateInv, TaskInv, Naming, Starting, Calling, Actors
<1>9. NameInv /\ FileInv
  BY <1>3, <1>5, NoDates DEF NameInv, FileInv, StartedToday, Starting
<1>10. LinesInv
  BY <1>3, <1>4 DEF LinesInv
<1> QED
  BY <1>7, <1>8, <1>9, <1>10 DEF IInv, DatesInv
-----------------------------------------------------------------------------
(* The steps of the start. *)

LEMMA RestartStep ==
  ASSUME IInv, Restart
  PROVE  IInv'
<1>1. /\ starts < MaxStarts /\ starts' = starts + 1 /\ Goto("start", "down", "thread")
      /\ began' = [began EXCEPT !["start"] = day] /\ task' = "sleep"
      /\ UNCHANGED <<days, logName, day, files, lines, fp, opened, thisDay, fileName, mine, caller, stamp,
                     tm, taskMine, limit, victim, raced>>
  BY DEF Restart, option, disk, name, line
<1>2. TypeOK /\ ClockInv /\ StartInv /\ (raced = "no" => DatesInv)
  BY DEF IInv
<1>3. pc["start"] = "down" /\ pc'["start"] = "thread" /\ pc["call"] = "idle" /\ pc'["call"] = "idle"
  BY <1>1, <1>2, Goes DEF Actors, StartInv
<1>4. /\ day \in Nat /\ FirstDay \in Nat /\ FirstDay <= day /\ starts \in Nat /\ MaxStarts \in Nat
  BY <1>2, Numbers
<1>5. starts' \in 0..MaxStarts /\ began' \in [Actors -> FirstDay..day'] /\ began'["start"] = day
  BY <1>1, <1>2, <1>4 DEF TypeOK, Actors
<1>6. TypeOK'
  BY <1>1, <1>2, <1>3, <1>5 DEF TypeOK, Goto
<1>7. ClockInv' /\ StartInv'
  BY <1>1, <1>2, <1>3, <1>4, <1>5 DEF ClockInv, StartInv, Naming, Starting, Calling, Actors
<1>8. raced = "no" => DateInv' /\ NameInv' /\ FileInv'
  BY <1>1, <1>2, <1>3, <1>4, <1>5, NoDates
     DEF StartInv, DateInv, NameInv, FileInv, Naming, Starting, Calling, StartedToday, Actors
<1>9. raced = "no" => TaskInv' /\ LinesInv'
  BY <1>1, <1>2 DEF DatesInv, TaskInv, LinesInv
<1> QED
  BY <1>1, <1>6, <1>7, <1>8, <1>9 DEF IInv, DatesInv

LEMMA InitalizedStep ==
  ASSUME IInv, Initalized
  PROVE  IInv'
<1>1. /\ Goto("start", "thread", "day")
      /\ UNCHANGED <<days, logName, day, starts, files, lines, fp, opened, thisDay, fileName, began, mine,
                     caller, stamp, tm, task, taskMine, limit, victim, raced>>
  BY DEF Initalized, option, disk, name, line, history
<1>2. TypeOK /\ ClockInv /\ StartInv /\ (raced = "no" => DatesInv)
  BY DEF IInv
<1>3. pc["start"] = "thread" /\ pc'["start"] = "day" /\ pc'["call"] = pc["call"]
      /\ pc["call"] \in {"idle", "stamp", "check", "return"}
  BY <1>1, <1>2, Goes DEF Actors, StartInv
<1>4. TypeOK'
  BY <1>1, <1>2, <1>3 DEF TypeOK, Goto, Generating
<1>5. ClockInv' /\ StartInv'
  BY <1>1, <1>2, <1>3, NoDates DEF ClockInv, StartInv, Naming, Starting, Calling, Actors
<1>6. raced = "no" => DateInv' /\ NameInv' /\ FileInv'
  BY <1>1, <1>2, <1>3, NoDates
     DEF StartInv, DatesInv, DateInv, NameInv, FileInv, Naming, Starting, Calling, StartedToday, Actors
<1>7. raced = "no" => TaskInv' /\ LinesInv'
  BY <1>1, <1>2 DEF DatesInv, TaskInv, LinesInv
<1> QED
  BY <1>1, <1>4, <1>5, <1>6, <1>7 DEF IInv, DatesInv

(* The start's file is that of the day it began, or of the next. *)
LEMMA CreateFileStep ==
  ASSUME IInv, CreateFile
  PROVE  IInv'
<1>1. /\ Goto("start", "open", "store")
      /\ UNCHANGED <<days, logName, day, starts, fp, thisDay, fileName, began, mine, caller, stamp, tm,
                     task, taskMine, limit, victim, raced>>
  BY DEF CreateFile, option, line, history
<1>2. TypeOK /\ ClockInv /\ StartInv /\ (raced = "no" => DatesInv)
  BY DEF IInv
<1>3. pc["start"] = "open" /\ pc'["start"] = "store" /\ pc'["call"] = pc["call"]
  BY <1>1, <1>2, Goes DEF Actors
<1>4. \/ /\ fileName \in Dates /\ opened' = fileName /\ files' = files \cup {fileName}
         /\ lines' = [lines EXCEPT ![fileName] = {}]
      \/ /\ opened' = Null \/ (opened' = Odd /\ fileName = Odd)
         /\ files' = files /\ lines' = lines
  BY <1>2, <1>3 DEF CreateFile, TypeOK, StartInv, Naming, disk
<1>5. /\ files' \subseteq Dates /\ lines' \in [Dates -> SUBSET Dates]
      /\ \A g \in Dates \ files' : lines'[g] = {}
      /\ {fp', opened'} \subseteq files' \cup {Null, Gone, Odd}
      /\ LinesInv => LinesInv'
  <2>1. /\ files \subseteq Dates /\ lines \in [Dates -> SUBSET Dates]
        /\ (\A g \in Dates \ files : lines[g] = {}) /\ fp' \in files \cup {Null, Gone, Odd}
    BY <1>1, <1>2 DEF TypeOK
  <2>2. CASE /\ fileName \in Dates /\ opened' = fileName /\ files' = files \cup {fileName}
             /\ lines' = [lines EXCEPT ![fileName] = {}]
    <3>1. lines' \in [Dates -> SUBSET Dates] /\ \A g \in Dates : lines'[g] = IF g = fileName THEN {} ELSE lines[g]
      BY <2>1, <2>2
    <3> QED
      BY <2>1, <2>2, <3>1 DEF LinesInv
  <2>3. CASE (opened' = Null \/ (opened' = Odd /\ fileName = Odd)) /\ files' = files /\ lines' = lines
    BY <2>1, <2>3 DEF LinesInv
  <2> QED
    BY <1>4, <2>2, <2>3
<1>6. TypeOK'
  BY <1>1, <1>2, <1>3, <1>5 DEF TypeOK, Goto
<1>7. ClockInv'
  BY <1>1, <1>2, <1>3 DEF ClockInv, Naming, Starting, Calling, Actors
<1>8. StartInv'
  BY <1>1, <1>2, <1>3 DEF StartInv, Naming, Actors
<1>9. /\ began["start"] <= thisDay /\ day <= began["start"] + 1
      /\ began["start"] \in Nat /\ began["call"] \in Nat /\ day \in Nat /\ thisDay \in Int /\ fileName \in Int
      /\ thisDay <= day
  BY <1>2, <1>3, Numbers DEF ClockInv, Naming, Starting, Actors
<1>10. raced = "no" => DateInv'
  BY <1>1, <1>2, <1>3 DEF DatesInv, DateInv, Naming, Starting, Calling, Actors
<1>11. raced = "no" => NameInv'
  BY <1>1, <1>2, <1>4, <1>9, NoDates DEF DatesInv, NameInv
<1>12. raced = "no" => FileInv'
  <2> SUFFICES ASSUME raced = "no" PROVE FileInv'
    OBVIOUS
  <2>1. FileInv /\ DateInv
    BY <1>2 DEF DatesInv
  <2>2. opened' = Odd => thisDay' = began'["start"]
    <3> SUFFICES ASSUME fileName = Odd PROVE thisDay = began["start"]
      BY <1>1, <1>4, NoDates
    <3>1. pc["call"] \in {"name", "named"}
      BY <1>2, <1>3 DEF StartInv, Actors
    <3>2. began["start"] = day
      BY <1>3, <2>1, <3>1 DEF DateInv, Starting, Calling
    <3> QED
      BY <1>9, <3>2
  <2> QED
    BY <1>1, <1>3, <2>1, <2>2 DEF FileInv, Starting, StartedToday
<1>13. raced = "no" => TaskInv'
  BY <1>1, <1>2 DEF DatesInv, TaskInv
<1> QED
  BY <1>1, <1>2, <1>5, <1>6, <1>7, <1>8, <1>10, <1>11, <1>12, <1>13 DEF IInv, DatesInv

LEMMA StoreFpStep ==
  ASSUME IInv, StoreFp
  PROVE  IInv'
<1>1. /\ Goto("start", "store", "up") /\ fp' = opened /\ opened' = Null
      /\ mine' = [mine EXCEPT !["start"] = 0]
      /\ UNCHANGED <<days, logName, day, starts, files, thisDay, fileName, began, caller, stamp, tm,
                     task, taskMine, limit, victim, raced>>
  BY DEF StoreFp, option, line, history
<1>2. TypeOK /\ ClockInv /\ StartInv /\ (raced = "no" => DatesInv)
  BY DEF IInv
<1>3. pc["start"] = "store" /\ pc'["start"] = "up" /\ pc'["call"] = pc["call"]
  BY <1>1, <1>2, Goes DEF Actors
<1>4. /\ lines' \in [Dates -> SUBSET Dates] /\ (\A g \in Dates \ files : lines'[g] = {})
      /\ LinesInv => LinesInv'
  <2>1. files \subseteq Dates /\ lines \in [Dates -> SUBSET Dates] /\ \A g \in Dates \ files : lines[g] = {}
    BY <1>2 DEF TypeOK
  <2>2. CASE lines' = lines
    BY <1>1, <2>1, <2>2 DEF LinesInv
  <2>3. CASE opened \in Dates /\ \E kept \in SUBSET lines[opened] : lines' = [lines EXCEPT ![opened] = kept]
    <3>1. PICK kept \in SUBSET lines[opened] : lines' = [lines EXCEPT ![opened] = kept]
      BY <2>3
    <3>2. \A g \in Dates : lines'[g] = IF g = opened THEN kept ELSE lines[g]
      BY <2>1, <3>1
    <3>3. lines' \in [Dates -> SUBSET Dates]
      BY <2>1, <2>3, <3>1
    <3> QED
      BY <1>1, <2>1, <3>2, <3>3 DEF LinesInv
  <2> QED
    BY <2>2, <2>3 DEF StoreFp
<1>5. 0 \in Dates /\ mine' \in [Actors -> Dates] /\ mine'["call"] = mine["call"]
  BY <1>1, <1>2, Numbers DEF TypeOK, Actors
<1>6. {fp', opened'} \subseteq files \cup {Null, Gone, Odd}
  BY <1>1, <1>2 DEF TypeOK
<1>7. TypeOK'
  BY <1>1, <1>2, <1>3, <1>4, <1>5, <1>6 DEF TypeOK, Goto
<1>8. ClockInv'
  BY <1>1, <1>2, <1>3 DEF ClockInv, Naming, Starting, Calling, Actors
<1>9. StartInv'
  BY <1>1, <1>2, <1>3 DEF StartInv, Naming, Actors
<1>10. raced = "no" => DateInv'
  BY <1>1, <1>2, <1>3, <1>5 DEF DatesInv, DateInv, Naming, Starting, Calling, Actors
<1>11. raced = "no" => NameInv'
  BY <1>1, <1>2, NoDates DEF DatesInv, NameInv
<1>12. raced = "no" => FileInv'
  BY <1>1, <1>2, <1>3, NoDates DEF DatesInv, NameInv, FileInv, Starting, StartedToday
<1>13. raced = "no" => TaskInv'
  BY <1>1, <1>2 DEF DatesInv, TaskInv
<1> QED
  BY <1>1, <1>4, <1>7, <1>8, <1>9, <1>10, <1>11, <1>12, <1>13 DEF IInv, DatesInv
-----------------------------------------------------------------------------
(* generate_filename. *)

(* Before generate_filename ends, a started day is over only once; and if  *)
(* both generate a name, they do it on the day they began.                 *)
LEMMA Days ==
  ASSUME IInv, NEW a \in Actors, pc[a] \in Generating
  PROVE  /\ began[a] <= day /\ day <= began[a] + 1
         /\ pc["start"] \notin {"down", "thread"}
         /\ a = "start" => Starting
         /\ a = "call" => Calling
         /\ raced = "no" /\ (Starting => Calling) /\ (Calling => Starting) =>
              began["start"] = day /\ began["call"] = day
<1>1. TypeOK /\ ClockInv /\ StartInv /\ (raced = "no" => DatesInv)
  BY DEF IInv
<1>2. a = "start" \/ a = "call"
  BY DEF Actors
<1>3. pc["start"] \notin {"down", "thread"} /\ (a = "start" => Starting) /\ (a = "call" => Calling)
  BY <1>1, <1>2 DEF StartInv, Generating, Starting, Calling
<1>4. /\ began["start"] \in Nat /\ began["call"] \in Nat /\ day \in Nat
      /\ began["start"] <= day /\ began["call"] <= day
  BY <1>1, Numbers DEF Actors
<1>5. day <= began[a] + 1
  BY <1>1, <1>2, <1>3 DEF ClockInv
<1>6. raced = "no" /\ Starting /\ Calling => began["start"] = day /\ began["call"] = day
  BY <1>1, <1>4 DEF DatesInv, DateInv, ClockInv
<1> QED
  BY <1>2, <1>3, <1>4, <1>5, <1>6

LEMMA ThisDayStep ==
  ASSUME IInv, NEW a \in Actors, ThisDay(a)
  PROVE  IInv'
<1>1. /\ Goto(a, "day", "name") /\ thisDay' = day /\ fileName' = Odd
      /\ UNCHANGED <<days, logName, day, starts, files, lines, fp, opened, began, mine, caller, stamp,
                     tm, task, taskMine, limit, victim, raced>>
  BY DEF ThisDay, option, disk, line, history
<1>2. TypeOK /\ ClockInv /\ StartInv /\ (raced = "no" => DatesInv)
  BY DEF IInv
<1>3. pc[a] = "day" /\ pc'[a] = "name" /\ (\A b \in Actors \ {a} : pc'[b] = pc[b]) /\ (a = "start" \/ a = "call")
  BY <1>1, <1>2, Goes DEF Actors
<1>4. /\ day \in Nat /\ FirstDay \in Nat /\ FirstDay <= day /\ thisDay \in Int /\ thisDay <= day
      /\ \A b \in Actors : began[b] \in Nat /\ began[b] <= day /\ mine[b] \in Nat
  BY <1>2, Numbers
<1>5. /\ began[a] <= day /\ day <= began[a] + 1 /\ pc["start"] \notin {"down", "thread"}
      /\ (a = "start" => Starting) /\ (a = "call" => Calling)
  BY <1>3, Days DEF Generating
<1>6. pc' \in [Actors -> {"down", "thread", "store", "up", "idle", "stamp", "check", "test",
                        "write", "return"} \cup Generating]
  BY <1>1, <1>2 DEF TypeOK, Goto, Generating
<1>7. TypeOK'
  BY <1>1, <1>2, <1>3, <1>4, <1>6 DEF TypeOK, Generating, Actors
<1>8. ClockInv'
  BY <1>1, <1>2, <1>3, <1>4, <1>5 DEF ClockInv, Naming, Starting, Calling, Actors
<1>9. StartInv'
  BY <1>1, <1>2, <1>3, <1>5, NoDates DEF StartInv, Naming, Actors
<1>10. raced = "no" => DatesInv'
  <2> SUFFICES ASSUME raced = "no" PROVE DatesInv'
    OBVIOUS
  <2>1. DateInv /\ NameInv /\ FileInv /\ TaskInv /\ LinesInv
    BY <1>2 DEF DatesInv
  <2>2. /\ Starting' = Starting /\ Calling' = Calling
        /\ Starting /\ Calling => began["start"] = day /\ began["call"] = day
    BY <1>2, <1>3, <1>4, <1>5, <2>1 DEF DateInv, ClockInv, Starting, Calling, Actors
  <2>3. \A b \in Actors : pc[b] = "named" => mine[b] <= day /\ mine[b] \in {day, day + 1}
    <3> SUFFICES ASSUME NEW b \in Actors, pc[b] = "named" PROVE mine[b] = day
      BY <1>4
    <3>1. Starting /\ Calling /\ began[b] <= thisDay
      BY <1>2, <1>3, <1>5 DEF Actors, Starting, Calling, ClockInv, Naming
    <3>2. began[b] = day
      BY <2>2, <3>1 DEF Actors
    <3>3. mine[b] <= day /\ mine[b] \in {thisDay, thisDay + 1}
      BY <2>1 DEF DateInv
    <3> QED
      BY <1>4, <3>1, <3>2, <3>3
  <2>4. DateInv'
    BY <1>1, <1>3, <2>1, <2>2, <2>3 DEF DateInv, Naming, Actors
  <2>5. opened \in Dates => opened \in {day, day + 1} /\ opened \in Int
    <3> SUFFICES ASSUME opened \in Dates PROVE opened = day /\ opened \in Int
      OBVIOUS
    <3>1. pc["start"] = "store"
      BY <1>2, NoDates DEF StartInv
    <3>2. Starting /\ Calling
      BY <1>3, <1>5, <3>1 DEF Starting
    <3>3. began["start"] <= opened /\ opened <= day /\ opened \in Int
      BY <1>2, <2>1, Numbers DEF NameInv
    <3> QED
      BY <1>4, <2>2, <3>2, <3>3
  <2>6. NameInv'
    BY <1>1, <2>1, <2>5, NoDates DEF NameInv
  <2>7. Starting' /\ began'["start"] = day' => thisDay' \in {Null, day'} /\ fp' \in {Null, Gone, Odd, day'}
    BY <1>1, <2>1, <2>2 DEF FileInv
  <2>8. (fp' = Odd \/ opened' = Odd) => pc'["start"] \notin {"thread", "day"}
    BY <1>1, <1>3, <2>1 DEF FileInv, Actors
  <2>9. opened' = Odd => thisDay' = began'["start"]
    <3> SUFFICES ASSUME opened = Odd PROVE day = began["start"]
      BY <1>1
    <3>1. pc["start"] = "store"
      BY <1>2, NoDates DEF StartInv
    <3> QED
      BY <1>3, <1>5, <2>2, <3>1 DEF Starting
  <2>10. pc'["call"] \notin Naming => a = "start"
    BY <1>3 DEF Naming
  <2>11. ASSUME a = "start"
         PROVE  /\ StartedToday' /\ pc'["call"] \notin Naming =>
                     /\ fp' \in Dates => fp' <= day' /\ fp' \in {thisDay', thisDay' + 1}
                     /\ logName' = "plain" /\ fp' = Gone => ~Starting' /\ thisDay' < day' - 1
                /\ fp' = Odd /\ pc'["call"] \notin Naming => thisDay' = began'["start"]
    <3>1. fp' # Odd
      BY <1>1, <1>3, <2>1, <2>11 DEF FileInv
    <3>2. ASSUME StartedToday', pc'["call"] \notin Naming, fp' \in Dates
          PROVE  fp' <= day' /\ fp' \in {thisDay', thisDay' + 1}
      <4>1. began["start"] = day /\ Starting
        BY <1>1, <1>5, <2>2, <2>11, <3>2 DEF StartedToday
      <4>2. fp = day
        BY <1>1, <2>1, <3>2, <4>1, NoDates DEF FileInv
      <4> QED
        BY <1>1, <1>4, <4>2
    <3>3. ASSUME StartedToday', pc'["call"] \notin Naming, logName' = "plain"
          PROVE  fp' # Gone
      <4>1. StartedToday /\ pc["call"] \notin Naming /\ Starting
        BY <1>1, <1>3, <1>5, <2>2, <2>11, <3>3 DEF StartedToday, Actors
      <4> QED
        BY <1>1, <2>1, <3>3, <4>1 DEF FileInv
    <3> QED
      BY <3>1, <3>2, <3>3
  <2>12. FileInv'
    BY <2>7, <2>8, <2>9, <2>10, <2>11 DEF FileInv
  <2>13. TaskInv' /\ LinesInv'
    BY <1>1, <2>1 DEF TaskInv, LinesInv
  <2> QED
    BY <2>4, <2>6, <2>12, <2>13 DEF DatesInv
<1> QED
  BY <1>1, <1>7, <1>8, <1>9, <1>10 DEF IInv

LEMMA DateDayStep ==
  ASSUME IInv, NEW a \in Actors, DateDay(a)
  PROVE  IInv'
<1>1. /\ Goto(a, "name", "named") /\ tm' = day /\ mine' = [mine EXCEPT ![a] = day]
      /\ UNCHANGED <<days, logName, day, starts, files, lines, fp, opened, thisDay, fileName, began, caller,
                     stamp, task, taskMine, limit, victim, raced>>
  BY DEF DateDay, Gmtime, option, disk, name, line, history
<1>2. TypeOK /\ ClockInv /\ StartInv /\ (raced = "no" => DatesInv)
  BY DEF IInv
<1>3. pc[a] = "name" /\ pc'[a] = "named" /\ (\A b \in Actors \ {a} : pc'[b] = pc[b]) /\ (a = "start" \/ a = "call")
  BY <1>1, <1>2, Goes DEF Actors
<1>4. day \in Nat /\ day \in Dates /\ thisDay \in Int /\ thisDay <= day /\ began[a] \in Nat
  BY <1>2, Numbers, IsDate
<1>5. began[a] <= thisDay /\ day <= began[a] + 1 /\ pc["start"] \notin {"down", "thread"}
  BY <1>2, <1>3, Days DEF Generating, ClockInv, Naming
<1>6. mine' \in [Actors -> Dates] /\ mine'[a] = day /\ \A b \in Actors \ {a} : mine'[b] = mine[b]
  BY <1>1, <1>2, <1>4 DEF TypeOK
<1>7. pc' \in [Actors -> {"down", "thread", "store", "up", "idle", "stamp", "check", "test",
                        "write", "return"} \cup Generating]
  BY <1>1, <1>2 DEF TypeOK, Goto, Generating
<1>8. TypeOK'
  BY <1>1, <1>2, <1>3, <1>4, <1>6, <1>7 DEF TypeOK, Generating, Actors
<1>9. ClockInv'
  BY <1>1, <1>2, <1>3 DEF ClockInv, Naming, Starting, Calling, Actors
<1>10. StartInv'
  BY <1>1, <1>2, <1>3, <1>5 DEF StartInv, Naming, Actors
<1>11. day = thisDay \/ day = thisDay + 1
  BY <1>4, <1>5
<1>12. raced = "no" => DateInv'
  BY <1>1, <1>2, <1>3, <1>4, <1>6, <1>11 DEF DatesInv, DateInv, Naming, Starting, Calling, Actors
<1>13. raced = "no" => NameInv' /\ FileInv' /\ TaskInv' /\ LinesInv'
  BY <1>1, <1>2, <1>3
     DEF DatesInv, NameInv, FileInv, TaskInv, LinesInv, Naming, Starting, StartedToday, Actors
<1> QED
  BY <1>1, <1>8, <1>9, <1>10, <1>12, <1>13 DEF IInv, DatesInv

(* The name is that of the day, unless the other has begun to write it.    *)
LEMMA FileNameStep ==
  ASSUME IInv, NEW a \in Actors, FileName(a)
  PROVE  IInv'
<1>1. /\ Goto(a, "named", "delete") /\ tm' = day - days /\ mine' = [mine EXCEPT ![a] = day - days]
      /\ UNCHANGED <<days, logName, day, starts, files, lines, fp, opened, thisDay, began, caller, stamp,
                     task, taskMine, limit, victim>>
  BY DEF FileName, Gmtime, option, disk, line, history
<1>2. TypeOK /\ ClockInv /\ StartInv /\ (raced = "no" => DatesInv)
  BY DEF IInv
<1>3. /\ pc[a] = "named" /\ pc'[a] = "delete" /\ (\A b \in Actors \ {a} : pc'[b] = pc[b])
      /\ (a = "start" \/ a = "call")
  BY <1>1, <1>2, Goes DEF Actors
<1>4. day \in Nat /\ days \in Nat /\ day - days \in Dates /\ thisDay \in Int
  <2>1. day \in Nat /\ days \in Nat /\ 1 <= days /\ days <= day /\ thisDay \in Int
    BY <1>2, Numbers
  <2>2. day - days \in Int /\ 0 <= day - days /\ day - days <= day
    BY <2>1
  <2> QED
    BY <1>2, <2>1, <2>2, IsDate
<1>5. /\ raced' \in {"no", "yes"} /\ fileName' \in Dates \cup {Odd}
      /\ fileName' = Odd => \E b \in Actors \ {a} : pc[b] \in {"name", "named"}
      /\ raced' = "no" => raced = "no" /\ fileName' \in {mine[a], Odd}
  <2>1. mine[a] \in Dates
    BY <1>2 DEF TypeOK
  <2>2. CASE \E date \in Dates : Reading(mine[a], date) /\ fileName' \in Written(a, date)
    <3>1. PICK date \in Dates : Reading(mine[a], date) /\ fileName' \in Written(a, date)
      BY <2>2
    <3>2. raced' \in {"no", "yes"} /\ (raced' = "no" => raced = "no" /\ date = mine[a])
      BY <1>2, <2>1, <3>1, ReadsDate
    <3> QED
      BY <3>1, <3>2, NoDates DEF Written
  <2>3. CASE /\ \E date \in Mixed(mine[a], tm) : fileName' \in Mixed(date, fileName)
             /\ raced' = "yes"
    BY <2>3, NoDates DEF Mixed
  <2> QED
    BY <2>2, <2>3 DEF FileName
<1>6. mine' \in [Actors -> Dates] /\ mine'[a] = day - days /\ \A b \in Actors \ {a} : mine'[b] = mine[b]
  BY <1>1, <1>2, <1>4 DEF TypeOK
<1>7. pc' \in [Actors -> {"down", "thread", "store", "up", "idle", "stamp", "check", "test",
                        "write", "return"} \cup Generating]
  BY <1>1, <1>2 DEF TypeOK, Goto, Generating
<1>8. TypeOK'
  BY <1>1, <1>2, <1>3, <1>4, <1>5, <1>6, <1>7 DEF TypeOK, Generating, Actors
<1>9. ClockInv'
  BY <1>1, <1>2, <1>3 DEF ClockInv, Naming, Starting, Calling, Actors
<1>10. pc["start"] \notin {"down", "thread"}
  BY <1>3, Days DEF Generating
<1>11. StartInv'
  BY <1>1, <1>2, <1>3, <1>5, <1>10, NoDates DEF StartInv, Naming, Actors
<1>12. raced' = "no" => raced = "no" /\ DateInv'
  BY <1>1, <1>2, <1>3, <1>4, <1>5, <1>6 DEF DatesInv, DateInv, Naming, Starting, Calling, Actors
<1>13. raced' = "no" => NameInv'
  BY <1>1, <1>2, <1>3, <1>5, NoDates DEF DatesInv, DateInv, NameInv
<1>14. raced' = "no" => FileInv' /\ TaskInv' /\ LinesInv'
  BY <1>1, <1>2, <1>3, <1>5 DEF DatesInv, FileInv, TaskInv, LinesInv, Naming, Starting, StartedToday, Actors
<1> QED
  BY <1>8, <1>9, <1>11, <1>12, <1>13, <1>14 DEF IInv, DatesInv

(* An unlink by generate_filename or the history thread. *)
LEMMA UnlinkedFile ==
  ASSUME TypeOK, ClockInv, StartInv, DatesInv, NEW f \in Dates, Unlink(f),
         logName = "plain" => f < day,
         (logName = "plain" => f < day - 1) \/ pc["call"] = "delete" \/ pc["start"] = "delete",
         UNCHANGED <<day, thisDay, fileName, began, logName>>,
         \A a \in Actors : pc'[a] = pc[a] \/ (pc[a] = "delete" /\ pc'[a] = "open")
  PROVE  NameInv' /\ FileInv'
<1>1. DateInv /\ NameInv /\ FileInv
  BY DEF DatesInv
<1>2. fp' = (IF fp = f THEN Gone ELSE fp) /\ opened' = (IF opened = f THEN Gone ELSE opened)
  BY Unlinks
<1>3. /\ day \in Nat /\ thisDay \in Int /\ thisDay <= day /\ f \in Nat
      /\ began["start"] \in Nat /\ began["call"] \in Nat
  BY Numbers DEF Actors
<1>4. /\ Starting' = Starting /\ (pc'["call"] \in Naming <=> pc["call"] \in Naming)
      /\ pc'["start"] \in {"thread", "day"} => pc["start"] \in {"thread", "day"}
  BY DEF Starting, Naming, Actors
<1>5. logName = "plain" => opened' # Gone
  <2> SUFFICES ASSUME logName = "plain", opened = f PROVE FALSE
    BY <1>1, <1>2 DEF NameInv
  <2>1. pc["start"] = "store"
    BY NoDates DEF StartInv
  <2>2. Starting /\ day <= began["start"] + 1 /\ began["start"] <= f
    BY <1>1, <2>1 DEF ClockInv, Starting, NameInv
  <2>3. pc["call"] = "delete" => began["start"] = day
    BY <1>1, <2>2 DEF DateInv, Calling
  <2> QED
    BY <1>3, <2>1, <2>2, <2>3
<1>6. NameInv'
  BY <1>1, <1>2, <1>5, NoDates DEF NameInv
<1>7. ASSUME StartedToday', pc'["call"] \notin Naming, logName' = "plain", fp' = Gone
      PROVE  ~Starting' /\ thisDay' < day' - 1
  <2>1. StartedToday /\ pc["call"] \notin Naming /\ logName = "plain"
    BY <1>4, <1>7 DEF StartedToday
  <2>2. CASE fp = Gone
    BY <1>1, <1>4, <2>1, <2>2 DEF FileInv
  <2>3. CASE fp = f
    <3>1. ~Starting
      BY <1>1, <1>3, <2>1, <2>3, NoDates DEF FileInv, StartedToday
    <3>2. f < day - 1
      BY <2>1, <3>1 DEF Naming, Starting
    <3>3. f \in {thisDay, thisDay + 1}
      BY <1>1, <2>1, <2>3 DEF FileInv
    <3> QED
      BY <1>3, <1>4, <3>1, <3>2, <3>3
  <2> QED
    BY <1>2, <1>7, <2>2, <2>3
<1>8. ASSUME StartedToday', pc'["call"] \notin Naming, fp' \in Dates
      PROVE  fp' <= day' /\ fp' \in {thisDay', thisDay' + 1}
  <2>1. StartedToday /\ pc["call"] \notin Naming /\ fp' = fp
    BY <1>2, <1>4, <1>8, NoDates DEF StartedToday
  <2> QED
    BY <1>1, <1>8, <2>1 DEF FileInv
<1>9. FileInv'
  BY <1>1, <1>2, <1>4, <1>7, <1>8, NoDates DEF FileInv
<1> QED
  BY <1>6, <1>9

LEMMA DeleteOldStep ==
  ASSUME IInv, NEW a \in Actors, DeleteOld(a)
  PROVE  IInv'
<1>1. /\ Goto(a, "delete", "open")
      /\ UNCHANGED <<days, logName, day, starts, thisDay, fileName, began, mine, caller, stamp,
                     tm, task, taskMine, limit, victim>>
  BY DEF DeleteOld, option, line, history
<1>2. PICK f \in Dates : Reading(mine[a], f) /\ Unlink(f)
  BY DEF DeleteOld
<1>3. TypeOK /\ ClockInv /\ StartInv /\ (raced = "no" => DatesInv)
  BY DEF IInv
<1>4. /\ pc[a] = "delete" /\ pc'[a] = "open" /\ (\A b \in Actors \ {a} : pc'[b] = pc[b])
      /\ (a = "start" \/ a = "call")
  BY <1>1, <1>3, Goes DEF Actors
<1>5. raced' \in {"no", "yes"} /\ (raced' = "no" => raced = "no" /\ f = mine[a])
  BY <1>2, <1>3, ReadsDate DEF TypeOK
<1>6. /\ files' \subseteq Dates /\ lines' \in [Dates -> SUBSET Dates]
      /\ \A g \in Dates \ files' : lines'[g] = {}
      /\ {fp', opened'} \subseteq files' \cup {Null, Gone, Odd} /\ (LinesInv => LinesInv')
  BY <1>2, <1>3, Unlinks
<1>7. pc' \in [Actors -> {"down", "thread", "store", "up", "idle", "stamp", "check", "test",
                        "write", "return"} \cup Generating]
  BY <1>1, <1>3 DEF TypeOK, Goto, Generating
<1>8. TypeOK'
  BY <1>1, <1>3, <1>4, <1>5, <1>6, <1>7 DEF TypeOK, Generating, Actors
<1>9. ClockInv'
  BY <1>1, <1>3, <1>4 DEF ClockInv, Naming, Starting, Calling, Actors
<1>10. pc["start"] \notin {"down", "thread"}
  BY <1>4, Days DEF Generating
<1>11. opened = Null => opened' = Null
  BY <1>2, NoDates DEF Unlink
<1>12. StartInv'
  BY <1>1, <1>3, <1>4, <1>10, <1>11 DEF StartInv, Naming, Actors
<1>13. raced' = "no" => DatesInv'
  <2> SUFFICES ASSUME raced' = "no" PROVE DatesInv'
    OBVIOUS
  <2>1. DateInv /\ NameInv /\ FileInv /\ TaskInv /\ LinesInv /\ DatesInv
    BY <1>3, <1>5 DEF DatesInv
  <2>2. DateInv'
    BY <1>1, <1>4, <2>1 DEF DateInv, Naming, Starting, Calling, Actors
  <2>3. f < day
    <3>1. f <= day - days
      BY <1>4, <1>5, <2>1 DEF DateInv
    <3>2. day \in Nat /\ days \in Nat /\ 1 <= days /\ f \in Nat
      BY <1>3, Numbers
    <3> QED
      BY <3>1, <3>2
  <2>4. NameInv' /\ FileInv'
    BY <1>1, <1>2, <1>3, <1>4, <2>1, <2>3, UnlinkedFile
  <2>5. TaskInv' /\ LinesInv'
    BY <1>1, <1>6, <2>1 DEF TaskInv
  <2> QED
    BY <2>2, <2>4, <2>5 DEF DatesInv
<1> QED
  BY <1>8, <1>9, <1>12, <1>13 DEF IInv
-----------------------------------------------------------------------------
(* The steps of a call of logger. *)

(* logger begins, called by the history thread or another. *)
LEMMA BeginStep ==
  ASSUME IInv, NEW who \in {"history", "other"}, Begin(who), pc["start"] # "down",
         UNCHANGED <<option, day, starts, disk, name, stamp, taskMine>>,
         task' \in {"none", "sleep", "limit", "scan", "announce", "unlink", "complain"},
         limit' \in Dates, victim' \in Dates, raced = "no" => TaskInv'
  PROVE  IInv'
<1>1. /\ Goto("call", "idle", "stamp") /\ began' = [began EXCEPT !["call"] = day] /\ caller' = who
      /\ tm' = day /\ mine' = [mine EXCEPT !["call"] = day]
      /\ raced' = (IF Starting /\ began["start"] # day THEN "yes" ELSE raced)
      /\ UNCHANGED <<days, logName, day, starts, files, lines, fp, opened, thisDay, fileName, stamp, taskMine>>
  BY DEF Begin, Gmtime, option, disk, name
<1>2. TypeOK /\ ClockInv /\ StartInv /\ (raced = "no" => DatesInv)
  BY DEF IInv
<1>3. pc["call"] = "idle" /\ pc'["call"] = "stamp" /\ pc'["start"] = pc["start"]
  BY <1>1, <1>2, Goes DEF Actors
<1>4. /\ day \in Nat /\ FirstDay <= day /\ FirstDay \in Nat /\ day \in Dates /\ began["start"] <= day
      /\ began["start"] \in Nat
  BY <1>2, Numbers, IsDate DEF Actors
<1>5. /\ mine' \in [Actors -> Dates] /\ mine'["call"] = day /\ mine'["start"] = mine["start"]
      /\ began' \in [Actors -> FirstDay..day] /\ began'["call"] = day /\ began'["start"] = began["start"]
  BY <1>1, <1>2, <1>4 DEF TypeOK, Actors
<1>6. TypeOK'
  BY <1>1, <1>2, <1>3, <1>4, <1>5 DEF TypeOK, Goto
<1>7. ClockInv'
  BY <1>1, <1>2, <1>3, <1>4, <1>5 DEF ClockInv, Naming, Starting, Calling, Actors
<1>8. StartInv'
  BY <1>1, <1>2, <1>3 DEF StartInv, Naming, Actors
<1>9. raced' = "no" => raced = "no" /\ DateInv'
  BY <1>1, <1>2, <1>3, <1>5 DEF DatesInv, DateInv, Naming, Starting, Calling, Actors
<1>10. raced' = "no" => NameInv' /\ FileInv' /\ LinesInv'
  BY <1>1, <1>2, <1>3, <1>5
     DEF DatesInv, NameInv, FileInv, LinesInv, Naming, Starting, StartedToday, Actors
<1> QED
  BY <1>6, <1>7, <1>8, <1>9, <1>10 DEF IInv, DatesInv

LEMMA LoggerStep ==
  ASSUME IInv, Logger
  PROVE  IInv'
<1>1. task' = task /\ limit' = limit /\ victim' = victim /\ taskMine' = taskMine
  BY DEF Logger, history
<1>2. task' \in {"none", "sleep", "limit", "scan", "announce", "unlink", "complain"}
      /\ limit' \in Dates /\ victim' \in Dates
  BY <1>1 DEF IInv, TypeOK
<1>3. day' = day /\ logName' = logName
  BY DEF Logger, option
<1>4. raced = "no" => TaskInv'
  BY <1>1, <1>3 DEF IInv, DatesInv, TaskInv
<1> QED
  BY <1>1, <1>2, <1>4, BeginStep DEF Logger

LEMMA StampStep ==
  ASSUME IInv, Stamp
  PROVE  IInv'
<1>1. /\ Goto("call", "stamp", "check") /\ Reading(mine["call"], stamp')
      /\ UNCHANGED <<days, logName, day, starts, files, lines, fp, opened, thisDay, fileName, began, caller,
                     tm, mine, task, taskMine, limit, victim>>
  BY DEF Stamp, option, disk, name, history
<1>2. TypeOK /\ ClockInv /\ StartInv /\ (raced = "no" => DatesInv)
  BY DEF IInv
<1>3. pc["call"] = "stamp" /\ pc'["call"] = "check" /\ pc'["start"] = pc["start"]
  BY <1>1, <1>2, Goes DEF Actors
<1>4. stamp' \in Dates /\ raced' \in {"no", "yes"} /\ (raced' = "no" => raced = "no" /\ stamp' = mine["call"])
  BY <1>1, <1>2, ReadsDate DEF TypeOK, Actors
<1>5. TypeOK'
  BY <1>1, <1>2, <1>3, <1>4 DEF TypeOK, Goto
<1>6. ClockInv'
  BY <1>1, <1>2, <1>3 DEF ClockInv, Naming, Starting, Calling, Actors
<1>7. StartInv'
  BY <1>1, <1>2, <1>3 DEF StartInv, Naming, Actors
<1>8. raced' = "no" => DateInv'
  BY <1>1, <1>2, <1>3, <1>4 DEF DatesInv, DateInv, Naming, Starting, Calling, Actors
<1>9. raced' = "no" => NameInv' /\ FileInv' /\ TaskInv' /\ LinesInv'
  BY <1>1, <1>2, <1>3, <1>4
     DEF DatesInv, NameInv, FileInv, TaskInv, LinesInv, Naming, Starting, StartedToday, Actors
<1> QED
  BY <1>5, <1>6, <1>7, <1>8, <1>9 DEF IInv, DatesInv

(* A line goes to the open file only on the day of that file. *)
LEMMA CheckStep ==
  ASSUME IInv, Check
  PROVE  IInv'
<1>1. /\ pc["call"] = "check"
      /\ pc' = [pc EXCEPT !["call"] = pc'["call"]]
      /\ pc'["call"] \in {"return", "day", "write"} /\ pc'["start"] = pc["start"]
      /\ pc'["call"] = "write" => day = thisDay
      /\ pc'["call"] \in {"day", "write"} => pc["start"] # "thread"
      /\ UNCHANGED <<days, logName, day, starts, files, lines, fp, opened, thisDay, fileName, began, mine,
                     caller, stamp, tm, task, taskMine, limit, victim, raced>>
  BY DEF Check, option, disk, name, line, history, IInv, TypeOK, Actors
<1>2. TypeOK /\ ClockInv /\ StartInv /\ (raced = "no" => DatesInv)
  BY DEF IInv
<1>3. day \in Nat /\ began["call"] \in Nat /\ began["call"] <= day
  BY <1>2, Numbers DEF Actors
<1>4. pc["start"] # "down"
  BY <1>1, <1>2 DEF StartInv
<1>5. pc' \in [Actors -> {"down", "thread", "store", "up", "idle", "stamp", "check", "test",
                        "write", "return"} \cup Generating]
  BY <1>1, <1>2 DEF TypeOK, Generating
<1>6. TypeOK'
  BY <1>1, <1>2, <1>5 DEF TypeOK, Generating
<1>7. ClockInv'
  BY <1>1, <1>2, <1>3 DEF ClockInv, Naming, Starting, Calling, Actors
<1>8. StartInv'
  BY <1>1, <1>2, <1>4 DEF StartInv, Naming, Actors
<1>9. raced' = "no" => DateInv'
  BY <1>1, <1>2 DEF DatesInv, DateInv, Naming, Starting, Calling, Actors
<1>10. raced' = "no" => NameInv' /\ FileInv' /\ TaskInv' /\ LinesInv'
  BY <1>1, <1>2
     DEF DatesInv, NameInv, FileInv, TaskInv, LinesInv, Naming, Starting, StartedToday, Actors
<1> QED
  BY <1>6, <1>7, <1>8, <1>9, <1>10 DEF IInv, DatesInv

LEMMA OpenStep ==
  ASSUME IInv, Open
  PROVE  IInv'
<1>1. /\ Goto("call", "open", "test")
      /\ UNCHANGED <<days, logName, day, starts, lines, opened, thisDay, fileName, began, mine, caller, stamp,
                     tm, task, taskMine, limit, victim, raced>>
  BY DEF Open, option, line, history
<1>2. TypeOK /\ ClockInv /\ StartInv /\ (raced = "no" => DatesInv)
  BY DEF IInv
<1>3. pc["call"] = "open" /\ pc'["call"] = "test" /\ pc'["start"] = pc["start"]
  BY <1>1, <1>2, Goes DEF Actors
<1>4. /\ began["call"] <= day /\ day <= began["call"] + 1 /\ pc["start"] \notin {"down", "thread"}
  BY <1>3, Days DEF Generating, Actors
<1>5. fileName \in Dates \cup {Odd}
  BY <1>2, <1>3 DEF TypeOK, StartInv, Naming
<1>6. \/ fp' = fileName /\ files' = (IF fileName = Odd THEN files ELSE files \cup {fileName})
      \/ fp' = Null /\ files' = files
  BY DEF Open
<1>7. /\ files' \subseteq Dates /\ files \subseteq files' /\ (\A g \in Dates \ files' : lines'[g] = {})
      /\ {fp', opened'} \subseteq files' \cup {Null, Gone, Odd}
      /\ LinesInv => LinesInv'
  <2>1. /\ files \subseteq Dates /\ (\A g \in Dates \ files : lines[g] = {})
        /\ opened \in files \cup {Null, Gone, Odd}
    BY <1>2 DEF TypeOK
  <2> QED
    BY <1>1, <1>5, <1>6, <2>1, NoDates DEF LinesInv
<1>8. TypeOK'
  BY <1>1, <1>2, <1>3, <1>7 DEF TypeOK, Goto
<1>9. ClockInv'
  BY <1>1, <1>2, <1>3 DEF ClockInv, Naming, Starting, Calling, Actors
<1>10. StartInv'
  BY <1>1, <1>2, <1>3, <1>4 DEF StartInv, Naming, Actors
<1>11. raced' = "no" => DateInv'
  BY <1>1, <1>2, <1>3 DEF DatesInv, DateInv, Naming, Starting, Calling, Actors
<1>12. raced' = "no" => NameInv' /\ TaskInv'
  BY <1>1, <1>2 DEF DatesInv, NameInv, TaskInv
<1>13. raced' = "no" => FileInv'
  <2> SUFFICES ASSUME raced = "no" PROVE FileInv'
    BY <1>1
  <2>1. DateInv /\ NameInv /\ FileInv
    BY <1>2 DEF DatesInv
  <2>2. /\ day \in Nat /\ thisDay \in Int /\ thisDay <= day
        /\ began["start"] \in Nat /\ began["call"] \in Nat /\ began["start"] <= began["call"]
        /\ began["call"] <= thisDay
    BY <1>2, <1>3, Numbers DEF Actors, ClockInv, Calling, Naming
  <2>3. fp' = Odd => pc["start"] \in {"name", "named"} /\ thisDay = began["start"]
    <3> SUFFICES ASSUME fileName = Odd PROVE pc["start"] \in {"name", "named"} /\ thisDay = began["start"]
      BY <1>6, NoDates
    <3>1. pc["start"] \in {"name", "named"}
      BY <1>2, <1>3 DEF StartInv, Actors
    <3>2. began["start"] = day
      BY <1>3, <2>1, <3>1 DEF DateInv, Starting, Calling
    <3> QED
      BY <2>2, <3>1, <3>2
  <2>4. fp' \in Dates => fp' = fileName /\ fp' <= day /\ fp' \in {thisDay, thisDay + 1}
    BY <1>6, <2>1, NoDates DEF NameInv
  <2>5. ASSUME Starting, began["start"] = day
        PROVE  fp' \in {Null, Odd, day}
    <3>1. fileName \in Dates => fileName = day
      <4>1. fileName \in Dates => fileName <= day /\ fileName \in {thisDay, thisDay + 1}
        BY <2>1 DEF NameInv
      <4>2. thisDay = day
        BY <2>2, <2>5
      <4> QED
        BY <2>2, <4>1, <4>2
    <3> QED
      BY <1>5, <1>6, <3>1
  <2>6. fp' # Gone
    BY <1>5, <1>6, NoDates
  <2> QED
    BY <1>1, <1>3, <2>1, <2>3, <2>4, <2>5, <2>6 DEF FileInv, Starting, StartedToday
<1> QED
  BY <1>1, <1>7, <1>8, <1>9, <1>10, <1>11, <1>12, <1>13 DEF IInv, DatesInv

LEMMA OpenedStep ==
  ASSUME IInv, Opened
  PROVE  IInv'
<1>1. /\ pc["call"] = "test" /\ pc' = [pc EXCEPT !["call"] = pc'["call"]]
      /\ pc'["call"] \in {"return", "write"} /\ pc'["start"] = pc["start"]
      /\ UNCHANGED <<days, logName, day, starts, files, lines, fp, opened, thisDay, fileName, began, mine,
                     caller, stamp, tm, task, taskMine, limit, victim, raced>>
  BY DEF Opened, option, disk, name, line, history, IInv, TypeOK, Actors
<1>2. TypeOK /\ ClockInv /\ StartInv /\ (raced = "no" => DatesInv)
  BY DEF IInv
<1>3. TypeOK'
  BY <1>1, <1>2 DEF TypeOK
<1>4. ClockInv'
  BY <1>1, <1>2 DEF ClockInv, Naming, Starting, Calling, Actors
<1>5. StartInv'
  BY <1>1, <1>2 DEF StartInv, Naming, Actors
<1>6. raced' = "no" => DateInv'
  BY <1>1, <1>2 DEF DatesInv, DateInv, Naming, Starting, Calling, Actors
<1>7. raced' = "no" => NameInv' /\ FileInv' /\ TaskInv' /\ LinesInv'
  BY <1>1, <1>2
     DEF DatesInv, NameInv, FileInv, TaskInv, LinesInv, Naming, Starting, StartedToday, Actors
<1> QED
  BY <1>3, <1>4, <1>5, <1>6, <1>7 DEF IInv, DatesInv

(* The line is of the day of the file, or of the day before. *)
LEMMA WriteStep ==
  ASSUME IInv, Write
  PROVE  IInv'
<1>1. /\ Goto("call", "write", "return")
      /\ UNCHANGED <<days, logName, day, starts, files, fp, opened, thisDay, fileName, began, mine, caller, stamp,
                     tm, task, taskMine, limit, victim, raced>>
  BY DEF Write, option, name, line, history
<1>2. TypeOK /\ ClockInv /\ StartInv /\ (raced = "no" => DatesInv)
  BY DEF IInv
<1>3. pc["call"] = "write" /\ pc'["call"] = "return" /\ pc'["start"] = pc["start"]
  BY <1>1, <1>2, Goes DEF Actors
<1>4. /\ lines' \in [Dates -> SUBSET Dates]
      /\ \A g \in Dates \ files : lines'[g] = {}
      /\ \A g \in Dates : lines'[g] = lines[g] \/ (g = fp /\ lines'[g] = lines[g] \cup {stamp})
  <2>1. /\ lines \in [Dates -> SUBSET Dates] /\ stamp \in Dates /\ fp \in files \cup {Null, Gone, Odd}
        /\ \A g \in Dates \ files : lines[g] = {}
    BY <1>2 DEF TypeOK
  <2>2. CASE lines' = lines
    BY <2>1, <2>2
  <2>3. CASE fp \in Dates /\ lines' = [lines EXCEPT ![fp] = lines[fp] \cup {stamp}]
    <3>1. lines' \in [Dates -> SUBSET Dates]
      BY <2>1, <2>3
    <3>2. \A g \in Dates : lines'[g] = IF g = fp THEN lines[fp] \cup {stamp} ELSE lines[g]
      BY <2>1, <2>3
    <3> QED
      BY <2>1, <2>3, <3>1, <3>2, NoDates
  <2> QED
    BY <2>2, <2>3 DEF Write
<1>5. TypeOK'
  BY <1>1, <1>2, <1>3, <1>4 DEF TypeOK, Goto
<1>6. ClockInv'
  BY <1>1, <1>2, <1>3 DEF ClockInv, Naming, Starting, Calling, Actors
<1>7. StartInv'
  BY <1>1, <1>2, <1>3 DEF StartInv, Naming, Actors
<1>8. raced' = "no" => DateInv'
  BY <1>1, <1>2, <1>3 DEF DatesInv, DateInv, Naming, Starting, Calling, Actors
<1>9. raced' = "no" => NameInv' /\ FileInv' /\ TaskInv'
  BY <1>1, <1>2, <1>3 DEF DatesInv, NameInv, FileInv, TaskInv, Naming, Starting, StartedToday, Actors
<1>10. raced' = "no" => LinesInv'
  <2> SUFFICES ASSUME raced = "no", NEW f \in files PROVE lines'[f] \subseteq {f - 1, f}
    BY <1>1 DEF LinesInv
  <2>1. DateInv /\ FileInv /\ LinesInv
    BY <1>2 DEF DatesInv
  <2>2. /\ day \in Nat /\ thisDay \in Int /\ began["call"] \in Nat
        /\ began["call"] <= thisDay /\ day <= began["call"] + 1
    BY <1>2, <1>3, Numbers DEF Actors, ClockInv, Calling
  <2>3. stamp = began["call"]
    BY <1>3, <2>1 DEF DateInv
  <2>4. StartedToday
    BY <1>3, <2>1 DEF DateInv, StartedToday, Calling
  <2>5. f \in Dates /\ f \in Nat
    BY <1>2, Numbers DEF TypeOK
  <2>6. f = fp => f <= day /\ f \in {thisDay, thisDay + 1}
    BY <1>3, <2>1, <2>4, <2>5 DEF FileInv, Naming
  <2>7. f = fp => stamp \in {f - 1, f}
    BY <2>2, <2>3, <2>5, <2>6
  <2> QED
    BY <1>4, <2>1, <2>5, <2>7 DEF LinesInv
<1> QED
  BY <1>1, <1>5, <1>6, <1>7, <1>8, <1>9, <1>10 DEF IInv, DatesInv

LEMMA ReturnStep ==
  ASSUME IInv, Return
  PROVE  IInv'
<1>1. /\ Goto("call", "return", "idle") /\ stamp' = 0 /\ caller' = "other"
      /\ mine' = [mine EXCEPT !["call"] = 0] /\ began' = [began EXCEPT !["call"] = FirstDay]
      /\ \/ task = "announce" /\ task' = "unlink"
         \/ task = "complain" /\ task' = "scan"
         \/ task' = task
      /\ UNCHANGED <<days, logName, day, starts, files, lines, fp, opened, thisDay, fileName, tm,
                     taskMine, limit, victim, raced>>
  BY DEF Return, option, disk, name
<1>2. TypeOK /\ ClockInv /\ StartInv /\ (raced = "no" => DatesInv)
  BY DEF IInv
<1>3. pc["call"] = "return" /\ pc'["call"] = "idle" /\ pc'["start"] = pc["start"]
  BY <1>1, <1>2, Goes DEF Actors
<1>4. day \in Nat /\ FirstDay <= day /\ FirstDay \in Nat /\ 0 \in Dates
  BY <1>2, Numbers
<1>5. /\ mine' \in [Actors -> Dates] /\ mine'["start"] = mine["start"]
      /\ began' \in [Actors -> FirstDay..day] /\ began'["start"] = began["start"]
  BY <1>1, <1>2, <1>4 DEF TypeOK, Actors
<1>6. TypeOK'
  BY <1>1, <1>2, <1>3, <1>4, <1>5 DEF TypeOK, Goto
<1>7. ClockInv'
  BY <1>1, <1>2, <1>3, <1>5 DEF ClockInv, Naming, Starting, Calling, Actors
<1>8. StartInv'
  BY <1>1, <1>2, <1>3 DEF StartInv, Naming, Actors
<1>9. raced' = "no" => DateInv'
  BY <1>1, <1>2, <1>3, <1>5 DEF DatesInv, DateInv, Naming, Starting, Calling, Actors
<1>10. raced' = "no" => NameInv' /\ FileInv' /\ TaskInv' /\ LinesInv'
  BY <1>1, <1>2, <1>3, <1>5
     DEF DatesInv, NameInv, FileInv, TaskInv, LinesInv, Naming, Starting, StartedToday, Actors
<1> QED
  BY <1>1, <1>6, <1>7, <1>8, <1>9, <1>10 DEF IInv, DatesInv
-----------------------------------------------------------------------------
(* The history thread. *)

(* A step that leaves all but the thread and gmtime's buffer. *)
LEMMA TaskOnly ==
  ASSUME IInv, UNCHANGED <<option, day, starts, disk, name, place, mine, line>>,
         {tm', taskMine', limit', victim'} \subseteq Dates,
         task' \in {"none", "sleep", "limit", "scan", "announce", "unlink", "complain"},
         task = "none" => task' = "none",
         raced' \in {"no", "yes"}, raced' = "no" => raced = "no" /\ TaskInv'
  PROVE  IInv'
<1>1. UNCHANGED <<days, logName, day, starts, files, lines, fp, opened, thisDay, fileName, pc, began,
                  mine, caller, stamp>>
  BY DEF option, disk, name, place, line
<1>2. TypeOK /\ ClockInv /\ StartInv /\ (raced = "no" => DatesInv)
  BY DEF IInv
<1>3. TypeOK'
  BY <1>1, <1>2 DEF TypeOK
<1>4. ClockInv' /\ StartInv'
  BY <1>1, <1>2 DEF ClockInv, StartInv, Starting, Calling
<1>5. raced' = "no" => DateInv' /\ NameInv' /\ FileInv' /\ LinesInv'
  BY <1>1, <1>2 DEF DatesInv, DateInv, NameInv, FileInv, LinesInv, Starting, Calling, StartedToday
<1> QED
  BY <1>3, <1>4, <1>5 DEF IInv, DatesInv

LEMMA TaskWakesStep ==
  ASSUME IInv, TaskWakes
  PROVE  IInv'
<1>1. TypeOK
  BY DEF IInv
<1>2. day - TenDays \in Dates
  <2>1. day \in Nat /\ TenDays \in Nat /\ TenDays <= day
    BY <1>1, Numbers
  <2>2. day - TenDays \in Int /\ 0 <= day - TenDays /\ day - TenDays <= day
    BY <2>1
  <2> QED
    BY <1>1, <2>2, IsDate
<1>3. day' = day /\ logName' = logName
  BY DEF TaskWakes, option
<1>4. {tm', taskMine', limit', victim'} \subseteq Dates
  BY <1>1, <1>2 DEF TaskWakes, TypeOK
<1>5. raced' \in {"no", "yes"} /\ raced' = raced
  BY <1>1 DEF TaskWakes, TypeOK
<1>6. day - TenDays <= day' - TenDays
  BY <1>1, <1>3, Numbers
<1>7. TaskInv'
  BY <1>6 DEF TaskWakes, TaskInv
<1> QED
  BY <1>4, <1>5, <1>7, TaskOnly DEF TaskWakes

LEMMA TaskLimitStep ==
  ASSUME IInv, TaskLimit
  PROVE  IInv'
<1>1. TypeOK /\ (raced = "no" => TaskInv)
  BY DEF IInv, DatesInv
<1>2. /\ limit' \in Dates /\ raced' \in {"no", "yes"}
      /\ raced' = "no" => raced = "no" /\ limit' = taskMine
  BY <1>1, ReadsDate DEF TaskLimit, TypeOK
<1>3. {tm', taskMine', limit', victim'} \subseteq Dates
  BY <1>1, <1>2 DEF TaskLimit, TypeOK
<1>4. day' = day /\ logName' = logName /\ task = "limit" /\ task' = "scan"
  BY DEF TaskLimit, option
<1>5. raced' = "no" => TaskInv'
  BY <1>1, <1>2, <1>4 DEF TaskInv
<1> QED
  BY <1>2, <1>3, <1>4, <1>5, TaskOnly DEF TaskLimit

LEMMA TaskEntryStep ==
  ASSUME IInv, TaskEntry
  PROVE  IInv'
<1>1. /\ task = "scan" /\ UNCHANGED <<option, day, logName, starts, disk, name, taskMine, limit>>
  BY DEF TaskEntry, option
<1>2. PICK f \in files : FileDay(f) < limit /\ victim' = f
  BY DEF TaskEntry
<1>3. TypeOK /\ StartInv /\ (raced = "no" => TaskInv)
  BY DEF IInv, DatesInv
<1>4. victim' \in Dates /\ limit' \in Dates /\ taskMine' \in Dates /\ pc["start"] # "down"
  BY <1>1, <1>2, <1>3 DEF TypeOK, StartInv
<1>5. raced = "no" => TaskInv'
  BY <1>1, <1>2, <1>3 DEF TaskInv, FileDay, TaskEntry
<1>6. CASE task' = "unlink" /\ UNCHANGED <<place, mine, line, tm, raced>>
  <2>1. {tm', taskMine', limit', victim'} \subseteq Dates /\ raced' \in {"no", "yes"}
    BY <1>3, <1>4, <1>6 DEF TypeOK
  <2> QED
    BY <1>1, <1>5, <1>6, <2>1, TaskOnly
<1>7. CASE task' = "announce" /\ Begin("history") /\ UNCHANGED stamp
  <2>1. task' \in {"none", "sleep", "limit", "scan", "announce", "unlink", "complain"}
    BY <1>7
  <2> QED
    BY <1>1, <1>4, <1>5, <1>7, <2>1, BeginStep
<1> QED
  BY <1>6, <1>7 DEF TaskEntry

(* What the history thread removes is not the open file of a line that is  *)
(* about to be written.                                                    *)
LEMMA TaskUnlinkStep ==
  ASSUME IInv, TaskUnlink
  PROVE  IInv'
<1>1. /\ task = "unlink"
      /\ UNCHANGED <<days, logName, day, starts, thisDay, fileName, taskMine, limit, victim>>
  BY DEF TaskUnlink, option
<1>2. TypeOK /\ ClockInv /\ StartInv /\ (raced = "no" => DatesInv)
  BY DEF IInv
<1>3. victim \in Dates /\ limit \in Dates /\ pc["start"] # "down"
  BY <1>1, <1>2 DEF TypeOK, StartInv
<1>4. CASE Unlink(victim) /\ task' = "scan" /\ UNCHANGED <<place, mine, line, tm, raced>>
  <2>1. UNCHANGED <<pc, began, caller, stamp, mine, tm, raced>>
    BY <1>4 DEF place, line
  <2>2. /\ files' \subseteq Dates /\ lines' \in [Dates -> SUBSET Dates]
        /\ \A g \in Dates \ files' : lines'[g] = {}
        /\ {fp', opened'} \subseteq files' \cup {Null, Gone, Odd} /\ (LinesInv => LinesInv')
        /\ opened = Null => opened' = Null
    BY <1>2, <1>3, <1>4, Unlinks, NoDates
  <2>3. TypeOK'
    BY <1>1, <1>2, <1>4, <2>1, <2>2 DEF TypeOK
  <2>4. ClockInv'
    BY <1>1, <1>2, <2>1 DEF ClockInv, Starting, Calling
  <2>5. fp = Null => fp' = Null
    BY <1>3, <1>4, NoDates DEF Unlink
  <2>6. StartInv'
    BY <1>1, <1>2, <1>3, <2>1, <2>2, <2>5 DEF StartInv
  <2>7. raced' = "no" => DateInv' /\ TaskInv' /\ LinesInv'
    BY <1>1, <1>2, <1>4, <2>1, <2>2 DEF DatesInv, DateInv, TaskInv, Starting, Calling
  <2>8. raced' = "no" => NameInv' /\ FileInv'
    <3> SUFFICES ASSUME raced = "no" PROVE NameInv' /\ FileInv'
      BY <2>1
    <3>1. DatesInv
      BY <1>2
    <3>2. logName = "plain" => victim < day - 1 /\ victim < day
      <4>1. logName = "plain" => victim < limit /\ limit <= day - TenDays
        BY <1>1, <3>1 DEF DatesInv, TaskInv
      <4>2. victim \in Nat /\ limit \in Nat /\ day \in Nat /\ TenDays \in Nat /\ TenDays >= 1
        BY <1>2, <1>3, Numbers
      <4> QED
        BY <4>1, <4>2
    <3> QED
      BY <1>1, <1>2, <1>3, <1>4, <2>1, <3>1, <3>2, UnlinkedFile
  <2> QED
    BY <1>1, <1>2, <2>1, <2>3, <2>4, <2>6, <2>7, <2>8 DEF IInv, DatesInv
<1>5. CASE task' = "complain" /\ Begin("history") /\ UNCHANGED <<stamp, disk, fp, opened>>
  <2>1. UNCHANGED <<option, day, starts, disk, name, stamp, taskMine>> /\ limit' \in Dates /\ victim' \in Dates
    BY <1>1, <1>3, <1>5 DEF option, name
  <2>2. task' \in {"none", "sleep", "limit", "scan", "announce", "unlink", "complain"}
    BY <1>5
  <2>3. raced = "no" => TaskInv'
    BY <1>1, <1>2, <1>5 DEF DatesInv, TaskInv
  <2> QED
    BY <1>3, <1>5, <2>1, <2>2, <2>3, BeginStep
<1> QED
  BY <1>4, <1>5 DEF TaskUnlink

LEMMA TaskEndsStep ==
  ASSUME IInv, TaskEnds
  PROVE  IInv'
<1>1. TypeOK /\ 0 \in Dates /\ raced \in {"no", "yes"} /\ tm \in Dates
  BY Numbers DEF IInv, TypeOK
<1>2. {tm', taskMine', limit', victim'} \subseteq Dates /\ raced' \in {"no", "yes"} /\ raced' = raced
  BY <1>1 DEF TaskEnds
<1>3. TaskInv'
  BY DEF TaskEnds, TaskInv
<1> QED
  BY <1>2, <1>3, TaskOnly DEF TaskEnds
-----------------------------------------------------------------------------
(* The others. *)

LEMMA ElsewhereStep ==
  ASSUME IInv, Elsewhere
  PROVE  IInv'
<1>1. TypeOK /\ (raced = "no" => TaskInv) /\ day \in Dates
  BY Numbers, IsDate DEF IInv, DatesInv
<1>2. /\ tm' = day /\ task' = task /\ taskMine' = taskMine /\ limit' = limit /\ victim' = victim
      /\ raced' = raced /\ day' = day /\ logName' = logName
      /\ UNCHANGED <<option, day, starts, disk, name, place, mine, line>>
  BY DEF Elsewhere, history, option
<1>3. {tm', taskMine', limit', victim'} \subseteq Dates /\ raced' \in {"no", "yes"}
      /\ task' \in {"none", "sleep", "limit", "scan", "announce", "unlink", "complain"}
  BY <1>1, <1>2 DEF TypeOK
<1>4. raced' = "no" => raced = "no" /\ TaskInv'
  BY <1>1, <1>2 DEF TaskInv
<1> QED
  BY <1>2, <1>3, <1>4, TaskOnly

LEMMA MidnightStep ==
  ASSUME IInv, Midnight
  PROVE  IInv'
<1>1. /\ day < MaxDay /\ day' = day + 1
      /\ (Starting => began["start"] = day) /\ (Calling => began["call"] = day)
      /\ raced' = (IF Starting /\ Calling THEN "yes" ELSE raced)
      /\ UNCHANGED <<days, logName, starts, files, lines, fp, opened, thisDay, fileName, pc, began, mine, caller,
                     stamp, tm, task, taskMine, limit, victim>>
  BY DEF Midnight, option, disk, name, place, line, history
<1>2. TypeOK /\ ClockInv /\ StartInv /\ (raced = "no" => DatesInv)
  BY DEF IInv
<1>3. /\ day \in Nat /\ MaxDay \in Nat /\ FirstDay \in Nat /\ FirstDay <= day
      /\ days \in Nat /\ TenDays \in Nat /\ fileName \in Int /\ fp \in Int /\ opened \in Int
      /\ {taskMine, limit, victim} \subseteq Nat /\ thisDay \in Int
      /\ \A a \in Actors : began[a] \in Nat /\ began[a] <= day /\ FirstDay <= began[a] /\ mine[a] \in Nat
  BY <1>2, Numbers
<1>4. thisDay \in {Null} \cup FirstDay..day /\ began \in [Actors -> FirstDay..day]
  BY <1>2 DEF TypeOK
<1>5. thisDay' \in {Null} \cup FirstDay..day' /\ began' \in [Actors -> FirstDay..day'] /\ day' \in FirstDay..MaxDay
  <2>1. FirstDay..day \subseteq FirstDay..(day + 1)
    BY <1>3
  <2> QED
    BY <1>1, <1>3, <1>4, <2>1
<1>6. TypeOK'
  BY <1>1, <1>2, <1>5 DEF TypeOK
<1>7. ClockInv'
  BY <1>1, <1>2, <1>3 DEF ClockInv, Starting, Calling, Actors
<1>8. StartInv'
  BY <1>1, <1>2 DEF StartInv
<1>9. raced' = "no" => raced = "no" /\ ~(Starting /\ Calling) /\ DateInv' /\ TaskInv' /\ LinesInv'
  BY <1>1, <1>2, <1>3 DEF DatesInv, DateInv, TaskInv, LinesInv, Starting, Calling, Actors
<1>10. raced' = "no" => NameInv'
  BY <1>1, <1>2, <1>3, <1>9, NoDates DEF DatesInv, NameInv, Actors
<1>11. raced' = "no" => FileInv'
  <2> SUFFICES ASSUME raced' = "no" PROVE FileInv'
    OBVIOUS
  <2>1. FileInv
    BY <1>2, <1>9 DEF DatesInv
  <2>2. Starting' = Starting /\ (StartedToday' => ~Starting /\ StartedToday) /\ began["start"] # day'
    BY <1>1, <1>3 DEF Starting, StartedToday, Actors
  <2> QED
    BY <1>1, <1>3, <2>1, <2>2 DEF FileInv
<1> QED
  BY <1>6, <1>7, <1>8, <1>9, <1>10, <1>11 DEF IInv, DatesInv

LEMMA CrashStep ==
  ASSUME IInv, Crash
  PROVE  IInv'
<1>1. /\ fp' = Null /\ opened' = Null /\ thisDay' = Null /\ fileName' = Null /\ tm' = 0
      /\ pc' = [start |-> "down", call |-> "idle"]
      /\ began' = [a \in Actors |-> FirstDay] /\ mine' = [a \in Actors |-> 0]
      /\ caller' = "other" /\ stamp' = 0
      /\ task' = "none" /\ taskMine' = 0 /\ limit' = 0 /\ victim' = 0
      /\ UNCHANGED <<days, logName, day, starts, files, lines, raced>>
  BY DEF Crash, option, disk
<1>2. TypeOK /\ (raced = "no" => LinesInv)
  BY DEF IInv, DatesInv
<1>3. 0 \in Dates /\ day \in Nat /\ FirstDay \in Nat /\ FirstDay <= day
  BY <1>2, Numbers
<1>4. pc'["start"] = "down" /\ pc'["call"] = "idle" /\ DOMAIN pc' = Actors /\ pc' = [a \in Actors |-> pc'[a]]
  BY <1>1 DEF Actors
<1>5. pc' \in [Actors -> {"down", "thread", "store", "up", "idle", "stamp", "check", "test",
                        "write", "return"} \cup Generating]
  BY <1>4 DEF Actors
<1>6. began' \in [Actors -> FirstDay..day] /\ mine' \in [Actors -> Dates]
  BY <1>1, <1>3
<1>7. TypeOK'
  BY <1>1, <1>2, <1>3, <1>4, <1>5, <1>6 DEF TypeOK
<1>8. ClockInv' /\ StartInv' /\ DateInv' /\ TaskInv'
  BY <1>1, <1>4, NoDates DEF ClockInv, StartInv, DateInv, TaskInv, Naming, Starting, Calling, Actors
<1>9. NameInv' /\ FileInv'
  BY <1>1, <1>4, NoDates DEF NameInv, FileInv, Starting
<1>10. raced' = "no" => LinesInv'
  BY <1>1, <1>2 DEF LinesInv
<1> QED
  BY <1>7, <1>8, <1>9, <1>10 DEF IInv, DatesInv

LEMMA StepHolds == IInv /\ [Next]_vars => IInv'
<1> SUFFICES ASSUME IInv, [Next]_vars PROVE IInv'
  OBVIOUS
<1>1. CASE UNCHANGED vars
  BY <1>1 DEF vars, option, disk, name, place, line, history, IInv, TypeOK, ClockInv, StartInv, DatesInv,
              DateInv, NameInv, FileInv, TaskInv, LinesInv, Starting, Calling, StartedToday
<1>2. CASE Restart \/ Initalized \/ CreateFile \/ StoreFp
  BY <1>2, RestartStep, InitalizedStep, CreateFileStep, StoreFpStep
<1>3. CASE \E a \in Actors : Generate(a)
  BY <1>3, ThisDayStep, DateDayStep, FileNameStep, DeleteOldStep DEF Generate
<1>4. CASE Logger \/ Stamp \/ Check \/ Open \/ Opened \/ Write \/ Return
  BY <1>4, LoggerStep, StampStep, CheckStep, OpenStep, OpenedStep, WriteStep, ReturnStep
<1>5. CASE TaskWakes \/ TaskLimit \/ TaskEntry \/ TaskUnlink \/ TaskEnds
  BY <1>5, TaskWakesStep, TaskLimitStep, TaskEntryStep, TaskUnlinkStep, TaskEndsStep
<1>6. CASE Elsewhere \/ Midnight \/ Crash
  BY <1>6, ElsewhereStep, MidnightStep, CrashStep
<1> QED
  BY <1>1, <1>2, <1>3, <1>4, <1>5, <1>6 DEF Next

LEMMA Invariance == Spec => []IInv
<1>1. Init => IInv
  BY InitHolds
<1>2. IInv /\ [Next]_vars => IInv'
  BY StepHolds
<1> QED
  BY <1>1, <1>2, PTL DEF Spec

(* Type correctness of the log's state: whatever is read from the shared   *)
(* buffer and whoever writes the name, the log only ever names dates of the*)
(* calendar, and the open file is one of the directory unless it has been  *)
(* unlinked or misnamed.                                                   *)
THEOREM TypeCorrect == Spec => []TypeOK
<1>1. IInv => TypeOK
  BY DEF IInv
<1> QED
  BY <1>1, Invariance, PTL

(* write_file puts a line into the file of its day or, around midnight, of *)
(* the next day, never into a removed file, and into a misnamed one only on*)
(* the day of the start that misnamed it together with a call: also while  *)
(* create_file and write_file run at once, unless dates were mixed or both *)
(* met around midnight (or, for the second, the name has a '-').           *)
THEOREM LinesGoWhereTheyBelong == Spec => []LineInItsFile
<1>1. IInv => LineInItsFile
  <2> SUFFICES ASSUME IInv, raced = "no"
               PROVE  /\ \A f \in files : lines[f] \subseteq {f - 1, f}
                      /\ pc["call"] = "write" /\ logName = "plain" => fp # Gone
                      /\ pc["call"] = "write" /\ fp = Odd => began["call"] = began["start"]
    BY DEF LineInItsFile
  <2>1. TypeOK /\ ClockInv /\ DateInv /\ FileInv /\ LinesInv
    BY DEF IInv, DatesInv
  <2>2. \A f \in files : lines[f] \subseteq {f - 1, f}
    BY <2>1 DEF LinesInv
  <2>3. day \in Nat /\ thisDay \in Int /\ began["call"] \in Nat /\ began["start"] \in Nat
    BY <2>1, Numbers DEF Actors
  <2>4. pc["call"] = "write" =>
          /\ began["call"] <= thisDay /\ day <= began["call"] + 1 /\ began["start"] <= began["call"]
          /\ StartedToday /\ pc["call"] \notin Naming
    BY <2>1 DEF ClockInv, DateInv, StartedToday, Calling, Naming
  <2>5. pc["call"] = "write" /\ logName = "plain" => fp # Gone
    <3>1. pc["call"] = "write" /\ logName = "plain" /\ fp = Gone => thisDay < day - 1
      BY <2>1, <2>4 DEF FileInv
    <3> QED
      BY <2>3, <2>4, <3>1
  <2>6. pc["call"] = "write" /\ fp = Odd => began["call"] = began["start"]
    <3>1. pc["call"] = "write" /\ fp = Odd => thisDay = began["start"]
      BY <2>1, <2>4 DEF FileInv
    <3> QED
      BY <2>3, <2>4, <3>1
  <2> QED
    BY <2>2, <2>5, <2>6
<1> QED
  BY <1>1, Invariance, PTL

(* generate_filename and rm_history_task remove only files of age.         *)
THEOREM HistoryIsKept == Spec => RemovedIsOld
<1> DEFINE Old == \/ raced' = "yes" \/ logName = "dashed"
                  \/ \A f \in files \ files' : day - f >= days \/ day - f > TenDays
<1>1. IInv /\ IInv' /\ [Next]_vars => [Old]_vars
  <2> SUFFICES ASSUME IInv, IInv', Next PROVE Old
    OBVIOUS
  <2>1. (files \subseteq files') => Old
    OBVIOUS
  <2>2. raced \in {"no", "yes"} /\ raced' \in {"no", "yes"} /\ logName \in {"plain", "dashed"}
    BY DEF IInv, TypeOK
  <2>3. ASSUME NEW a \in Actors, DeleteOld(a)
        PROVE  Old
    <3> SUFFICES ASSUME raced' = "no" PROVE Old
      BY <2>2
    <3>1. PICK f \in Dates : Reading(mine[a], f) /\ Unlink(f)
      BY <2>3 DEF DeleteOld
    <3>2. mine[a] \in Dates /\ pc[a] = "delete"
      BY <2>3 DEF IInv, TypeOK, DeleteOld, Goto
    <3>3. raced = "no" /\ f = mine[a]
      BY <3>1, <3>2, ReadsDate DEF IInv
    <3>4. mine[a] <= day - days
      BY <3>2, <3>3 DEF IInv, DatesInv, DateInv
    <3>5. day \in Nat /\ days \in Nat /\ mine[a] \in Nat
      BY Numbers DEF IInv
    <3>6. day - f >= days
      BY <3>3, <3>4, <3>5
    <3>7. files' = files \ {f}
      BY <3>1 DEF Unlink
    <3> QED
      BY <3>6, <3>7
  <2>4. CASE TaskUnlink
    <3> SUFFICES ASSUME raced' = "no", logName = "plain", victim \in files, files' = files \ {victim} PROVE Old
      BY <2>1, <2>2, <2>4 DEF TaskUnlink, Unlink, disk
    <3>1. task = "unlink" /\ raced = "no"
      BY <2>4 DEF TaskUnlink, Unlink
    <3>2. victim < limit /\ limit <= day - TenDays
      BY <3>1 DEF IInv, DatesInv, TaskInv
    <3>3. day \in Nat /\ TenDays \in Nat /\ victim \in Nat /\ limit \in Nat
      BY Numbers DEF IInv
    <3>4. day - victim > TenDays
      BY <3>2, <3>3
    <3> QED
      BY <3>4
  <2>5. CASE CreateFile \/ Open \/ StoreFp \/ Write
    BY <2>1, <2>5 DEF CreateFile, Open, StoreFp, Write, disk
  <2>6. CASE \E a \in Actors : ThisDay(a) \/ DateDay(a) \/ FileName(a)
    BY <2>1, <2>6 DEF ThisDay, DateDay, FileName, disk
  <2>7. CASE \/ Restart \/ Initalized \/ Logger \/ Stamp \/ Check \/ Opened \/ Return
             \/ TaskWakes \/ TaskLimit \/ TaskEntry \/ TaskEnds \/ Elsewhere \/ Midnight \/ Crash
    BY <2>1, <2>7 DEF Restart, Initalized, Logger, Stamp, Check, Opened, Return, TaskWakes, TaskLimit,
                      TaskEntry, TaskEnds, Elsewhere, Midnight, Crash, disk
  <2> QED
    BY <2>3, <2>4, <2>5, <2>6, <2>7 DEF Next, Generate
<1> QED
  BY <1>1, Invariance, PTL DEF Spec, RemovedIsOld

(* Only what a start itself does to its file takes lines from a file that  *)
(* remains, and only from that of the day it began or of the next.         *)
THEOREM LinesStay == Spec => LinesKept
<1> DEFINE Kept == \A f \in files \cap files' :
                     \/ lines[f] \subseteq lines'[f]
                     \/ /\ pc["start"] \in {"open", "store"} /\ pc'["start"] # pc["start"]
                        /\ raced = "yes" \/ f \in {began["start"], day}
<1>1. IInv /\ [Next]_vars => [Kept]_vars
  <2> SUFFICES ASSUME IInv, Next PROVE Kept
    OBVIOUS
  <2>1. /\ raced \in {"no", "yes"} /\ files \subseteq Dates /\ lines \in [Dates -> SUBSET Dates]
        /\ {fp, opened} \subseteq files \cup {Null, Gone, Odd} /\ TypeOK
    BY DEF IInv, TypeOK
  <2>2. (lines' = lines) => Kept
    OBVIOUS
  <2>3. /\ day \in Nat /\ began["start"] \in Nat /\ thisDay \in Int /\ fileName \in Int /\ opened \in Int
    BY <2>1, Numbers DEF Actors
  <2>4. CASE CreateFile
    <3>1. pc["start"] = "open" /\ pc'["start"] = "store"
      BY <2>1, <2>4, Goes DEF CreateFile, Actors
    <3> SUFFICES ASSUME NEW f \in files, f = fileName, raced = "no"
                 PROVE  f \in {began["start"], day}
      BY <2>1, <2>2, <2>4, <3>1 DEF CreateFile, disk
    <3>2. began["start"] <= thisDay /\ day <= began["start"] + 1
      BY <3>1 DEF IInv, ClockInv, Naming, Starting, Actors
    <3>3. fileName <= day /\ fileName \in {thisDay, thisDay + 1}
      BY <2>1 DEF IInv, DatesInv, NameInv
    <3> QED
      BY <2>3, <3>2, <3>3
  <2>5. CASE StoreFp
    <3>1. pc["start"] = "store" /\ pc'["start"] = "up"
      BY <2>1, <2>5, Goes DEF StoreFp, Actors
    <3> SUFFICES ASSUME NEW f \in files, f = opened, raced = "no"
                 PROVE  f \in {began["start"], day}
      BY <2>1, <2>2, <2>5, <3>1 DEF StoreFp
    <3>2. day <= began["start"] + 1
      BY <3>1 DEF IInv, ClockInv, Starting
    <3>3. began["start"] <= opened /\ opened <= day
      BY <2>1 DEF IInv, DatesInv, NameInv
    <3> QED
      BY <2>3, <3>2, <3>3
  <2>6. CASE Write
    BY <2>1, <2>2, <2>6 DEF Write
  <2>7. CASE (\E a \in Actors : DeleteOld(a)) \/ TaskUnlink
    <3>1. \/ lines' = lines
          \/ \E g \in Dates : files' = files \ {g} /\ lines' = [lines EXCEPT ![g] = {}]
      BY <2>1, <2>7 DEF DeleteOld, TaskUnlink, Unlink, disk, TypeOK
    <3> QED
      BY <2>1, <2>2, <3>1
  <2>8. CASE \E a \in Actors : ThisDay(a) \/ DateDay(a) \/ FileName(a)
    BY <2>2, <2>8 DEF ThisDay, DateDay, FileName, disk
  <2>9. CASE \/ Restart \/ Initalized \/ Logger \/ Stamp \/ Check \/ Open \/ Opened \/ Return
             \/ TaskWakes \/ TaskLimit \/ TaskEntry \/ TaskEnds \/ Elsewhere \/ Midnight \/ Crash
    BY <2>2, <2>9 DEF Restart, Initalized, Logger, Stamp, Check, Open, Opened, Return, TaskWakes, TaskLimit,
                      TaskEntry, TaskEnds, Elsewhere, Midnight, Crash, disk
  <2> QED
    BY <2>4, <2>5, <2>6, <2>7, <2>8, <2>9 DEF Next, Generate
<1> QED
  BY <1>1, Invariance, PTL DEF Spec, LinesKept
=============================================================================
