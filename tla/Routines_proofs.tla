-------------------------- MODULE Routines_proofs --------------------------
(***************************************************************************)
(* Proofs about Routines, for any routines, nodes and streams, any inputs  *)
(* and any number of crashes and failed writes.                            *)
(***************************************************************************)
EXTENDS Routines, TLAPS

USE DEF tables

-----------------------------------------------------------------------------
\* The types of changed entries, and what a change leaves as it was.
LEMMA ChangedEntry ==
  ASSUME NEW e \in Entry, NEW b \in BOOLEAN, NEW c \in BOOLEAN,
         NEW d \in BOOLEAN
  PROVE  /\ Disabled(e) \in Entry /\ Disabled(e).disabled
         /\ Disabled(Disabled(e)) = Disabled(e)
         /\ Disabled(e).targets = e.targets
         /\ SetFlags(e, b, c, d) \in Entry
         /\ SetFlags(e, b, c, d).targets = e.targets
         /\ SetSchedule(e, b) \in Entry
         /\ SetSchedule(e, b).disabled = e.disabled
         /\ SetSchedule(e, b).targets = e.targets
  BY DEF Disabled, SetFlags, SetSchedule, Entry

LEMMA ChangedTargets ==
  ASSUME NEW e \in Entry, NEW targets \in Lists
  PROVE  /\ SetTargets(e, targets) \in Entry
         /\ SetTargets(e, targets).disabled = e.disabled
         /\ SetTargets(e, targets).targets = targets
  BY DEF SetTargets, Entry

\* Lists, how one is compared with another, and one that is run down.
LEMMA ListFacts ==
  /\ Nobody \in Lists
  /\ \A f, g \in Lists : Larger(f, g) \in Lists
  /\ \A f, g \in Lists, n \in Nodes :
        Larger(f, g)[n] >= f[n] /\ Larger(f, g)[n] >= g[n]
  /\ \A n \in Nodes : /\ Only(n) \in Lists
                      /\ Only(n)[n] = 1
                      /\ \A k \in Nodes \ {n} : Only(n)[k] = 0
  /\ \A f \in Lists, n \in Nodes :
        f[n] > 0 => [f EXCEPT ![n] = @ - 1] \in Lists
<1>1. Nobody \in Lists
  BY DEF Nobody, Lists
<1>2. ASSUME NEW f \in Lists, NEW g \in Lists
      PROVE  /\ Larger(f, g) \in Lists
             /\ \A n \in Nodes : /\ Larger(f, g)[n] >= f[n]
                                 /\ Larger(f, g)[n] >= g[n]
  BY DEF Larger, Lists
<1>3. ASSUME NEW n \in Nodes
      PROVE  /\ Only(n) \in Lists /\ Only(n)[n] = 1
             /\ \A k \in Nodes \ {n} : Only(n)[k] = 0
  BY DEF Only, Nobody, Lists
<1>4. ASSUME NEW f \in Lists, NEW n \in Nodes, f[n] > 0
      PROVE  [f EXCEPT ![n] = @ - 1] \in Lists
  <2>1. f[n] - 1 \in Nat
    BY <1>4 DEF Lists
  <2> QED
    BY <2>1 DEF Lists
<1> QED
  BY <1>1, <1>2, <1>3, <1>4

\* A write is done, or has failed, whatever it reports.
LEMMA WriteCases ==
  ASSUME NEW r, NEW entry, NEW ok, Write(r, entry, ok)
  PROVE  \/ Done(ok) /\ disk' = [disk EXCEPT ![r] = entry]
         \/ Fails /\ UNCHANGED disk
  BY DEF Write, Done, LookupRoutineDBEntry, SaveNewRoutineDBEntry,
         UpdateExistingRoutineDBEntry, DeleteRoutineDBEntry

\* What a write does to the table and to its type.
LEMMA WriteEffect ==
  ASSUME TypeOK, NEW r \in Names, NEW entry \in Entry \cup {None},
         NEW ok \in BOOLEAN, Write(r, entry, ok)
  PROVE  /\ disk' \in Entries
         /\ failures' \in 0 .. MaxFailures
         /\ \/ ok /\ disk'[r] = entry /\ failures' = failures
            \/ disk' = disk /\ failures' = failures + 1
         /\ \A s \in Names \ {r} : disk'[s] = disk[s]
<1>1. disk \in Entries /\ failures \in 0 .. MaxFailures /\ MaxFailures \in Nat
  BY ConstantsAssumption DEF TypeOK
<1>2. CASE Done(ok) /\ disk' = [disk EXCEPT ![r] = entry]
  BY <1>1, <1>2 DEF Done, Entries
<1>3. CASE Fails /\ UNCHANGED disk
  BY <1>1, <1>3 DEF Fails
<1> QED
  BY <1>2, <1>3, WriteCases

\* What the server has when it has died and started again.
LEMMA DieEffect ==
  ASSUME TypeOK, Die
  PROVE  /\ memory' \in Entries
         /\ failures' \in 0 .. MaxFailures
         /\ crashes' \in 0 .. MaxCrashes
         /\ failures' = 0 => memory' = disk
         /\ run' = None
         /\ UNCHANGED <<disk, acked, sent, named>>
<1>1. /\ disk \in Entries
      /\ failures \in 0 .. MaxFailures /\ MaxFailures \in Nat
      /\ crashes \in 0 .. MaxCrashes /\ MaxCrashes \in Nat
  BY ConstantsAssumption DEF TypeOK
<1>2. crashes < MaxCrashes /\ crashes' = crashes + 1 /\ run' = None
      /\ UNCHANGED <<disk, acked, sent, named>> /\ ScanRoutineDB
  BY DEF Die
<1>3. CASE memory' = disk /\ UNCHANGED failures
  BY <1>1, <1>2, <1>3
<1>4. CASE memory' = [r \in Names |-> None] /\ Fails
  <2>1. memory' \in Entries
    BY <1>4 DEF Entries
  <2> QED
    BY <1>1, <1>2, <1>4, <2>1 DEF Fails
<1> QED
  BY <1>2, <1>3, <1>4 DEF ScanRoutineDB

\* The fields of what an administrator adds.
LEMMA InputFields ==
  ASSUME NEW entry \in Inputs
  PROVE  /\ entry \in Entry
         /\ entry.once \in BOOLEAN /\ entry.connect \in BOOLEAN
         /\ entry.disabled \in BOOLEAN /\ entry.timed \in BOOLEAN
         /\ entry.targets \in Lists
  BY ConstantsAssumption DEF Entry

-----------------------------------------------------------------------------
(* Types, and that a run is always one of a routine that memory and table  *)
(* have and that is not switched off.                                      *)

RunValid == ~Idle => /\ memory[run.name] # None
                     /\ ~memory[run.name].disabled
                     /\ disk[run.name] # None

Inv == TypeOK /\ RunValid

LEMMA InvStep == Inv /\ [Next]_vars => Inv'
<1> SUFFICES ASSUME Inv, [Next]_vars PROVE Inv'
  OBVIOUS
<1>a. /\ memory \in Entries /\ disk \in Entries /\ acked \in Entries
      /\ sent \in [Names -> Lists] /\ named \in [Names -> Lists]
      /\ \A r \in Names : [sent EXCEPT ![r] = Nobody] \in [Names -> Lists]
  BY ListFacts DEF Inv, TypeOK
<1>b. ASSUME NEW f \in Entries, NEW r \in Names, NEW e \in Entry \cup {None}
      PROVE  [f EXCEPT ![r] = e] \in Entries
  BY DEF Entries
<1>c. ASSUME NEW f \in Entries, NEW r \in Names, f[r] # None
      PROVE  f[r] \in Entry
  BY <1>c DEF Entries
<1>d. ASSUME NEW r \in Names, NEW f \in Lists
      PROVE  [named EXCEPT ![r] = f] \in [Names -> Lists]
  BY <1>a
<1> USE DEF Inv
<1>1. ASSUME NEW r \in Names, NEW entry \in Entry, NEW ok \in BOOLEAN,
             Add(r, entry, ok)
      PROVE  Inv'
  <2>1. memory' \in Entries /\ acked' \in Entries
    BY <1>a, <1>b, <1>1 DEF Add
  <2>2. disk' \in Entries /\ failures' \in 0 .. MaxFailures
    BY <1>1, WriteEffect DEF Add
  <2>3. sent' \in [Names -> Lists]
    BY <1>a, <1>1 DEF Add
  <2>4. named' \in [Names -> Lists]
    <3>1. /\ entry.targets \in Lists
          /\ Larger(named[r], entry.targets) \in Lists
      BY <1>a, ListFacts DEF Entry
    <3> QED
      BY <1>d, <1>1, <3>1 DEF Add
  <2> QED
    BY <1>1, <2>1, <2>2, <2>3, <2>4 DEF Add, TypeOK, RunValid, Idle
<1>2. ASSUME NEW r \in Names, NEW once \in BOOLEAN,
             NEW connect \in BOOLEAN, NEW disabled \in BOOLEAN,
             NEW ok \in BOOLEAN,
             ChangeFlags(r, once, connect, disabled, ok)
      PROVE  Inv'
  <2>1. SetFlags(disk[r], once, connect, disabled) \in Entry
    BY <1>a, <1>c, <1>2, ChangedEntry DEF ChangeFlags
  <2> DEFINE e == SetFlags(disk[r], once, connect, disabled)
  <2>2. e \in Entry /\ Change(r, e, ok)
    BY <1>2, <2>1 DEF ChangeFlags
  <2>3. /\ UNCHANGED named
        /\ UNCHANGED sent \/ sent' = [sent EXCEPT ![r] = Nobody]
    BY <1>2 DEF ChangeFlags
  <2> HIDE DEF e
  <2>4. TypeOK'
    BY <1>a, <1>b, <2>2, <2>3, WriteEffect DEF Change, TypeOK
  <2>5. RunValid'
    BY <2>2 DEF Change, RunValid, Idle
  <2> QED
    BY <2>4, <2>5
<1>3. ASSUME NEW r \in Names, NEW timed \in BOOLEAN, NEW ok \in BOOLEAN,
             ChangeSchedule(r, timed, ok)
      PROVE  Inv'
  <2>1. SetSchedule(disk[r], timed) \in Entry
    BY <1>a, <1>c, <1>3, ChangedEntry DEF ChangeSchedule
  <2> DEFINE e == SetSchedule(disk[r], timed)
  <2>2. e \in Entry /\ Change(r, e, ok)
    BY <1>3, <2>1 DEF ChangeSchedule
  <2>3. /\ UNCHANGED named
        /\ UNCHANGED sent \/ sent' = [sent EXCEPT ![r] = Nobody]
    BY <1>3 DEF ChangeSchedule
  <2> HIDE DEF e
  <2>4. TypeOK'
    BY <1>a, <1>b, <2>2, <2>3, WriteEffect DEF Change, TypeOK
  <2>5. RunValid'
    BY <2>2 DEF Change, RunValid, Idle
  <2> QED
    BY <2>4, <2>5
<1>4. ASSUME NEW r \in Names, NEW targets \in Lists,
             NEW ok \in BOOLEAN,
             ChangeTargets(r, targets, ok)
      PROVE  Inv'
  <2>1. SetTargets(disk[r], targets) \in Entry
    BY <1>a, <1>c, <1>4, ChangedTargets DEF ChangeTargets
  <2> DEFINE e == SetTargets(disk[r], targets)
  <2>2. e \in Entry /\ Change(r, e, ok)
    BY <1>4, <2>1 DEF ChangeTargets
  <2>3. UNCHANGED sent /\ named' \in [Names -> Lists]
    <3>1. Larger(named[r], targets) \in Lists
      BY <1>a, ListFacts
    <3> QED
      BY <1>d, <1>4, <3>1 DEF ChangeTargets
  <2> HIDE DEF e
  <2>4. TypeOK'
    BY <1>a, <1>b, <2>2, <2>3, WriteEffect DEF Change, TypeOK
  <2>5. RunValid'
    BY <2>2 DEF Change, RunValid, Idle
  <2> QED
    BY <2>4, <2>5
<1>5. ASSUME NEW r \in Names, NEW ok \in BOOLEAN, Delete(r, ok)
      PROVE  Inv'
  <2>1. memory' \in Entries /\ acked' \in Entries
    BY <1>a, <1>b, <1>5 DEF Delete
  <2>2. disk' \in Entries /\ failures' \in 0 .. MaxFailures
    BY <1>5, WriteEffect DEF Delete
  <2>3. sent' \in [Names -> Lists]
    BY <1>a, <1>5 DEF Delete
  <2> QED
    BY <1>5, <2>1, <2>2, <2>3 DEF Delete, TypeOK, RunValid, Idle
<1>6. ASSUME NEW r \in Names, RunScheduled(r)
      PROVE  Inv'
  <2>1. CASE Die
    BY <2>1, DieEffect DEF TypeOK, RunValid, Idle
  <2>2. CASE StartRun(r, memory[r].targets) /\ disk[r] # None
    <3>1. memory[r].targets \in Lists
      BY <1>a, <1>c, <1>6 DEF RunScheduled, Entry
    <3> QED
      BY <1>6, <2>2, <3>1, ConstantsAssumption
      DEF RunScheduled, StartRun, TypeOK, RunValid, Idle
  <2> QED
    BY <1>6, <2>1, <2>2 DEF RunScheduled
<1>7. ASSUME NEW r \in Names, NEW n \in Nodes, RunOnConnect(r, n)
      PROVE  Inv'
  <2>1. CASE Die
    BY <2>1, DieEffect DEF TypeOK, RunValid, Idle
  <2>2. CASE StartRun(r, Only(n)) /\ disk[r] # None
    <3>1. Only(n) \in Lists
      BY ListFacts
    <3> QED
      BY <1>7, <2>2, <3>1, ConstantsAssumption
      DEF RunOnConnect, StartRun, TypeOK, RunValid, Idle
  <2> QED
    BY <1>7, <2>1, <2>2 DEF RunOnConnect
<1>8. ASSUME NEW n \in Nodes, NEW connected \in BOOLEAN,
             Send(n, connected)
      PROVE  Inv'
  <2>1. run \in [name : Names, left : Lists]
    BY <1>8 DEF Send, TypeOK, Idle
  <2>2. /\ run' \in [name : Names, left : Lists]
        /\ run'.name = run.name
    <3>1. run.left \in Lists /\ run.left[n] > 0
      BY <1>8, <2>1 DEF Send
    <3>2. [run.left EXCEPT ![n] = @ - 1] \in Lists
      BY <3>1, ListFacts
    <3> QED
      BY <1>8, <2>1, <3>2 DEF Send
  <2>3. sent' \in [Names -> Lists]
    <3>1. sent[run.name][n] + 1 \in Nat
      BY <1>a, <2>1 DEF Lists
    <3>2. [sent[run.name] EXCEPT ![n] = @ + 1] \in Lists
      BY <1>a, <2>1, <3>1 DEF Lists
    <3> QED
      BY <1>a, <1>8, <2>1, <3>2 DEF Send
  <2> QED
    BY <1>8, <2>2, <2>3 DEF Send, TypeOK, RunValid, Idle
<1>9. ASSUME NEW ok \in BOOLEAN, Finish(ok)
      PROVE  Inv'
  <2>1. /\ run.name \in Names
        /\ memory[run.name] \in Entry /\ disk[run.name] \in Entry
    BY <1>a, <1>c, <1>9 DEF Finish, TypeOK, RunValid, Idle
  <2>2. /\ Disabled(memory[run.name]) \in Entry
        /\ Disabled(disk[run.name]) \in Entry
    BY <2>1, ChangedEntry
  <2>3. /\ memory' \in Entries /\ disk' \in Entries
        /\ failures' \in 0 .. MaxFailures
    BY <1>a, <1>b, <1>9, <2>1, <2>2, WriteEffect DEF Finish, TypeOK
  <2> QED
    BY <1>9, <2>3 DEF Finish, TypeOK, RunValid, Idle
<1>10. CASE Die
  BY <1>10, DieEffect DEF TypeOK, RunValid, Idle
<1>11. CASE UNCHANGED vars
  BY <1>11 DEF TypeOK, RunValid, Idle, vars
<1> QED
  BY <1>1, <1>2, <1>3, <1>4, <1>5, <1>6, <1>7, <1>8, <1>9, <1>10,
     <1>11, InputFields
  DEF Next, AdminStep, RunStep, SendDies

LEMMA Invariant == Spec => []Inv
<1>1. Init => Inv
  <2> SUFFICES ASSUME Init PROVE Inv
    OBVIOUS
  <2>1. disk \in Entries
    BY ConstantsAssumption DEF Init, Entries
  <2>2. sent \in [Names -> Lists]
    BY ListFacts DEF Init
  <2>3. named \in [Names -> Lists]
    BY <2>1, ListFacts DEF Init, Named, Entries, Entry
  <2> QED
    BY <2>1, <2>2, <2>3, ConstantsAssumption DEF Init, Inv, TypeOK, RunValid, Idle
<1> QED
  BY <1>1, InvStep, PTL DEF Spec

\* The types of both copies of the routines, of the run and of the histories.
THEOREM TypeCorrect == Spec => []TypeOK
<1>1. Inv => TypeOK
  BY DEF Inv
<1> QED
  BY <1>1, Invariant, PTL

-----------------------------------------------------------------------------
(* The two copies.                                                         *)

LEMMA AgreeStep == Inv /\ MemoryIsDisk /\ [Next]_vars => MemoryIsDisk'
<1> SUFFICES ASSUME Inv, MemoryIsDisk, [Next]_vars, failures' = 0
             PROVE  memory' = disk'
  BY DEF MemoryIsDisk
<1>a. failures \in Nat
  BY DEF Inv, TypeOK
<1>b. failures = 0 => memory = disk
  BY DEF MemoryIsDisk
<1>c. ASSUME NEW r, NEW e, NEW ok, Write(r, e, ok)
      PROVE  ok /\ failures = 0 /\ disk' = [disk EXCEPT ![r] = e]
  BY <1>a, <1>c, WriteCases DEF Done, Fails
<1>d. Die => memory' = disk'
  BY DieEffect DEF Inv
<1>1. ASSUME NEW r \in Names, NEW entry \in Entry, NEW ok \in BOOLEAN,
             Add(r, entry, ok)
      PROVE  memory' = disk'
  BY <1>b, <1>c, <1>1 DEF Add
<1>2. ASSUME NEW r \in Names, NEW once \in BOOLEAN,
             NEW connect \in BOOLEAN, NEW disabled \in BOOLEAN,
             NEW ok \in BOOLEAN,
             ChangeFlags(r, once, connect, disabled, ok)
      PROVE  memory' = disk'
  BY <1>b, <1>c, <1>2 DEF ChangeFlags, Change
<1>3. ASSUME NEW r \in Names, NEW timed \in BOOLEAN, NEW ok \in BOOLEAN,
             ChangeSchedule(r, timed, ok)
      PROVE  memory' = disk'
  BY <1>b, <1>c, <1>3 DEF ChangeSchedule, Change
<1>4. ASSUME NEW r \in Names, NEW targets \in Lists,
             NEW ok \in BOOLEAN,
             ChangeTargets(r, targets, ok)
      PROVE  memory' = disk'
  BY <1>b, <1>c, <1>4 DEF ChangeTargets, Change
<1>5. ASSUME NEW r \in Names, NEW ok \in BOOLEAN, Delete(r, ok)
      PROVE  memory' = disk'
  BY <1>b, <1>c, <1>5 DEF Delete
<1>6. ASSUME NEW r \in Names, RunScheduled(r)
      PROVE  memory' = disk'
  BY <1>b, <1>d, <1>6 DEF RunScheduled, StartRun
<1>7. ASSUME NEW r \in Names, NEW n \in Nodes, RunOnConnect(r, n)
      PROVE  memory' = disk'
  BY <1>b, <1>d, <1>7 DEF RunOnConnect, StartRun
<1>8. ASSUME NEW n \in Nodes, NEW connected \in BOOLEAN,
             Send(n, connected)
      PROVE  memory' = disk'
  BY <1>b, <1>c, <1>8 DEF Send
<1>9. ASSUME NEW ok \in BOOLEAN, Finish(ok)
      PROVE  memory' = disk'
  BY <1>b, <1>c, <1>9 DEF Finish
<1>10. CASE Die
  BY <1>d, <1>10
<1>11. CASE UNCHANGED vars
  BY <1>b, <1>11 DEF vars
<1> QED
  BY <1>1, <1>2, <1>3, <1>4, <1>5, <1>6, <1>7, <1>8, <1>9, <1>10,
     <1>11, InputFields
  DEF Next, AdminStep, RunStep, SendDies

\* Without failed writes memory and table never differ.
THEOREM CopiesAgree == Spec => []MemoryIsDisk
<1>1. Init => MemoryIsDisk
  BY DEF Init, MemoryIsDisk
<1> QED
  BY <1>1, Invariant, AgreeStep, PTL DEF Spec

-----------------------------------------------------------------------------
(* What was acknowledged.                                                  *)

\* AckedOnDisk for one routine.
Kept(r) == \/ disk[r] = acked[r]
           \/ acked[r] # None /\ disk[r] = Disabled(acked[r])

LEMMA KeptStep == Inv /\ AckedOnDisk /\ [Next]_vars => AckedOnDisk'
<1> SUFFICES ASSUME Inv, AckedOnDisk, [Next]_vars, NEW s \in Names
             PROVE  Kept(s)'
  BY DEF AckedOnDisk, Kept
<1>a. disk \in Entries /\ acked \in Entries /\ Kept(s) /\ failures \in Nat
  BY DEF Inv, TypeOK, AckedOnDisk, Kept
<1>b. disk'[s] = disk[s] /\ acked'[s] = acked[s] => Kept(s)'
  BY <1>a DEF Kept
\* A write that is acknowledged, if it works.
<1>c. ASSUME NEW r \in Names, NEW e, NEW ok \in BOOLEAN, Write(r, e, ok),
             acked' = IF Done(ok) THEN [acked EXCEPT ![r] = e] ELSE acked
      PROVE  Kept(s)'
  <2>1. CASE Done(ok) /\ disk' = [disk EXCEPT ![r] = e]
    BY <1>a, <1>c, <2>1 DEF Kept, Entries
  <2>2. CASE Fails /\ UNCHANGED disk
    BY <1>a, <1>c, <2>2 DEF Fails, Done, Kept
  <2> QED
    BY <1>c, <2>1, <2>2, WriteCases
<1>d. UNCHANGED <<disk, acked>> => Kept(s)'
  BY <1>b
<1>1. ASSUME NEW r \in Names, NEW entry \in Entry, NEW ok \in BOOLEAN,
             Add(r, entry, ok)
      PROVE  Kept(s)'
  BY <1>c, <1>1 DEF Add
<1>2. ASSUME NEW r \in Names, NEW once \in BOOLEAN,
             NEW connect \in BOOLEAN, NEW disabled \in BOOLEAN,
             NEW ok \in BOOLEAN,
             ChangeFlags(r, once, connect, disabled, ok)
      PROVE  Kept(s)'
  <2> DEFINE e == SetFlags(disk[r], once, connect, disabled)
  <2>1. Change(r, e, ok)
    BY <1>2 DEF ChangeFlags
  <2> HIDE DEF e
  <2>2. /\ Write(r, e, ok)
        /\ acked' = IF Done(ok) THEN [acked EXCEPT ![r] = e] ELSE acked
    BY <2>1 DEF Change
  <2> QED
    BY <1>c, <2>2
<1>3. ASSUME NEW r \in Names, NEW timed \in BOOLEAN, NEW ok \in BOOLEAN,
             ChangeSchedule(r, timed, ok)
      PROVE  Kept(s)'
  <2> DEFINE e == SetSchedule(disk[r], timed)
  <2>1. Change(r, e, ok)
    BY <1>3 DEF ChangeSchedule
  <2> HIDE DEF e
  <2>2. /\ Write(r, e, ok)
        /\ acked' = IF Done(ok) THEN [acked EXCEPT ![r] = e] ELSE acked
    BY <2>1 DEF Change
  <2> QED
    BY <1>c, <2>2
<1>4. ASSUME NEW r \in Names, NEW targets \in Lists,
             NEW ok \in BOOLEAN,
             ChangeTargets(r, targets, ok)
      PROVE  Kept(s)'
  <2> DEFINE e == SetTargets(disk[r], targets)
  <2>1. Change(r, e, ok)
    BY <1>4 DEF ChangeTargets
  <2> HIDE DEF e
  <2>2. /\ Write(r, e, ok)
        /\ acked' = IF Done(ok) THEN [acked EXCEPT ![r] = e] ELSE acked
    BY <2>1 DEF Change
  <2> QED
    BY <1>c, <2>2
<1>5. ASSUME NEW r \in Names, NEW ok \in BOOLEAN, Delete(r, ok)
      PROVE  Kept(s)'
  BY <1>c, <1>5 DEF Delete
<1>6. ASSUME NEW r \in Names, RunScheduled(r)
      PROVE  Kept(s)'
  BY <1>d, <1>6 DEF RunScheduled, Die, ScanRoutineDB, Fails, StartRun
<1>7. ASSUME NEW r \in Names, NEW n \in Nodes, RunOnConnect(r, n)
      PROVE  Kept(s)'
  BY <1>d, <1>7 DEF RunOnConnect, Die, ScanRoutineDB, Fails, StartRun
<1>8. ASSUME NEW n \in Nodes, NEW connected \in BOOLEAN,
             Send(n, connected)
      PROVE  Kept(s)'
  BY <1>d, <1>8 DEF Send
<1>9. ASSUME NEW ok \in BOOLEAN, Finish(ok)
      PROVE  Kept(s)'
  <2>1. CASE UNCHANGED disk
    BY <1>d, <1>9, <2>1 DEF Finish
  <2>2. CASE disk' = [disk EXCEPT ![run.name] = Disabled(disk[run.name])] /\ run.name = s
    <3>1. disk[s] \in Entry /\ (acked[s] # None => acked[s] \in Entry)
      BY <1>a, <1>9, <2>2 DEF Finish, Inv, RunValid, Idle, Entries
    <3>2. /\ disk'[s] = Disabled(disk[s]) /\ acked'[s] = acked[s]
          /\ acked[s] # None
      BY <1>a, <1>9, <2>2, <3>1, ConstantsAssumption
      DEF Finish, Entries, Kept
    <3>3. acked[s] # None => Disabled(Disabled(acked[s])) = Disabled(acked[s])
      BY <3>1, ChangedEntry
    <3> QED
      BY <1>a, <3>2, <3>3 DEF Kept
  <2>3. CASE disk' = [disk EXCEPT ![run.name] = Disabled(disk[run.name])] /\ run.name # s
    BY <1>a, <1>b, <1>9, <2>3 DEF Finish, Entries
  <2> QED
    BY <1>9, <2>1, <2>2, <2>3, WriteCases DEF Finish
<1>10. CASE Die
  BY <1>d, <1>10 DEF Die, ScanRoutineDB, Fails
<1>11. CASE UNCHANGED vars
  BY <1>d, <1>11 DEF vars
<1> QED
  BY <1>1, <1>2, <1>3, <1>4, <1>5, <1>6, <1>7, <1>8, <1>9, <1>10,
     <1>11, InputFields
  DEF Next, AdminStep, RunStep, SendDies

\* What the administrator was told is in place is on the table.
THEOREM AckedKept == Spec => []AckedOnDisk
<1>1. Init => AckedOnDisk
  BY DEF Init, AckedOnDisk
<1> QED
  BY <1>1, Invariant, KeptStep, PTL DEF Spec

-----------------------------------------------------------------------------
(* RUNONCE.                                                                *)

Faults == crashes + failures
On(entry) == entry # None /\ ~entry.disabled

\* What k runs send to a node that a list names x times.
Due(x, k) == x * k

\* Neither list, that of memory and that of the table, names a node more often
\* than named tells.
Listed(r, n) == /\ memory[r] # None => memory[r].targets[n] <= named[r][n]
                /\ disk[r] # None => disk[r].targets[n] <= named[r][n]

\* The invariant behind OncePlusFaults.  A routine that memory or table have
\* switched on still has a run to its credit, and one that runs has of this run
\* what is left of the list.
Credit(r, n) ==
  /\ Listed(r, n)
  /\ sent[r][n] <= Due(named[r][n], 1 + Faults)
  /\ (Idle \/ run.name # r) /\ (On(memory[r]) \/ On(disk[r]))
       => sent[r][n] <= Due(named[r][n], Faults)
  /\ ~Idle /\ run.name = r =>
       IF memory[r].once
         THEN sent[r][n] + run.left[n] <= Due(named[r][n], 1 + Faults)
         ELSE sent[r][n] <= Due(named[r][n], Faults)

LEMMA DueFacts ==
  ASSUME NEW a \in Nat, NEW b \in Nat, NEW k \in Nat, NEW l \in Nat
  PROVE  /\ Due(a, k) \in Nat
         /\ a <= b /\ k <= l => Due(a, k) <= Due(b, l)
         /\ Due(a, 1 + k) = Due(a, k) + a
  BY DEF Due

LEMMA MoreFaults ==
  ASSUME NEW a \in Nat, NEW b \in Nat, NEW c \in Nat, NEW d \in Nat,
         a < c, b <= d
  PROVE  a + b < c + d
  OBVIOUS

LEMMA CreditStep ==
  ASSUME Inv, Inv', [Next]_vars, NEW s \in Names, NEW m \in Nodes, Credit(s, m)
  PROVE  Credit(s, m)'
<1>a. /\ memory \in Entries /\ disk \in Entries
      /\ memory' \in Entries /\ disk' \in Entries
      /\ sent \in [Names -> Lists] /\ named \in [Names -> Lists]
      /\ sent[s][m] \in Nat /\ sent'[s][m] \in Nat
      /\ named[s][m] \in Nat /\ named'[s][m] \in Nat
      /\ crashes \in Nat /\ failures \in Nat
      /\ crashes' \in Nat /\ failures' \in Nat
  BY DEF Inv, TypeOK, Lists
<1>b. \A r \in Names :
        /\ memory[r] # None => memory[r] \in Entry
        /\ disk[r] # None => disk[r] \in Entry
  BY <1>a DEF Entries
<1>c. ASSUME NEW r \in Names, NEW e, NEW ok \in BOOLEAN, Write(r, e, ok)
      PROVE  /\ \/ disk'[r] = e /\ failures' = failures
                \/ disk' = disk /\ failures' = failures + 1
             /\ s # r => disk'[s] = disk[s]
             /\ ~ok => disk' = disk /\ failures' = failures + 1
             /\ Done(ok) => disk'[r] = e
  BY <1>a, <1>c, WriteCases DEF Done, Fails, Entries
<1>d. PICK k \in Nat, l \in Nat : k = crashes + failures /\ l = crashes' + failures'
  BY <1>a
<1>n. k \in Nat /\ l \in Nat /\ 1 + k \in Nat /\ 1 + l \in Nat
  BY <1>d
<1>v. PICK x \in Nat, y \in Nat : x = named[s][m] /\ y = named'[s][m]
  BY <1>a
<1>f. /\ Due(named[s][m], 1 + k) = Due(named[s][m], k) + named[s][m]
      /\ Due(named[s][m], k) \in Nat /\ Due(named[s][m], 1 + k) \in Nat
      /\ Due(named'[s][m], l) \in Nat /\ Due(named'[s][m], 1 + l) \in Nat
  <2>1. /\ Due(x, 1 + k) = Due(x, k) + x
        /\ Due(x, k) \in Nat /\ Due(x, 1 + k) \in Nat
        /\ Due(y, l) \in Nat /\ Due(y, 1 + l) \in Nat
    BY <1>n, <1>v, DueFacts
  <2> QED
    BY <1>v, <2>1
\* What is due never gets less, and more with every fault.
<1>e. ASSUME named[s][m] <= named'[s][m], k <= l
      PROVE  /\ Due(named[s][m], k) <= Due(named'[s][m], l)
             /\ Due(named[s][m], 1 + k) <= Due(named'[s][m], 1 + l)
             /\ k < l => Due(named[s][m], 1 + k) <= Due(named'[s][m], l)
  <2>1. x \in Nat /\ y \in Nat /\ x <= y
    BY <1>e, <1>v
  <2>2. Due(x, k) <= Due(y, l)
    BY <1>e, <1>n, <2>1, DueFacts
  <2>3. Due(x, 1 + k) <= Due(y, 1 + l)
    <3>1. 1 + k <= 1 + l
      BY <1>e, <1>n
    <3> QED
      BY <1>n, <2>1, <3>1, DueFacts
  <2>4. k < l => Due(x, 1 + k) <= Due(y, l)
    <3>1. k < l => 1 + k <= l
      BY <1>n
    <3> QED
      BY <1>n, <2>1, <3>1, DueFacts
  <2> QED
    BY <1>v, <2>2, <2>3, <2>4
<1>t. /\ k \in Nat /\ Listed(s, m)
      /\ sent[s][m] <= Due(named[s][m], 1 + k)
      /\ (Idle \/ run.name # s) /\ (On(memory[s]) \/ On(disk[s]))
           => sent[s][m] <= Due(named[s][m], k)
      /\ ~Idle /\ run.name = s =>
           IF memory[s].once
             THEN sent[s][m] + run.left[m] <= Due(named[s][m], 1 + k)
             ELSE sent[s][m] <= Due(named[s][m], k)
  BY <1>d DEF Credit, Faults
<1>u. /\ l \in Nat
      /\ Credit(s, m)' <=>
           /\ Listed(s, m)'
           /\ sent'[s][m] <= Due(named'[s][m], 1 + l)
           /\ (Idle' \/ run'.name # s) /\ (On(memory'[s]) \/ On(disk'[s]))
                => sent'[s][m] <= Due(named'[s][m], l)
           /\ ~Idle' /\ run'.name = s =>
                IF memory'[s].once
                  THEN sent'[s][m] + run'.left[m] <= Due(named'[s][m], 1 + l)
                  ELSE sent'[s][m] <= Due(named'[s][m], l)
  BY <1>d DEF Credit, Faults
\* Nothing is sent, and s is not switched on.
<1>g. ASSUME Idle', Idle, Listed(s, m)', sent'[s] = sent[s],
             named[s][m] <= named'[s][m], crashes' = crashes,
             failures' >= failures,
             On(memory'[s]) \/ On(disk'[s]) => On(memory[s]) \/ On(disk[s])
      PROVE  Credit(s, m)'
  <2>1. k <= l
    BY <1>a, <1>d, <1>g
  <2> QED
    BY <1>a, <1>e, <1>f, <1>g, <1>t, <1>u, <2>1
\* Nothing happens to s, other than that there may be one more failure.
<1>h. ASSUME memory'[s] = memory[s], disk'[s] = disk[s], sent'[s] = sent[s],
             named'[s] = named[s], Idle', Idle, crashes' = crashes,
             failures' >= failures
      PROVE  Credit(s, m)'
  <2>1. Listed(s, m)'
    BY <1>h, <1>t DEF Listed
  <2> QED
    BY <1>a, <1>g, <1>h, <2>1
\* An administrator's command that sets sent back.
<1>i. ASSUME NEW r \in Names, sent' = [sent EXCEPT ![r] = Nobody], r = s,
             Idle', Listed(s, m)'
      PROVE  Credit(s, m)'
  <2>1. sent'[s][m] = 0
    BY <1>a, <1>i DEF Nobody
  <2>2. /\ Due(named'[s][m], l) >= 0
        /\ Due(named'[s][m], 1 + l) >= 0
    BY <1>f
  <2> QED
    BY <1>i, <1>u, <2>1, <2>2
\* The server dies.
<1>j. ASSUME Die PROVE Credit(s, m)'
  <2>1. /\ UNCHANGED <<disk, sent, named>> /\ Idle'
        /\ memory'[s] = disk[s] \/ memory'[s] = None
        /\ crashes' = crashes + 1
        /\ failures' = failures \/ failures' = failures + 1
    BY <1>a, <1>j DEF Die, ScanRoutineDB, Fails, Idle
  <2>2. Listed(s, m)'
    BY <1>t, <2>1 DEF Listed
  <2>3. k <= l /\ k < l
    <3>1. crashes' = crashes + 1 /\ (failures' = failures \/ failures' = failures + 1)
      BY <2>1
    <3>2. crashes \in Nat /\ failures \in Nat /\ crashes' \in Nat /\ failures' \in Nat
      BY <1>a
    <3>3. crashes < crashes' /\ failures <= failures'
      BY <3>1, <3>2
    <3>4. crashes + failures < crashes' + failures'
      BY <3>2, <3>3, MoreFaults
    <3>5. k < l
      BY <1>d, <3>4
    <3> QED
      BY <1>n, <3>5
  <2>4. /\ Due(named[s][m], 1 + k) <= Due(named'[s][m], l)
        /\ Due(named[s][m], 1 + k) <= Due(named'[s][m], 1 + l)
    BY <1>a, <1>e, <2>1, <2>3
  <2> QED
    BY <1>a, <1>f, <1>t, <1>u, <2>1, <2>2, <2>4
<1>1. ASSUME NEW r \in Names, NEW entry \in Entry, NEW ok \in BOOLEAN,
             Add(r, entry, ok)
      PROVE  Credit(s, m)'
  <2>1. CASE r = s
    <3>1. /\ memory'[s] = entry /\ Idle'
          /\ disk'[s] = entry \/ disk'[s] = disk[s]
          /\ Done(ok) => disk'[s] = entry
          /\ named'[s] = IF Done(ok) THEN entry.targets
                         ELSE Larger(named[s], entry.targets)
          /\ entry.targets \in Lists /\ named[s] \in Lists
      BY <1>a, <1>c, <1>1, <2>1 DEF Add, Entries, Entry, Idle
    <3>2. /\ Larger(named[s], entry.targets)[m] >= named[s][m]
          /\ Larger(named[s], entry.targets)[m] >= entry.targets[m]
          /\ entry.targets[m] \in Nat
          /\ Larger(named[s], entry.targets)[m] \in Nat
      <4>1. PICK f \in Lists, g \in Lists : f = named[s] /\ g = entry.targets
        BY <3>1
      <4>2. /\ Larger(f, g)[m] >= f[m] /\ Larger(f, g)[m] >= g[m]
            /\ Larger(f, g) \in Lists
        BY <4>1, ListFacts
      <4>3. g[m] \in Nat /\ Larger(f, g)[m] \in Nat
        BY <4>1, <4>2 DEF Lists
      <4> QED
        BY <4>1, <4>2, <4>3
    <3>3. disk[s] # None => disk[s].targets[m] \in Nat
      BY <1>b DEF Entry, Lists
    <3>4. Listed(s, m)'
      BY <1>a, <1>t, <3>1, <3>2, <3>3 DEF Listed
    <3> QED
      BY <1>i, <1>1, <2>1, <3>1, <3>4 DEF Add
  <2>2. CASE r # s
    BY <1>a, <1>c, <1>h, <1>1, <2>2 DEF Add, Entries, Idle
  <2> QED
    BY <2>1, <2>2
\* A change that leaves the targets as they were, or only adds to named.
<1>k. ASSUME NEW r \in Names, NEW e \in Entry, NEW ok \in BOOLEAN,
             Change(r, e, ok), r = s, named[s][m] <= named'[s][m],
             e.targets[m] <= named'[s][m]
      PROVE  /\ Listed(s, m)' /\ Idle /\ Idle' /\ crashes' = crashes
             /\ failures' >= failures
             /\ memory'[s] = e \/ memory'[s] = memory[s]
             /\ disk'[s] = e \/ disk'[s] = disk[s]
  <2>1. /\ memory'[s] = e \/ memory'[s] = memory[s]
        /\ disk'[s] = e \/ disk'[s] = disk[s]
        /\ Idle /\ Idle' /\ crashes' = crashes /\ failures' >= failures
    BY <1>a, <1>c, <1>k DEF Change, Entries, Idle
  <2>2. /\ disk[s] # None => disk[s].targets[m] \in Nat
        /\ memory[s] # None => memory[s].targets[m] \in Nat
        /\ e.targets[m] \in Nat
    BY <1>b DEF Entry, Lists
  <2>3. Listed(s, m)'
    BY <1>a, <1>k, <1>t, <2>1, <2>2 DEF Listed
  <2> QED
    BY <2>1, <2>3
\* A change of another routine.
<1>l. ASSUME NEW r \in Names, NEW e, NEW ok \in BOOLEAN,
             Change(r, e, ok), r # s, sent'[s] = sent[s], named'[s] = named[s]
      PROVE  Credit(s, m)'
  BY <1>a, <1>c, <1>h, <1>l DEF Change, Entries, Idle
<1>2. ASSUME NEW r \in Names, NEW once \in BOOLEAN,
             NEW connect \in BOOLEAN, NEW disabled \in BOOLEAN,
             NEW ok \in BOOLEAN,
             ChangeFlags(r, once, connect, disabled, ok)
      PROVE  Credit(s, m)'
  <2> DEFINE e == SetFlags(disk[r], once, connect, disabled)
  <2>1. /\ Change(r, e, ok) /\ UNCHANGED named /\ disk[r] # None
        /\ sent' = IF ok THEN [sent EXCEPT ![r] = Nobody] ELSE sent
    BY <1>2 DEF ChangeFlags
  <2>2. e \in Entry /\ e.targets = disk[r].targets
    BY <1>b, <2>1, ChangedEntry
  <2> HIDE DEF e
  <2>3. CASE r = s
    <3>1. e.targets[m] <= named'[s][m] /\ named[s][m] <= named'[s][m]
      BY <1>a, <1>t, <2>1, <2>2, <2>3 DEF Listed
    <3>2. Listed(s, m)' /\ Idle' /\ Idle
      BY <1>k, <2>1, <2>2, <2>3, <3>1
    <3>3. CASE ok
      BY <1>i, <2>1, <2>3, <3>2, <3>3
    <3>4. CASE ~ok
      BY <1>a, <1>c, <1>h, <2>1, <3>2, <3>4 DEF Change
    <3> QED
      BY <3>3, <3>4
  <2>4. CASE r # s
    BY <1>a, <1>l, <2>1, <2>4
  <2> QED
    BY <2>3, <2>4
<1>3. ASSUME NEW r \in Names, NEW timed \in BOOLEAN, NEW ok \in BOOLEAN,
             ChangeSchedule(r, timed, ok)
      PROVE  Credit(s, m)'
  <2> DEFINE e == SetSchedule(disk[r], timed)
  <2>1. /\ Change(r, e, ok) /\ UNCHANGED <<sent, named>> /\ disk[r] # None
    BY <1>3 DEF ChangeSchedule
  <2>2. /\ e \in Entry /\ e.targets = disk[r].targets
        /\ e.disabled = disk[r].disabled
    BY <1>b, <2>1, ChangedEntry
  <2> HIDE DEF e
  <2>3. CASE r = s
    <3>1. e.targets[m] <= named'[s][m] /\ named[s][m] <= named'[s][m]
      BY <1>a, <1>t, <2>1, <2>2, <2>3 DEF Listed
    <3>2. /\ Listed(s, m)' /\ Idle /\ Idle' /\ crashes' = crashes
          /\ failures' >= failures
          /\ memory'[s] = e \/ memory'[s] = memory[s]
          /\ disk'[s] = e \/ disk'[s] = disk[s]
      BY <1>k, <2>1, <2>2, <2>3, <3>1
    <3>3. On(memory'[s]) \/ On(disk'[s]) => On(memory[s]) \/ On(disk[s])
      BY <2>1, <2>2, <2>3, <3>2 DEF On
    <3> QED
      BY <1>g, <2>1, <3>1, <3>2, <3>3
  <2>4. CASE r # s
    BY <1>l, <2>1, <2>4
  <2> QED
    BY <2>3, <2>4
<1>4. ASSUME NEW r \in Names, NEW targets \in Lists, NEW ok \in BOOLEAN,
             ChangeTargets(r, targets, ok)
      PROVE  Credit(s, m)'
  <2> DEFINE e == SetTargets(disk[r], targets)
  <2>1. /\ Change(r, e, ok) /\ UNCHANGED sent /\ disk[r] # None
        /\ named' = [named EXCEPT ![r] = Larger(@, targets)]
    BY <1>4 DEF ChangeTargets
  <2>2. /\ e \in Entry /\ e.targets = targets
        /\ e.disabled = disk[r].disabled
    BY <1>b, <2>1, ChangedTargets
  <2> HIDE DEF e
  <2>3. CASE r = s
    <3>0. named'[s] = Larger(named[s], targets) /\ named[s] \in Lists
      BY <1>a, <2>1, <2>3
    <3>1. e.targets[m] <= named'[s][m] /\ named[s][m] <= named'[s][m]
      <4>1. /\ Larger(named[s], targets)[m] >= named[s][m]
            /\ Larger(named[s], targets)[m] >= targets[m]
            /\ targets[m] \in Nat
        BY <3>0, ListFacts DEF Lists
      <4> QED
        BY <1>a, <2>2, <3>0, <4>1
    <3>2. /\ Listed(s, m)' /\ Idle /\ Idle' /\ crashes' = crashes
          /\ failures' >= failures
          /\ memory'[s] = e \/ memory'[s] = memory[s]
          /\ disk'[s] = e \/ disk'[s] = disk[s]
      BY <1>k, <2>1, <2>2, <2>3, <3>1
    <3>3. On(memory'[s]) \/ On(disk'[s]) => On(memory[s]) \/ On(disk[s])
      BY <2>1, <2>2, <2>3, <3>2 DEF On
    <3> QED
      BY <1>g, <2>1, <3>1, <3>2, <3>3
  <2>4. CASE r # s
    BY <1>a, <1>l, <2>1, <2>4
  <2> QED
    BY <2>3, <2>4
<1>5. ASSUME NEW r \in Names, NEW ok \in BOOLEAN, Delete(r, ok)
      PROVE  Credit(s, m)'
  <2>1. CASE r = s
    <3>1. /\ memory'[s] = None /\ UNCHANGED <<sent, named>> /\ Idle' /\ Idle
          /\ disk'[s] = None \/ disk'[s] = disk[s]
          /\ crashes' = crashes /\ failures' >= failures
      BY <1>a, <1>c, <1>5, <2>1 DEF Delete, Entries, Idle
    <3>2. Listed(s, m)'
      BY <1>t, <3>1 DEF Listed
    <3> QED
      BY <1>a, <1>g, <3>1, <3>2 DEF On
  <2>2. CASE r # s
    BY <1>a, <1>c, <1>h, <1>5, <2>2 DEF Delete, Entries, Idle
  <2> QED
    BY <2>1, <2>2
\* A run that begins with no more of m than memory's list has.
<1>m. ASSUME NEW r \in Names, NEW f \in Lists, StartRun(r, f), Idle,
             On(memory[r]), r = s => f[m] <= memory[s].targets[m]
      PROVE  Credit(s, m)'
  <2>1. /\ run'.name = r /\ run'.left = f
        /\ UNCHANGED <<memory, disk, sent, named, crashes, failures>>
    BY <1>m DEF StartRun
  <2>2. r = s => /\ sent[s][m] <= Due(named[s][m], k)
                 /\ sent[s][m] + f[m] <= Due(named[s][m], 1 + k)
    <3> SUFFICES ASSUME r = s
                 PROVE  /\ sent[s][m] <= Due(named[s][m], k)
                        /\ sent[s][m] + f[m] <= Due(named[s][m], 1 + k)
      OBVIOUS
    <3>1. /\ f[m] \in Nat /\ memory[s].targets[m] \in Nat
          /\ f[m] <= memory[s].targets[m]
          /\ memory[s].targets[m] <= named[s][m]
      BY <1>b, <1>m, <1>t DEF Lists, Entry, On, Listed
    <3>2. /\ sent[s][m] <= Due(named[s][m], k)
          /\ Due(named[s][m], k) \in Nat
      BY <1>f, <1>m, <1>t
    <3> QED
      BY <1>a, <1>f, <3>1, <3>2
  <2> QED
    BY <1>d, <1>m, <1>t, <1>u, <2>1, <2>2 DEF Listed
<1>6. ASSUME NEW r \in Names, RunScheduled(r)
      PROVE  Credit(s, m)'
  <2>1. CASE StartRun(r, memory[r].targets)
    <3>1. Idle /\ On(memory[r]) /\ memory[r].targets \in Lists
      BY <1>b, <1>6 DEF RunScheduled, On, Entry
    <3>2. memory[r].targets[m] \in Nat
      BY <3>1 DEF Lists
    <3> QED
      BY <1>m, <2>1, <3>1, <3>2
  <2> QED
    BY <1>j, <1>6, <2>1 DEF RunScheduled
<1>7. ASSUME NEW r \in Names, NEW n \in Nodes, RunOnConnect(r, n)
      PROVE  Credit(s, m)'
  <2>1. CASE StartRun(r, Only(n))
    <3>1. /\ Idle /\ On(memory[r]) /\ memory[r].targets \in Lists
          /\ memory[r].targets[n] > 0
      BY <1>b, <1>7 DEF RunOnConnect, On, Entry
    <3>2. Only(n) \in Lists /\ Only(n)[m] <= memory[r].targets[m]
      BY <3>1, ListFacts DEF Lists
    <3> QED
      BY <1>m, <2>1, <3>1, <3>2
  <2> QED
    BY <1>j, <1>7, <2>1 DEF RunOnConnect
<1>8. ASSUME NEW n \in Nodes, NEW connected \in BOOLEAN,
             Send(n, connected)
      PROVE  Credit(s, m)'
  <2>1. /\ run \in [name : Names, left : Lists]
        /\ ~Idle /\ run.left[n] > 0
        /\ UNCHANGED <<memory, disk, named, crashes, failures>>
    BY <1>8 DEF Send, Inv, TypeOK, Idle
  <2>2. /\ run'.name = run.name /\ ~Idle'
        /\ run'.left = [run.left EXCEPT ![n] = @ - 1]
    <3>1. [run.left EXCEPT ![n] = @ - 1] \in Lists
      BY <2>1, ListFacts
    <3>2. /\ run'.name = run.name
          /\ run'.left = [run.left EXCEPT ![n] = @ - 1]
          /\ run' \in [name : Names, left : Lists]
      BY <1>8, <2>1, <3>1 DEF Send
    <3> QED
      BY <3>2, ConstantsAssumption DEF Idle
  <2>3. run.left[m] \in Nat
    BY <2>1 DEF Lists
  <2>4. Credit(s, m)' <=>
          /\ Listed(s, m)
          /\ sent'[s][m] <= Due(named[s][m], 1 + k)
          /\ run.name # s /\ (On(memory[s]) \/ On(disk[s]))
               => sent'[s][m] <= Due(named[s][m], k)
          /\ run.name = s =>
               IF memory[s].once
                 THEN sent'[s][m] + run'.left[m] <= Due(named[s][m], 1 + k)
                 ELSE sent'[s][m] <= Due(named[s][m], k)
    BY <1>d, <1>u, <2>1, <2>2 DEF Listed
  <2>5. run'.left[m] = IF m = n THEN run.left[m] - 1 ELSE run.left[m]
    BY <2>1, <2>2 DEF Lists
  <2>6. Due(named[s][m], k) \in Nat /\ Due(named[s][m], 1 + k) \in Nat
    BY <1>f
  <2>7. CASE sent'[s][m] = sent[s][m]
    BY <1>a, <1>t, <2>1, <2>3, <2>4, <2>5, <2>6, <2>7
  <2>8. CASE sent'[s][m] = sent[s][m] + 1 /\ s = run.name /\ m = n
             /\ memory[s].once
    BY <1>a, <1>t, <2>1, <2>3, <2>4, <2>5, <2>6, <2>8
  <2>9. \/ sent'[s][m] = sent[s][m]
        \/ /\ sent'[s][m] = sent[s][m] + 1 /\ s = run.name /\ m = n
           /\ memory[s].once
    BY <1>a, <1>8, <2>1 DEF Send, Lists
  <2> QED
    BY <2>7, <2>8, <2>9
<1>9. ASSUME NEW ok \in BOOLEAN, Finish(ok)
      PROVE  Credit(s, m)'
  <2>1. /\ ~Idle /\ Idle' /\ run.name \in Names
        /\ UNCHANGED <<sent, named, crashes>>
        /\ memory[run.name] \in Entry /\ disk[run.name] \in Entry
    BY <1>b, <1>9 DEF Finish, Inv, TypeOK, RunValid, Idle
  <2>2. CASE ~memory[run.name].once
    BY <1>d, <1>t, <1>u, <1>9, <2>1, <2>2 DEF Finish, Listed
  <2>3. CASE memory[run.name].once
    <3>1. /\ memory' = [memory EXCEPT ![run.name] = Disabled(@)]
          /\ Write(run.name, Disabled(disk[run.name]), ok)
      BY <1>9, <2>3 DEF Finish
    <3>2. /\ Disabled(memory[run.name]).disabled
          /\ Disabled(disk[run.name]).disabled
          /\ Disabled(memory[run.name]).targets = memory[run.name].targets
          /\ Disabled(disk[run.name]).targets = disk[run.name].targets
      BY <2>1, ChangedEntry
    <3>3. k <= l /\ (failures' = failures + 1 => k < l)
      <4>1. crashes' = crashes /\ (failures' = failures \/ failures' = failures + 1)
        BY <1>c, <2>1, <3>1
      <4> QED
        BY <1>a, <1>d, <4>1
    <3>4. /\ Due(named[s][m], k) <= Due(named'[s][m], l)
          /\ Due(named[s][m], 1 + k) <= Due(named'[s][m], 1 + l)
          /\ k < l =>
               Due(named[s][m], 1 + k) <= Due(named'[s][m], l)
      BY <1>a, <1>e, <2>1, <3>3
    <3>5. CASE run.name = s
      <4>1. memory'[s] = Disabled(memory[s]) /\ ~On(memory'[s])
        BY <1>a, <3>1, <3>2, <3>5 DEF On, Entries
      <4>2. disk'[s] = Disabled(disk[s]) \/ disk'[s] = disk[s]
        BY <1>c, <2>1, <3>1, <3>5
      <4>3. Listed(s, m)'
        BY <1>t, <2>1, <3>2, <3>5, <4>1, <4>2, ConstantsAssumption DEF Listed
      <4>4. ~On(disk'[s]) \/ k < l
        BY <1>c, <2>1, <3>1, <3>2, <3>3, <3>5 DEF On
      <4> QED
        BY <1>a, <1>f, <1>t, <1>u, <2>1, <3>4, <4>1, <4>3, <4>4
    <3>6. CASE run.name # s
      <4>1. memory'[s] = memory[s] /\ disk'[s] = disk[s]
        BY <1>a, <1>c, <2>1, <3>1, <3>6 DEF Entries
      <4>2. Listed(s, m)'
        BY <1>t, <2>1, <4>1 DEF Listed
      <4> QED
        BY <1>a, <1>f, <1>t, <1>u, <2>1, <3>4, <3>6, <4>1, <4>2
    <3> QED
      BY <3>5, <3>6
  <2> QED
    BY <2>2, <2>3
<1>10. CASE Die
  BY <1>j, <1>10
<1>11. CASE UNCHANGED vars
  BY <1>d, <1>t, <1>u, <1>11 DEF vars, Listed, Idle
<1> QED
  BY <1>1, <1>2, <1>3, <1>4, <1>5, <1>6, <1>7, <1>8, <1>9, <1>10,
     <1>11, InputFields
  DEF Next, AdminStep, RunStep, SendDies

\* A RUNONCE routine is sent to a node once for each time its list names that
\* node, and as often again at most for every crash and every failed write.
THEOREM OnceBounded == Spec => []OncePlusFaults
<1> DEFINE AllCredit == \A r \in Names, n \in Nodes : Credit(r, n)
<1>1. Init => AllCredit
  <2> SUFFICES ASSUME Init, NEW r \in Names, NEW n \in Nodes
               PROVE  Credit(r, n)
    OBVIOUS
  <2>1. sent[r][n] = 0 /\ Faults = 0 /\ Idle /\ memory = disk
        /\ named[r] = Named(disk[r])
    BY DEF Init, Nobody, Faults, Idle
  <2>2. disk[r] # None => disk[r] \in Entry
    BY ConstantsAssumption DEF Init
  <2>3. named[r][n] \in Nat /\ (disk[r] # None => disk[r].targets[n] <= named[r][n])
    BY <2>1, <2>2 DEF Named, Nobody, Entry, Lists
  <2>4. Due(named[r][n], 0) >= 0 /\ Due(named[r][n], 1) >= 0
    BY <2>3 DEF Due
  <2> QED
    BY <2>1, <2>3, <2>4 DEF Credit, Listed
<1>2. Inv /\ Inv' /\ AllCredit /\ [Next]_vars => AllCredit'
  BY CreditStep
<1>3. Inv /\ AllCredit => OncePlusFaults
  <2> SUFFICES ASSUME Inv, AllCredit, NEW r \in Names, NEW n \in Nodes
               PROVE  sent[r][n] <= named[r][n] * (1 + crashes + failures)
    BY DEF OncePlusFaults
  <2>1. crashes \in Nat /\ failures \in Nat
    BY DEF Inv, TypeOK
  <2>2. 1 + Faults = 1 + crashes + failures
    BY <2>1 DEF Faults
  <2>3. sent[r][n] <= Due(named[r][n], 1 + Faults)
    BY DEF Credit
  <2> QED
    BY <2>2, <2>3 DEF Due
<1> QED
  BY <1>1, <1>2, <1>3, Invariant, PTL DEF Spec

\* Memory and table agree while no write has failed, and a run's routine stays
\* in both.
THEOREM Safety == Spec => []Safe
<1>1. TypeOK /\ MemoryIsDisk => Safe
  BY DEF Safe
<1> QED
  BY <1>1, TypeCorrect, CopiesAgree, PTL
=============================================================================
