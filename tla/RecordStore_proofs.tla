-------------------------- MODULE RecordStore_proofs --------------------------
(***************************************************************************)
(* TLAPS proofs about RecordStore: with a temporary file per name and the  *)
(* second look (Exclusive), a store needs no lock, whatever names its      *)
(* writers share, wherever they die, whoever reads meanwhile and however   *)
(* often the machine loses power.                                          *)
(***************************************************************************)
EXTENDS RecordStore, TLAPS

-----------------------------------------------------------------------------
(* The inductive invariant *)

HasTemp(w) == pc[w] \in {"write", "relook", "rename"}

\* A temporary file is its writer's alone, and whole from its writing on.
TempHeld ==
  \A w \in Writer : HasTemp(w) =>
    temp[TempFor(w)] = [by |-> w, whole |-> pc[w] # "write"]

\* The second look stays true until the rename.
NameFree ==
  Exclusive => \A w \in Writer : pc[w] = "rename" => record[NameOf(w)] = Nothing

\* The disk lags behind, and never holds a record of another writer.
DiskLags == Exclusive => \A n \in Name : disk[n] \in {record[n], Nothing}

\* What a reading command still owes, it finds in the files it has left.
ReaderOwes ==
  Exclusive /\ reader # Nothing =>
    /\ ~reader.issue
    /\ \A n \in reader.left : record[n] # Nothing
    /\ losses = 0 =>
         \A w \in reader.due :
           Reported(w) /\ (w \in reader.found \/ NameOf(w) \in reader.left)

IInv ==
  /\ TypeOK
  /\ ~store.clears
  /\ \A w \in Writer : pc[w] # "clear"
  /\ TempHeld
  /\ NameFree
  /\ DiskLags
  /\ VisibleIsWhole
  /\ ReportedIsKept
  /\ ReaderOwes

-----------------------------------------------------------------------------
(* Lemmas *)

\* Every store is one of the Protocols.
LEMMA StoresTyped == Stores \subseteq Protocols
<1> USE NamesAssumption
<1>1. /\ StemTries \in [Writer -> [1..MaxAttempts -> [name : Name, temp : Temp]]]
      /\ OutputTries \in [Writer -> [1..MaxAttempts -> [name : Name, temp : Temp]]]
      /\ FixedTries \in [Writer -> [1..MaxAttempts -> [name : Name, temp : Temp]]]
  BY DEF StemTries, OutputTries, FixedTries, Name, Temp
<1>2. 1 \in Name /\ MaxAttempts \in Name
  BY DEF Name
<1>3. RunPurgeRecords \in Protocols
  BY <1>1, <1>2 DEF RunPurgeRecords, Protocols
<1>4. CachePurgeRecords \in Protocols
  BY <1>1, <1>2 DEF CachePurgeRecords, RunPurgeRecords, Protocols
<1>5. RunPurgePlanFile \in Protocols
  BY <1>1, <1>2 DEF RunPurgePlanFile, Protocols
<1>6. ConfigurationFile \in Protocols
  BY <1>1, <1>2 DEF ConfigurationFile, Protocols
<1> QED
  BY <1>3, <1>4, <1>5, <1>6 DEF Stores, RunPurgeIntents, ArtifactRecords,
     MonitoringSamples, AccountUsageSamples, AlertReceipts, CachePurgeIntents,
     CachePurgePlanFile

LEMMA NamesTyped ==
  ASSUME TypeOK, NEW w \in Writer
  PROVE  NameOf(w) \in Name /\ TempFor(w) \in Temp
<1>1. store \in Protocols /\ attempt[w] \in 1..MaxAttempts
  BY StoresTyped DEF TypeOK
<1>2. store.tries[w][attempt[w]] \in [name : Name, temp : Temp]
  BY <1>1 DEF Protocols
<1> QED
  BY <1>2 DEF NameOf, TempFor

\* Writers at work cannot have the same temporary file, nor, if the temporary file goes
\* with the name, the same name.
LEMMA OneHolder ==
  ASSUME IInv, NEW v \in Writer, NEW w \in Writer, v # w, HasTemp(v), HasTemp(w)
  PROVE  TempFor(v) # TempFor(w) /\ (Exclusive => NameOf(v) # NameOf(w))
<1>0. ASSUME NEW u \in Writer, HasTemp(u) PROVE temp[TempFor(u)].by = u
  <2>1. temp[TempFor(u)] = [by |-> u, whole |-> pc[u] # "write"]
    BY <1>0 DEF IInv, TempHeld
  <2> QED
    BY <2>1
<1>1. TempFor(v) # TempFor(w)
  BY <1>0
<1>2. attempt[v] \in 1..MaxAttempts /\ attempt[w] \in 1..MaxAttempts
  BY DEF IInv, TypeOK
<1> QED
  BY <1>1, <1>2 DEF Exclusive, TempFor, NameOf

\* A step of a writer moves no other writer.
LEMMA MovesOne ==
  ASSUME TypeOK, NEW w \in Writer, NEW place \in Pc, Goto(w, place) \/ TryNext(w)
  PROVE  /\ pc' \in [Writer -> Pc]
         /\ attempt' \in [Writer -> 1..MaxAttempts]
         /\ \A v \in Writer \ {w} :
              pc'[v] = pc[v] /\ attempt'[v] = attempt[v]
         /\ Goto(w, place) => pc'[w] = place /\ attempt'[w] = attempt[w]
         /\ TryNext(w) => pc'[w] \in {"look", "create", "failed"}
<1>1. CASE Goto(w, place)
  <2>1. pc' = [pc EXCEPT ![w] = place] /\ attempt' = attempt
    BY <1>1 DEF Goto
  <2> QED
    BY <2>1, <1>1 DEF TypeOK, TryNext, Goto
<1>2. CASE TryNext(w) /\ attempt[w] < store.last
  <2>0. PICK next \in {"look", "create"} :
          /\ pc' = [pc EXCEPT ![w] = next]
          /\ attempt' = [attempt EXCEPT ![w] = attempt[w] + 1]
    BY <1>2 DEF TryNext
  <2>1. store.last \in 1..MaxAttempts /\ attempt[w] \in 1..MaxAttempts
    BY StoresTyped DEF TypeOK, Protocols, Name
  <2>2. attempt[w] + 1 \in 1..MaxAttempts
    BY <1>2, <2>1, NamesAssumption
  <2>3. attempt' \in [Writer -> 1..MaxAttempts]
    BY <2>0, <2>2 DEF TypeOK
  <2> QED
    BY <2>0, <2>1, <2>3 DEF TypeOK, Pc, Goto
<1>3. CASE TryNext(w) /\ ~(attempt[w] < store.last)
  BY <1>3 DEF TypeOK, Goto, TryNext, Pc
<1> QED
  BY <1>1, <1>2, <1>3

LEMMA OthersNames ==
  ASSUME TypeOK, UNCHANGED store, NEW v \in Writer, attempt'[v] = attempt[v]
  PROVE  NameOf(v)' = NameOf(v) /\ TempFor(v)' = TempFor(v)
BY DEF NameOf, TempFor

LEMMA SameStore == UNCHANGED store => (Exclusive' <=> Exclusive)
BY DEF Exclusive

-----------------------------------------------------------------------------
(* The invariant holds initially and is kept by every step. *)

LEMMA InitIInv == Init /\ ~store.clears => IInv
<1> SUFFICES ASSUME Init, ~store.clears PROVE IInv
  OBVIOUS
<1>1. TypeOK
  BY NamesAssumption DEF Init, TypeOK, Name, Pc
<1> QED
  BY <1>1 DEF Init, IInv, TempHeld, HasTemp, NameFree, VisibleIsWhole, DiskLags,
     ReportedIsKept, Reported, ReaderOwes

\* A reading command is owed no more and no less when the writers move on.
LEMMA ReaderKept ==
  ASSUME IInv, UNCHANGED <<store, reader, losses>>,
         \A n \in Name : record[n] # Nothing => record'[n] # Nothing,
         \A v \in Writer : pc[v] = "done" => pc'[v] = "done" /\ attempt'[v] = attempt[v]
  PROVE  ReaderOwes'
<1> USE DEF IInv
<1>1. SUFFICES ASSUME Exclusive, reader # Nothing
               PROVE  ReaderOwes'
  BY SameStore DEF ReaderOwes
<1>2. reader.left \subseteq Name /\ reader.due \subseteq Writer
  BY <1>1 DEF TypeOK, Readers
<1>3. ~reader'.issue /\ \A n \in reader'.left : record'[n] # Nothing
  BY <1>1, <1>2 DEF ReaderOwes
<1>4. ASSUME losses' = 0, NEW w \in reader.due
      PROVE  Reported(w)' /\ (w \in reader.found \/ NameOf(w)' \in reader.left)
  <2>1. w \in Writer /\ Reported(w) /\ (w \in reader.found \/ NameOf(w) \in reader.left)
    BY <1>1, <1>2, <1>4 DEF ReaderOwes
  <2> QED
    BY <2>1, OthersNames DEF Reported
<1> QED
  BY <1>3, <1>4 DEF ReaderOwes

\* A step that gives its writer no temporary file and nothing to report.
LEMMA IdleKeepsIInv ==
  ASSUME IInv, NEW w \in Writer, UNCHANGED <<record, temp>>, KeepRest,
         pc[w] # "done", Goto(w, "create") \/ Goto(w, "failed") \/ TryNext(w)
  PROVE  IInv'
<1> USE DEF IInv, KeepRest
<1>f. /\ pc' \in [Writer -> Pc]
      /\ attempt' \in [Writer -> 1..MaxAttempts]
      /\ \A v \in Writer \ {w} : pc'[v] = pc[v] /\ attempt'[v] = attempt[v]
      /\ pc'[w] \in {"look", "create", "failed"}
  BY MovesOne DEF Pc
<1>1. TypeOK'
  BY <1>f DEF TypeOK
<1>2. TempHeld' /\ NameFree'
  BY <1>f, OthersNames, SameStore DEF TempHeld, HasTemp, NameFree
<1>3. VisibleIsWhole' /\ ReportedIsKept' /\ DiskLags'
  BY <1>f, OthersNames, SameStore
  DEF VisibleIsWhole, ReportedIsKept, Reported, Kept, DiskLags
<1>4. ReaderOwes'
  BY <1>f, ReaderKept
<1> QED
  BY <1>1, <1>2, <1>3, <1>4, <1>f

LEMMA CreateKeepsIInv ==
  ASSUME IInv, NEW w \in Writer, Create(w), temp[TempFor(w)] = Nothing
  PROVE  IInv'
<1> USE DEF IInv, KeepRest, Create
<1>c. /\ temp' = [temp EXCEPT ![TempFor(w)] = [by |-> w, whole |-> FALSE]]
      /\ Goto(w, "write")
      /\ UNCHANGED <<store, record, disk, reader, losses>>
  OBVIOUS
<1>f. /\ pc' \in [Writer -> Pc]
      /\ pc[w] = "create" /\ pc'[w] = "write"
      /\ \A v \in Writer \ {w} : pc'[v] = pc[v]
      /\ attempt' = attempt
      /\ UNCHANGED <<store, record, disk, reader, losses>>
  BY <1>c DEF Goto, TypeOK, Pc
<1>n. [by |-> w, whole |-> FALSE] \in Files
  BY DEF Files
<1>t. /\ TempFor(w) \in Temp
      /\ temp' = [temp EXCEPT ![TempFor(w)] = [by |-> w, whole |-> FALSE]]
      /\ temp' \in [Temp -> Files \cup {Nothing}]
  BY <1>c, <1>n, NamesTyped DEF TypeOK
<1>1. TypeOK'
  BY <1>f, <1>t DEF TypeOK
<1>2. TempHeld'
  <2> SUFFICES ASSUME NEW v \in Writer, HasTemp(v)'
               PROVE  temp'[TempFor(v)'] = [by |-> v, whole |-> pc'[v] # "write"]
    BY DEF TempHeld
  <2>1. CASE v = w
    BY <2>1, <1>f, <1>t, OthersNames DEF TypeOK
  <2>2. CASE v # w
    <3>1. temp[TempFor(v)] = [by |-> v, whole |-> pc[v] # "write"]
      BY <2>2, <1>f DEF TempHeld, HasTemp
    <3>2. [by |-> v, whole |-> pc[v] # "write"] \in Files
      BY DEF Files
    <3>3. TempFor(v) # TempFor(w)
      BY <3>1, <3>2, NamesAssumption
    <3> QED
      BY <2>2, <3>1, <3>3, <1>f, <1>t, OthersNames, NamesTyped DEF TypeOK
  <2> QED
    BY <2>1, <2>2
<1>3. NameFree' /\ VisibleIsWhole' /\ ReportedIsKept' /\ DiskLags'
  BY <1>f, OthersNames, SameStore
  DEF NameFree, VisibleIsWhole, ReportedIsKept, Reported, Kept, DiskLags
<1>4. ReaderOwes'
  BY <1>f, ReaderKept
<1> QED
  BY <1>1, <1>2, <1>3, <1>4, <1>f

\* A writer that removes its temporary file disturbs nobody else's.
LEMMA DropKeepsIInv ==
  ASSUME IInv, NEW w \in Writer, HasTemp(w), RemoveTemp(w),
         Goto(w, "failed") \/ TryNext(w), UNCHANGED record, KeepRest
  PROVE  IInv'
<1> USE DEF IInv, KeepRest
<1>f. /\ pc' \in [Writer -> Pc]
      /\ attempt' \in [Writer -> 1..MaxAttempts]
      /\ \A v \in Writer \ {w} : pc'[v] = pc[v] /\ attempt'[v] = attempt[v]
      /\ pc[w] # "done" /\ pc'[w] \in {"look", "create", "failed"}
  BY MovesOne DEF Pc, HasTemp
<1>t. /\ temp' \in [Temp -> Files \cup {Nothing}]
      /\ \A t \in Temp \ {TempFor(w)} : temp'[t] = temp[t]
  BY NamesTyped DEF RemoveTemp, TypeOK
<1>1. TypeOK'
  BY <1>f, <1>t DEF TypeOK
<1>2. TempHeld'
  <2> SUFFICES ASSUME NEW v \in Writer, HasTemp(v)'
               PROVE  temp'[TempFor(v)'] = [by |-> v, whole |-> pc'[v] # "write"]
    BY DEF TempHeld
  <2>1. v # w /\ HasTemp(v)
    BY <1>f DEF HasTemp
  <2>2. TempFor(v) # TempFor(w) /\ TempFor(v) \in Temp
    BY <2>1, OneHolder, NamesTyped
  <2> QED
    BY <2>1, <2>2, <1>f, <1>t, OthersNames DEF TempHeld
<1>3. NameFree' /\ VisibleIsWhole' /\ ReportedIsKept' /\ DiskLags'
  BY <1>f, OthersNames, SameStore
  DEF NameFree, VisibleIsWhole, ReportedIsKept, Reported, Kept, DiskLags
<1>4. ReaderOwes'
  BY <1>f, ReaderKept
<1> QED
  BY <1>1, <1>2, <1>3, <1>4, <1>f

LEMMA WriteKeepsIInv ==
  ASSUME IInv, NEW w \in Writer, Write(w)
  PROVE  IInv'
<1> USE DEF IInv
<1>h. pc[w] = "write" /\ HasTemp(w) /\ temp[TempFor(w)] = Half(w)
  BY DEF Write, HasTemp, TempHeld, Half
<1>1. CASE RemoveTemp(w) /\ Goto(w, "failed") /\ UNCHANGED record
  BY <1>1, <1>h, DropKeepsIInv DEF Write
<1>2. CASE ~(RemoveTemp(w) /\ Goto(w, "failed") /\ UNCHANGED record)
  <2>f. /\ temp' = [t \in Temp |-> Completed(w, temp[t])]
        /\ record' = [n \in Name |-> Completed(w, record[n])]
        /\ pc' \in [Writer -> Pc]
        /\ pc'[w] = "relook"
        /\ \A v \in Writer \ {w} : pc'[v] = pc[v]
        /\ attempt' = attempt
        /\ UNCHANGED <<store, disk, reader, losses>>
    BY <1>2 DEF Write, Goto, KeepRest, TypeOK, Pc
  <2>h. Half(w) # Nothing /\ Half(w).whole = FALSE /\ Half(w).by = w
    <3>1. Half(w) = [by |-> w, whole |-> FALSE]
      BY DEF Half
    <3>2. [by |-> w, whole |-> FALSE] \in Files
      BY DEF Files
    <3>3. Half(w) # Nothing
      BY <3>1, <3>2, NamesAssumption
    <3>4. Half(w).whole = FALSE /\ Half(w).by = w
      BY <3>1
    <3> QED
      BY <3>3, <3>4
  <2>c. \A file : /\ file # Half(w) => Completed(w, file) = file
                  /\ Completed(w, Half(w)) = [by |-> w, whole |-> TRUE]
    BY DEF Completed, Half
  <2>r. record' = record
    <3>1. \A n \in Name : record[n] # Half(w)
      BY <2>h DEF VisibleIsWhole
    <3> QED
      BY <3>1, <2>f, <2>c DEF TypeOK
  <2>t. temp' \in [Temp -> Files \cup {Nothing}]
    <3>1. ASSUME NEW t \in Temp PROVE Completed(w, temp[t]) \in Files \cup {Nothing}
      <4>1. [by |-> w, whole |-> TRUE] \in Files
        BY DEF Files
      <4> QED
        BY <4>1, <2>c DEF TypeOK
    <3> QED
      BY <3>1, <2>f
  <2>1. TypeOK'
    BY <2>f, <2>r, <2>t DEF TypeOK
  <2>2. TempHeld'
    <3> SUFFICES ASSUME NEW v \in Writer, HasTemp(v)'
                 PROVE  temp'[TempFor(v)'] = [by |-> v, whole |-> pc'[v] # "write"]
      BY DEF TempHeld
    <3>n. TempFor(v)' = TempFor(v) /\ TempFor(v) \in Temp
      BY <2>f, OthersNames, NamesTyped
    <3>1. CASE v = w
      BY <3>1, <3>n, <2>f, <2>c, <1>h
    <3>2. CASE v # w
      <4>1. temp[TempFor(v)] = [by |-> v, whole |-> pc[v] # "write"]
        BY <3>2, <2>f DEF HasTemp, TempHeld
      <4>2. temp[TempFor(v)] # Half(w)
        BY <3>2, <4>1, <2>h
      <4> QED
        BY <3>2, <3>n, <4>1, <4>2, <2>f, <2>c
    <3> QED
      BY <3>1, <3>2
  <2>3. NameFree' /\ VisibleIsWhole' /\ ReportedIsKept' /\ DiskLags'
    BY <1>h, <2>f, <2>r, OthersNames, SameStore
    DEF NameFree, VisibleIsWhole, ReportedIsKept, Reported, Kept, DiskLags
  <2>4. ReaderOwes'
    BY <1>h, <2>f, <2>r, ReaderKept
  <2> QED
    BY <2>1, <2>2, <2>3, <2>4, <2>f
<1> QED
  BY <1>1, <1>2

LEMMA RelookKeepsIInv ==
  ASSUME IInv, NEW w \in Writer, Relook(w)
  PROVE  IInv'
<1> USE DEF IInv
<1>h. HasTemp(w)
  BY DEF Relook, HasTemp
<1>1. CASE store.relook /\ record[NameOf(w)] # Nothing
  BY <1>1, <1>h, DropKeepsIInv DEF Relook, NameTaken
<1>2. CASE ~(store.relook /\ record[NameOf(w)] # Nothing)
  <2>f. /\ pc' \in [Writer -> Pc]
        /\ pc[w] = "relook" /\ pc'[w] = "rename"
        /\ \A v \in Writer \ {w} : pc'[v] = pc[v]
        /\ attempt' = attempt
        /\ UNCHANGED <<store, record, temp, disk, reader, losses>>
    BY <1>2 DEF Relook, Goto, KeepRest, TypeOK, Pc
  <2>1. TypeOK'
    BY <2>f DEF TypeOK
  <2>2. TempHeld'
    BY <2>f, OthersNames DEF TempHeld, HasTemp
  <2>3. NameFree'
    <3>1. Exclusive => store.relook
      BY DEF Exclusive
    <3> QED
      BY <1>2, <3>1, <2>f, OthersNames, SameStore DEF NameFree
  <2>4. VisibleIsWhole' /\ ReportedIsKept' /\ DiskLags'
    BY <2>f, OthersNames, SameStore
    DEF VisibleIsWhole, ReportedIsKept, Reported, Kept, DiskLags
  <2>5. ReaderOwes'
    BY <2>f, ReaderKept
  <2> QED
    BY <2>1, <2>2, <2>3, <2>4, <2>5, <2>f
<1> QED
  BY <1>1, <1>2

LEMMA RenameKeepsIInv ==
  ASSUME IInv, NEW w \in Writer, Rename(w)
  PROVE  IInv'
<1> USE DEF IInv
<1>h. /\ HasTemp(w)
      /\ temp[TempFor(w)] = [by |-> w, whole |-> TRUE]
      /\ Exclusive => record[NameOf(w)] = Nothing
  BY DEF Rename, HasTemp, TempHeld, NameFree
<1>1. CASE Goto(w, "failed") /\ UNCHANGED record /\ RemoveTemp(w)
  BY <1>1, <1>h, DropKeepsIInv DEF Rename
<1>2. CASE ~(Goto(w, "failed") /\ UNCHANGED record /\ RemoveTemp(w))
  <2>f. /\ record' = [record EXCEPT ![NameOf(w)] = [by |-> w, whole |-> TRUE]]
        /\ pc' \in [Writer -> Pc]
        /\ pc[w] = "rename" /\ pc'[w] = "done"
        /\ \A v \in Writer \ {w} : pc'[v] = pc[v]
        /\ attempt' = attempt
        /\ UNCHANGED <<store, disk, reader, losses>>
    BY <1>2, <1>h DEF Rename, Goto, KeepRest, TypeOK, Pc
  <2>t. /\ NameOf(w) \in Name /\ TempFor(w) \in Temp
        /\ temp' \in [Temp -> Files \cup {Nothing}]
        /\ \A t \in Temp \ {TempFor(w)} : temp'[t] = temp[t]
    BY <1>2, NamesTyped DEF Rename, RemoveTemp, TypeOK
  <2>n. [by |-> w, whole |-> TRUE] \in Files
    BY DEF Files
  <2>1. TypeOK'
    BY <2>f, <2>t, <2>n DEF TypeOK
  <2>2. TempHeld' /\ NameFree'
    <3> SUFFICES ASSUME NEW v \in Writer, HasTemp(v)'
                 PROVE  /\ temp'[TempFor(v)'] = [by |-> v, whole |-> pc'[v] # "write"]
                        /\ Exclusive /\ pc'[v] = "rename" => record'[NameOf(v)'] = Nothing
      BY <2>f, SameStore DEF TempHeld, NameFree, HasTemp
    <3>1. v # w /\ HasTemp(v)
      BY <2>f DEF HasTemp
    <3>2. TempFor(v) # TempFor(w) /\ (Exclusive => NameOf(v) # NameOf(w))
      BY <3>1, <1>h, OneHolder
    <3> QED
      BY <3>1, <3>2, <2>f, <2>t, OthersNames, NamesTyped DEF TempHeld, NameFree, TypeOK
  <2>3. VisibleIsWhole' /\ DiskLags'
    BY <1>h, <2>f, <2>t, <2>n, NamesAssumption, SameStore DEF VisibleIsWhole, DiskLags, TypeOK
  <2>5. ReaderOwes'
    BY <2>f, <2>t, <2>n, NamesAssumption, ReaderKept DEF TypeOK
  <2>4. ReportedIsKept'
    <3> SUFFICES ASSUME Exclusive, NEW v \in Writer, Reported(v)', losses' = 0
                 PROVE  record'[NameOf(v)'] = [by |-> v, whole |-> TRUE]
      BY <2>f, SameStore DEF ReportedIsKept, Kept
    <3>1. NameOf(v)' = NameOf(v)
      BY <2>f, OthersNames
    <3>2. CASE v = w
      BY <3>1, <3>2, <2>f, <2>t DEF TypeOK
    <3>3. CASE v # w
      <4>1. record[NameOf(v)] = [by |-> v, whole |-> TRUE]
        BY <3>3, <2>f DEF ReportedIsKept, Reported, Kept
      <4>2. [by |-> v, whole |-> TRUE] \in Files
        BY DEF Files
      <4>3. NameOf(v) # NameOf(w)
        BY <4>1, <4>2, <1>h, NamesAssumption
      <4> QED
        BY <3>1, <4>1, <4>3, <2>f, <2>t, NamesTyped DEF TypeOK
    <3> QED
      BY <3>2, <3>3
  <2> QED
    BY <2>1, <2>2, <2>3, <2>4, <2>5, <2>f
<1> QED
  BY <1>1, <1>2

LEMMA ReadingKeepsIInv ==
  ASSUME IInv, List \/ \E n \in Name : Read(n)
  PROVE  IInv'
<1> USE DEF IInv
<1>f. UNCHANGED <<store, record, disk, temp, pc, attempt, losses>>
  BY DEF List, Read
<1>o. /\ TempHeld' /\ NameFree' /\ VisibleIsWhole' /\ DiskLags'
      /\ ReportedIsKept' /\ ~store'.clears /\ \A w \in Writer : pc'[w] # "clear"
  BY <1>f, SameStore DEF TempHeld, HasTemp, TempFor, NameFree, NameOf, VisibleIsWhole, DiskLags,
     ReportedIsKept, Reported, Kept
<1>1. CASE List
  <2>1. reader' \in Readers
    BY <1>1 DEF List, Readers
  <2>2. TypeOK'
    BY <1>f, <2>1 DEF TypeOK
  <2>3. ASSUME Exclusive, losses = 0, NEW w \in reader'.due
        PROVE  Reported(w)' /\ NameOf(w)' \in reader'.left
    <3>1. w \in Writer /\ pc[w] = "done"
      BY <1>1, <2>3 DEF List
    <3>2. record[NameOf(w)] = [by |-> w, whole |-> TRUE] /\ NameOf(w) \in Name
      BY <2>3, <3>1, NamesTyped DEF ReportedIsKept, Reported, Kept
    <3>3. [by |-> w, whole |-> TRUE] \in Files
      BY <3>1 DEF Files
    <3>4. NameOf(w) \in reader'.left
      BY <1>1, <3>2, <3>3, NamesAssumption DEF List
    <3> QED
      BY <1>f, <3>1, <3>4, OthersNames DEF Reported
  <2>4. ~reader'.issue /\ \A n \in reader'.left : record'[n] # Nothing
    BY <1>1, <1>f DEF List
  <2>5. ReaderOwes'
    BY <1>f, <2>3, <2>4, SameStore DEF ReaderOwes
  <2> QED
    BY <1>o, <2>2, <2>5
<1>2. ASSUME NEW n \in Name, Read(n) PROVE IInv'
  <2>0. reader \in Readers /\ n \in reader.left
    BY <1>2 DEF Read, TypeOK
  <2> DEFINE readable == record[n] # Nothing /\ record[n].whole
  <2>1. reader' = [reader EXCEPT !.left = reader.left \ {n},
                     !.found = IF readable THEN reader.found \cup {record[n].by}
                               ELSE reader.found,
                     !.issue = reader.issue \/ ~readable]
    BY <1>2 DEF Read
  <2>r. record[n] # Nothing => record[n].by \in Writer /\ record[n].whole
    BY DEF TypeOK, Files, VisibleIsWhole
  <2>2. TypeOK'
    <3>1. reader' \in Readers
      BY <2>0, <2>1, <2>r DEF Readers
    <3> QED
      BY <1>f, <3>1 DEF TypeOK
  <2>3. ReaderOwes'
    <3>1. SUFFICES ASSUME Exclusive
                   PROVE  ReaderOwes'
      BY <1>f, SameStore DEF ReaderOwes
    <3>2. reader # Nothing /\ record[n] # Nothing
      BY <1>2, <3>1, <2>0 DEF Read, ReaderOwes
    <3>3. /\ reader'.left = reader.left \ {n}
          /\ reader'.found = reader.found \cup {record[n].by}
          /\ reader'.due = reader.due
          /\ ~reader'.issue
      BY <2>0, <2>1, <2>r, <3>1, <3>2 DEF Readers, ReaderOwes
    <3>4. ASSUME losses' = 0, NEW w \in reader.due
          PROVE  Reported(w)' /\ (w \in reader'.found \/ NameOf(w)' \in reader'.left)
      <4>1. w \in Writer /\ Reported(w) /\ (w \in reader.found \/ NameOf(w) \in reader.left)
        BY <1>f, <2>0, <3>1, <3>2, <3>4 DEF ReaderOwes, Readers
      <4>2. record[NameOf(w)] = [by |-> w, whole |-> TRUE]
        BY <1>f, <3>1, <3>4, <4>1 DEF ReportedIsKept, Kept
      <4>3. NameOf(w) = n => w \in reader'.found
        BY <3>3, <4>2
      <4> QED
        BY <1>f, <3>3, <4>1, <4>3, OthersNames DEF Reported
    <3> QED
      BY <1>f, <3>1, <3>2, <3>3, <3>4 DEF ReaderOwes
  <2> QED
    BY <1>o, <2>2, <2>3
<1> QED
  BY <1>1, <1>2

LEMMA WriteBackKeepsIInv ==
  ASSUME IInv, WriteBack
  PROVE  IInv'
<1> PICK n \in Name : disk' = [disk EXCEPT ![n] = record[n]]
  BY DEF WriteBack
<1>f. UNCHANGED <<store, record, temp, pc, attempt, reader, losses>>
  BY DEF WriteBack
<1>1. TypeOK'
  BY <1>f DEF IInv, TypeOK
<1>2. VisibleIsWhole' /\ DiskLags'
  BY <1>f, SameStore DEF IInv, TypeOK, VisibleIsWhole, DiskLags
<1>3. ReaderOwes'
  BY <1>f, ReaderKept
<1>4. TempHeld' /\ NameFree' /\ ReportedIsKept'
  BY <1>f, SameStore DEF IInv, TempHeld, HasTemp, NameFree, ReportedIsKept, Reported, Kept,
     NameOf, TempFor
<1> QED
  BY <1>f, <1>1, <1>2, <1>3, <1>4 DEF IInv

LEMMA PowerLossKeepsIInv ==
  ASSUME IInv, PowerLoss
  PROVE  IInv'
<1> USE DEF IInv, PowerLoss
<1> DEFINE used == {t \in Temp : Survivors(t) # {Nothing}}
<1>0. PICK f \in [used -> UNION {Survivors(t) : t \in used}] :
        temp' = [t \in Temp |-> IF t \in used THEN f[t] ELSE Nothing]
  OBVIOUS
<1>s. \A t \in Temp : Survivors(t) \subseteq Files \cup {Nothing}
  <2>1. \A v \in Writer : NameOf(v) \in Name
    BY NamesTyped
  <2> QED
    BY <2>1 DEF Survivors, TypeOK
<1>t. temp' \in [Temp -> Files \cup {Nothing}]
  BY <1>0, <1>s
<1>2. losses' # 0 /\ \A w \in Writer : pc'[w] \in {"done", "failed"}
  BY DEF TypeOK
<1>1. TypeOK'
  BY <1>t, NamesAssumption DEF TypeOK, Pc
<1>3. TempHeld' /\ NameFree' /\ ReportedIsKept' /\ ReaderOwes'
  BY <1>2 DEF TempHeld, HasTemp, NameFree, ReportedIsKept, ReaderOwes
<1>4. VisibleIsWhole' /\ DiskLags'
  BY SameStore DEF VisibleIsWhole, DiskLags
<1> QED
  BY <1>1, <1>2, <1>3, <1>4

LEMMA NextKeepsIInv == IInv /\ [Next]_vars => IInv'
<1> SUFFICES ASSUME IInv, [Next]_vars PROVE IInv'
  OBVIOUS
<1>1. ASSUME NEW w \in Writer, Look(w) \/ Die(w) PROVE IInv'
  <2>1. pc[w] # "done" /\ UNCHANGED <<record, temp>> /\ KeepRest
    BY <1>1 DEF Look, Die
  <2>2. Goto(w, "create") \/ Goto(w, "failed") \/ TryNext(w)
    BY <1>1 DEF Look, Die, NameTaken, IInv
  <2> QED
    BY <2>1, <2>2, IdleKeepsIInv
<1>2. ASSUME NEW w \in Writer, Create(w) PROVE IInv'
  BY <1>2, CreateKeepsIInv, IdleKeepsIInv DEF Create
<1>3. ASSUME NEW w \in Writer, Write(w) PROVE IInv'
  BY <1>3, WriteKeepsIInv
<1>4. ASSUME NEW w \in Writer, Relook(w) PROVE IInv'
  BY <1>4, RelookKeepsIInv
<1>5. ASSUME NEW w \in Writer, Rename(w) PROVE IInv'
  BY <1>5, RenameKeepsIInv
<1>6. CASE WriteBack \/ PowerLoss
  BY <1>6, WriteBackKeepsIInv, PowerLossKeepsIInv
<1>7. CASE List \/ \E n \in Name : Read(n)
  BY <1>7, ReadingKeepsIInv
<1>8. CASE UNCHANGED vars
  <2>1. TypeOK' /\ TempHeld' /\ NameFree' /\ VisibleIsWhole' /\ DiskLags' /\ ReportedIsKept'
    BY <1>8, SameStore DEF vars, IInv, TypeOK, TempHeld, HasTemp, NameFree, VisibleIsWhole,
       DiskLags, ReportedIsKept, Reported, Kept, NameOf, TempFor
  <2>2. ReaderOwes'
    BY <1>8, ReaderKept DEF vars
  <2> QED
    BY <1>8, <2>1, <2>2 DEF vars, IInv
<1>9. ~ \E w \in Writer : Clear(w)
  BY DEF IInv, Clear
<1> QED
  BY <1>1, <1>2, <1>3, <1>4, <1>5, <1>6, <1>7, <1>8, <1>9 DEF Next, Step

\* The store stays what it is: the invariant needs it only where nobody removes
\* another's temporary file.
SafeStore == ~store.clears => IInv

LEMMA Invariance == Spec => []SafeStore
<1>1. Init => SafeStore
  BY InitIInv DEF SafeStore
<1>2. SafeStore /\ [Next]_vars => SafeStore'
  <2>1. [Next]_vars => UNCHANGED store
    BY DEF Next, Step, vars, Look, Clear, Create, Write, Relook, Rename, Die, KeepRest,
       List, Read, WriteBack, PowerLoss
  <2> QED
    BY <2>1, NextKeepsIInv DEF SafeStore
<1> QED
  BY <1>1, <1>2, PTL DEF Spec

-----------------------------------------------------------------------------
(* The theorems *)

\* In every store but the configuration's no file is ever cut short, on the file system
\* or on the disk, whether or not there is a second look.
THEOREM RecordsAreWhole == Spec => []VisibleIsWhole
<1>1. SafeStore => VisibleIsWhole
  BY DEF SafeStore, IInv, VisibleIsWhole
<1> QED
  BY <1>1, Invariance, PTL

\* A reported record stays under its name until the machine loses power.
THEOREM ReportedRecordsAreKept == Spec => []ReportedIsKept
<1>1. SafeStore => ReportedIsKept
  BY DEF SafeStore, IInv, ReportedIsKept, Exclusive
<1> QED
  BY <1>1, Invariance, PTL

\* Who reads a history finds all that was reported before, and nothing damaged.
THEOREM HistoriesAreComplete == Spec => []HistoryIsComplete
<1>1. SafeStore => HistoryIsComplete
  BY DEF SafeStore, IInv, TypeOK, Readers, HistoryIsComplete, ReaderOwes, Exclusive
<1> QED
  BY <1>1, Invariance, PTL

\* No writer replaces another's record, whichever names they share.
THEOREM RecordsAreNeverReplaced == Spec => NeverReplaced
<1>1. SafeStore /\ [Next]_vars => [Exclusive => RecordsStay]_vars
  <2> SUFFICES ASSUME SafeStore, Next, Exclusive, NEW n \in Name, record[n] # Nothing
               PROVE  record'[n] \in {record[n], Nothing}
    BY DEF vars, RecordsStay
  <2>i. IInv
    BY DEF SafeStore, Exclusive
  <2>1. ASSUME NEW w \in Writer, Rename(w) PROVE record'[n] \in {record[n], Nothing}
    <3>1. record[NameOf(w)] = Nothing
      BY <2>1, <2>i DEF Rename, IInv, NameFree
    <3> QED
      BY <2>1, <2>i, <3>1 DEF Rename, IInv, TypeOK
  <2>2. ASSUME NEW w \in Writer, Write(w) PROVE record'[n] \in {record[n], Nothing}
    <3>1. record[n] # Half(w)
      BY <2>i DEF IInv, VisibleIsWhole, Half
    <3> QED
      BY <2>2, <3>1 DEF Write, Completed
  <2>3. CASE \E w \in Writer : Look(w) \/ Clear(w) \/ Create(w) \/ Relook(w) \/ Die(w)
    BY <2>3 DEF Look, Clear, Create, Relook, Die
  <2>4. CASE WriteBack \/ List \/ \E m \in Name : Read(m)
    BY <2>4 DEF WriteBack, List, Read
  <2>5. CASE PowerLoss
    BY <2>5, <2>i DEF PowerLoss, IInv, DiskLags
  <2> QED
    BY <2>1, <2>2, <2>3, <2>4, <2>5 DEF Next, Step
<1> QED
  BY <1>1, Invariance, PTL DEF Spec, NeverReplaced
=============================================================================
