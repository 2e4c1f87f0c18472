---------------------------- MODULE RestartProofs ----------------------------
(***************************************************************************)
(* Proofs about RestartRing for every number of slots, every set of mesh   *)
(* suffixes and every bound: its type invariant, the order of the slots,   *)
(* that the newest complete save stays loadable, and the refinement of     *)
(* CheckpointStore.  Then about RestartRanks for every number of ranks and *)
(* of time steps: types, and that slot 0 is coherent if all ranks compare  *)
(* the same time.                                                          *)
(***************************************************************************)
EXTENDS RestartRing, RestartRanks, TLAPS

USE SaveAssumption, SuffixAssumption, ContentAssumption, BoundsAssumption,
    NoSuffixAssumption

LEMMA SlotFacts ==
  /\ LastSlot \in Nat
  /\ Slots = 0 .. LastSlot
  /\ Save >= 2 => LastSlot = Save - 1
  /\ Save < 2 => LastSlot = 0
BY DEF LastSlot, Slots

(* Every variable keeps its type, and the loop of prepare_save() never     *)
(* leaves the ring.                                                        *)
THEOREM TypeCorrect == Spec => []TypeOK
<1> USE SlotFacts DEF TypeOK, Files, Content, Saving
<1>1. Init => TypeOK
  BY DEF Init, Fresh, suffices
<1>2. TypeOK /\ [Next]_vars => TypeOK'
  <2> SUFFICES ASSUME TypeOK, [Next]_vars PROVE TypeOK'
    OBVIOUS
  <2>1. CASE BeginSave
    BY <2>1 DEF BeginSave
  <2>2. ASSUME NEW s \in suffices, BeginCopy(s) PROVE TypeOK'
    BY <2>2 DEF BeginCopy, NextToCopy, Truncate
  <2>3. CASE EndCopy
    BY <2>3 DEF EndCopy, Complete
  <2>4. ASSUME NEW s \in suffices, SkipCopy(s) PROVE TypeOK'
    BY <2>4 DEF SkipCopy
  <2>5. CASE NextSlot
    BY <2>5 DEF NextSlot
  <2>6. ASSUME NEW s \in suffices, BeginWrite(s) PROVE TypeOK'
    BY <2>6 DEF BeginWrite, NextToWrite, Truncate
  <2>7. CASE EndWrite
    BY <2>7 DEF EndWrite, Complete
  <2>9. CASE Crash
    BY <2>9 DEF Crash, Fresh
  <2>10. CASE StartFresh
    BY <2>10 DEF StartFresh
  <2>11. ASSUME NEW i \in Slots, StartLoad(i) PROVE TypeOK'
    <3>1. PICK s \in TriaSuffix :
            state' = [time |-> files[i][Problem], fields |-> files[i][s]]
      BY <2>11 DEF StartLoad
    <3>2. files[i][Problem] \in Nat /\ files[i][s] \in Nat
      BY <2>11 DEF StartLoad, Readable, suffices
    <3>3. state' \in [time : Nat, fields : Nat]
      BY <3>1, <3>2
    <3>4. QED
      BY <2>11, <3>3 DEF StartLoad
  <2>12. CASE UNCHANGED vars
    BY <2>12 DEF vars
  <2>13. QED
    BY <2>1, <2>2, <2>3, <2>4, <2>5, <2>6, <2>7, <2>9, <2>10, <2>11,
       <2>12 DEF Next
<1>3. QED
  BY <1>1, <1>2, PTL DEF Spec

-----------------------------------------------------------------------------
(* Where save n is.  a is the slot that held it before the save under way, *)
(* if any; a slot past the ring says it may be gone.  prepare_save() moves *)
(* it from a to a + 1 before it overwrites slot a.                         *)
KeptIn(i, n) == i \in Slots => Holds(files, i, n)

KeptAt(a, n) ==
  /\ phase \in {"run", "down"} => KeptIn(a, n)
  /\ phase = "copy" /\ slot >= a => KeptIn(a, n)
  /\ phase = "copy" /\ slot = a =>
       \A s \in suffices \ todo : files[a + 1][s] = n
  /\ phase = "copy" /\ slot < a => KeptIn(a + 1, n)
  /\ phase = "write" => KeptIn(a + 1, n)

(* Saves cut short since the newest complete one.                          *)
Cut == IF Saving THEN Spoilt - 1 ELSE Spoilt

Survives == last > 0 => \E a \in 0 .. Cut : KeptAt(a, last)

(* What save() has already written to slot 0.                              *)
Written ==
  phase = "write" => \A s \in suffices \ todo : files[0][s] = saves

IInv == TypeOK /\ Survives /\ Written

(* A step that neither completes a save nor kills the process.             *)
Goes == ~(EndWrite /\ todo = {open}) /\ ~Crash

LEMMA InitIInv == Init => IInv
<1>1. Init => TypeOK
  BY SlotFacts DEF Init, Fresh, TypeOK, Files, Content, Saving, suffices
<1>2. QED
  BY <1>1 DEF Init, IInv, Survives, Written

LEMMA WrittenStep == TypeOK /\ Written /\ [Next]_vars => Written'
<1> SUFFICES ASSUME TypeOK, Written, [Next]_vars PROVE Written'
  OBVIOUS
<1> USE SlotFacts DEF TypeOK, Files, Written
<1>1. CASE BeginSave
  BY <1>1 DEF BeginSave
<1>2. ASSUME NEW s \in suffices, BeginCopy(s) PROVE Written'
  BY <1>2 DEF BeginCopy
<1>3. CASE EndCopy
  BY <1>3 DEF EndCopy
<1>4. ASSUME NEW s \in suffices, SkipCopy(s) PROVE Written'
  BY <1>4 DEF SkipCopy
<1>5. CASE NextSlot
  BY <1>5 DEF NextSlot
<1>6. ASSUME NEW s \in suffices, BeginWrite(s) PROVE Written'
  BY <1>6 DEF BeginWrite, NextToWrite, Truncate
<1>7. CASE EndWrite
  BY <1>7 DEF EndWrite, Complete
<1>9. CASE Crash
  BY <1>9 DEF Crash
<1>10. CASE StartFresh
  BY <1>10 DEF StartFresh
<1>11. ASSUME NEW i \in Slots, StartLoad(i) PROVE Written'
  BY <1>11 DEF StartLoad
<1>12. CASE UNCHANGED vars
  BY <1>12 DEF vars
<1>13. QED
  BY <1>1, <1>2, <1>3, <1>4, <1>5, <1>6, <1>7, <1>9, <1>10, <1>11,
     <1>12 DEF Next

LEMMA KeptStep ==
  ASSUME NEW a \in Nat, NEW n \in Nat, TypeOK, KeptAt(a, n), [Next]_vars, Goes
  PROVE  KeptAt(a, n)'
<1> USE SlotFacts DEF TypeOK, Files
<1>1. CASE BeginSave
  BY <1>1 DEF KeptAt, KeptIn, Holds, BeginSave
<1>2. ASSUME NEW s \in suffices, BeginCopy(s) PROVE KeptAt(a, n)'
  BY <1>2 DEF KeptAt, KeptIn, Holds, BeginCopy, NextToCopy, Truncate
<1>3. CASE EndCopy
  BY <1>3 DEF KeptAt, KeptIn, Holds, EndCopy, Complete
<1>4. ASSUME NEW s \in suffices, SkipCopy(s) PROVE KeptAt(a, n)'
  BY <1>4 DEF KeptAt, KeptIn, Holds, SkipCopy, NextToCopy
<1>5. CASE NextSlot
  BY <1>5 DEF KeptAt, KeptIn, Holds, NextSlot
<1>6. ASSUME NEW s \in suffices, BeginWrite(s) PROVE KeptAt(a, n)'
  BY <1>6 DEF KeptAt, KeptIn, Holds, BeginWrite, NextToWrite, Truncate
<1>7. CASE EndWrite
  BY <1>7 DEF Goes, KeptAt, KeptIn, Holds, EndWrite, Complete
<1>8. CASE StartFresh \/ (\E i \in Slots : StartLoad(i)) \/ UNCHANGED vars
  <2>1. /\ UNCHANGED <<files, slot, todo>>
        /\ phase' = phase \/ (phase = "down" /\ phase' = "run")
    BY <1>8 DEF StartFresh, StartLoad, vars
  <2>2. QED
    BY <2>1 DEF KeptAt, KeptIn, Holds
<1>9. QED
  BY <1>1, <1>2, <1>3, <1>4, <1>5, <1>6, <1>7, <1>8 DEF Goes, Next

(* Neither the newest save nor the count of saves cut short changes.       *)
LEMMA GoesKeeps ==
  TypeOK /\ [Next]_vars /\ Goes =>
    last' = last /\ row' = row /\ Cut' = Cut
<1> SUFFICES ASSUME TypeOK, [Next]_vars, Goes
             PROVE  last' = last /\ row' = row /\ Cut' = Cut
  OBVIOUS
<1>1. last' = last /\ row' = row
  BY DEF Goes, Next, vars, BeginSave, BeginCopy, EndCopy, SkipCopy, NextSlot,
         BeginWrite, EndWrite, StartFresh, StartLoad
<1>2. Cut' = Cut
  BY <1>1 DEF TypeOK, Cut, Saving, Spoilt, Goes, Next, vars, BeginSave, BeginCopy,
     EndCopy, SkipCopy, NextSlot, BeginWrite, EndWrite, StartFresh, StartLoad
<1>3. QED
  BY <1>1, <1>2

LEMMA SurvivesStep == IInv /\ TypeOK' /\ [Next]_vars => Survives'
<1> SUFFICES ASSUME TypeOK, TypeOK', Survives, Written, [Next]_vars, last' > 0
             PROVE  \E a \in 0 .. Cut' : KeptAt(a, last)'
  BY DEF IInv, Survives
<1> USE SlotFacts DEF TypeOK, Files
<1>1. CASE EndWrite /\ todo = {open}
  <2>1. last' = saves /\ phase' = "run" /\ Cut' = 0
    BY <1>1 DEF EndWrite, Cut, Saving, Spoilt
  <2>2. \A s \in suffices : files'[0][s] = saves
    BY <1>1 DEF EndWrite, Complete, Written
  <2>3. KeptAt(0, last)'
    BY <2>1, <2>2 DEF KeptAt, KeptIn, Holds
  <2>4. QED
    BY <2>1, <2>3
<1>2. CASE Goes
  <2>1. last' = last /\ Cut' = Cut
    BY <1>2, GoesKeeps
  <2>2. PICK a \in 0 .. Cut : KeptAt(a, last)
    BY <2>1 DEF Survives
  <2>3. Cut \in Nat /\ a \in Nat /\ last \in Nat
    BY DEF Cut, Spoilt, Saving
  <2>4. PICK n \in Nat : n = last
    BY <2>3
  <2>5. KeptAt(a, n)'
    BY <1>2, <2>2, <2>3, <2>4, KeptStep
  <2>6. KeptAt(a, last)'
    BY <2>1, <2>4, <2>5
  <2>7. QED
    BY <2>1, <2>6
<1>3. CASE Crash
  <2>1. phase' = "down" /\ files' = files /\ saves' = saves /\ last' = last
    BY <1>3 DEF Crash
  <2>2. PICK a \in 0 .. Cut : KeptAt(a, last)
    BY <2>1 DEF Survives
  <2>3. Cut \in Nat /\ a \in Nat /\ last \in Nat
    BY DEF Cut, Spoilt, Saving
  <2>4. CASE phase = "write" \/ (phase = "copy" /\ slot < a)
    <3>1. KeptAt(a + 1, last)'
      BY <2>1, <2>2, <2>3, <2>4 DEF KeptAt, KeptIn, Holds
    <3>2. Cut' = Cut + 1
      BY <2>1, <2>4 DEF Cut, Saving, Spoilt
    <3>3. QED
      BY <2>2, <2>3, <3>1, <3>2
  <2>5. CASE phase = "run" \/ (phase = "copy" /\ slot >= a)
    <3>1. KeptAt(a, last)'
      BY <2>1, <2>2, <2>3, <2>5 DEF KeptAt, KeptIn, Holds
    <3>2. Cut' \in Nat /\ Cut' >= Cut
      BY <2>1, <2>3, <2>5 DEF Cut, Saving, Spoilt
    <3>3. QED
      BY <2>2, <2>3, <3>1, <3>2
  <2>6. QED
    BY <2>3, <1>3, <2>4, <2>5 DEF Crash
<1>4. QED
  BY <1>1, <1>2, <1>3 DEF Goes

LEMMA IInvLoadable == IInv => LastSaveLoadable
<1> SUFFICES ASSUME IInv, last > 0, Spoilt <= LastSlot
             PROVE  \E i \in Slots : Holds(files, i, last)
  BY DEF LastSaveLoadable
<1> USE SlotFacts DEF IInv, TypeOK
<1>1. PICK a \in 0 .. Cut : KeptAt(a, last)
  BY DEF Survives
<1>2. CASE Saving
  <2>1. a + 1 \in Slots /\ a \in Slots
    BY <1>2 DEF Cut, Spoilt
  <2>2. Holds(files, a, last) \/ Holds(files, a + 1, last)
    BY <1>1, <1>2, <2>1 DEF Saving, KeptAt, KeptIn
  <2>3. QED
    BY <2>1, <2>2
<1>3. CASE ~Saving
  <2>1. a \in Slots
    BY <1>3 DEF Cut, Spoilt
  <2>2. Holds(files, a, last)
    BY <1>1, <1>3, <2>1 DEF Saving, KeptAt, KeptIn
  <2>3. QED
    BY <2>1, <2>2
<1>4. QED
  BY <1>2, <1>3

(* For every number of slots: as long as fewer saves were begun since than *)
(* there are slots, some slot holds every file of the newest complete save,*)
(* at every moment of prepare_save() and save() and after every kill.      *)
THEOREM LastSaveSurvives == Spec => []LastSaveLoadable
<1>1. Init => IInv
  BY InitIInv
<1>2. IInv /\ TypeOK' /\ [Next]_vars => IInv'
  BY WrittenStep, SurvivesStep DEF IInv
<1>3. IInv => LastSaveLoadable
  BY IInvLoadable
<1>4. QED
  BY <1>1, <1>2, <1>3, TypeCorrect, PTL DEF Spec

-----------------------------------------------------------------------------
(* The saves in a row lie in the slots in their order, and the save under  *)
(* way, if any, is the next of the row.                                    *)
InOrder ==
  /\ \A a \in Slots : a < row => KeptAt(a, last - a)
  /\ row > 0 => saves = IF Saving THEN last + 1 ELSE last

LEMMA InOrderStep ==
  TypeOK /\ TypeOK' /\ Written /\ InOrder /\ [Next]_vars => InOrder'
<1> SUFFICES ASSUME TypeOK, TypeOK', Written, InOrder, [Next]_vars
             PROVE  InOrder'
  OBVIOUS
<1> USE SlotFacts
<1>0. /\ last \in Nat /\ saves \in Nat /\ row \in Nat /\ row <= last
      /\ Slots \subseteq Nat /\ Slots' = Slots
  BY DEF TypeOK, Slots
<1>1. CASE EndWrite /\ todo = {open}
  <2>1. last' = saves /\ phase' = "run" /\ saves' = saves /\ row' = row + 1
    BY <1>1 DEF EndWrite
  <2>2. row > 0 => saves = last + 1
    BY <1>1 DEF InOrder, EndWrite, Saving
  <2>3. Holds(files', 0, saves)
    BY <1>1 DEF EndWrite, Complete, Written, Holds, TypeOK, Files
  <2>4. ASSUME NEW a \in Slots, a < row', a # 0 PROVE KeptIn(a, last - a)'
    <3>1. a - 1 \in Slots /\ a - 1 < row /\ row > 0
      BY <1>0, <2>1, <2>4
    <3>2. Holds(files, a, last - (a - 1))
      BY <1>1, <3>1 DEF InOrder, KeptAt, KeptIn, EndWrite
    <3>3. last - (a - 1) = last' - a
      BY <1>0, <2>1, <2>2, <3>1
    <3>4. Holds(files', a, last' - a)
      BY <1>1, <2>4, <3>2, <3>3 DEF Holds, EndWrite, Complete, TypeOK, Files
    <3>5. QED
      BY <3>4 DEF KeptIn, Holds
  <2>5. KeptIn(0, last - 0)'
    BY <1>0, <2>1, <2>3 DEF KeptIn, Holds
  <2>6. \A a \in Slots : a < row' => KeptAt(a, last - a)'
    BY <1>0, <2>1, <2>4, <2>5 DEF KeptAt
  <2>7. row' > 0 => saves' = IF Saving' THEN last' + 1 ELSE last'
    BY <2>1 DEF Saving
  <2>8. QED
    BY <1>0, <2>6, <2>7 DEF InOrder
<1>2. CASE Goes
  <2>1. last' = last /\ row' = row /\ Cut' = Cut
    BY <1>2, GoesKeeps
  <2>2. ASSUME NEW a \in Slots, a < row PROVE KeptAt(a, last - a)'
    <3>1. last - a \in Nat /\ a \in Nat
      BY <1>0, <2>2
    <3>2. PICK n \in Nat : n = last - a
      BY <3>1
    <3>3. KeptAt(a, n)'
      BY <1>2, <2>2, <3>1, <3>2, KeptStep DEF InOrder
    <3>4. QED
      BY <2>1, <3>2, <3>3
  <2>3. row > 0 => saves' = IF Saving' THEN last + 1 ELSE last
    BY <1>0, <1>2 DEF InOrder, Saving, Goes, TypeOK, Next, vars, BeginSave, BeginCopy,
       EndCopy, SkipCopy, NextSlot, BeginWrite, EndWrite, StartFresh, StartLoad
  <2>4. QED
    BY <1>0, <2>1, <2>2, <2>3 DEF InOrder
<1>3. CASE Crash
  <2>1. phase' = "down" /\ files' = files /\ last' = last /\ saves' = saves
    BY <1>3 DEF Crash
  <2>2. CASE Saving
    BY <1>0, <1>3, <2>2 DEF Crash, InOrder
  <2>3. CASE ~Saving
    <3>1. row' = row /\ phase = "run"
      BY <1>3, <2>3 DEF Crash, Saving, TypeOK
    <3>2. \A a \in Slots : a < row => KeptAt(a, last - a)'
      BY <2>1, <3>1 DEF InOrder, KeptAt, KeptIn, Holds
    <3>3. QED
      BY <1>0, <2>1, <2>3, <3>1, <3>2 DEF InOrder, Saving
  <2>4. QED
    BY <2>2, <2>3
<1>4. QED
  BY <1>1, <1>2, <1>3 DEF Goes

(* For every number of slots: between saves the slots hold the saves in    *)
(* their order, as far back as none was cut short.                         *)
THEOREM SlotsInOrder == Spec => []HistoryKept
<1>1. Init => IInv /\ InOrder
  BY InitIInv DEF Init, InOrder, Slots, Saving
<1>2. IInv /\ InOrder /\ TypeOK' /\ [Next]_vars => (IInv /\ InOrder)'
  BY WrittenStep, SurvivesStep, InOrderStep DEF IInv
<1>3. IInv /\ InOrder => HistoryKept
  BY DEF IInv, TypeOK, InOrder, KeptAt, KeptIn, HistoryKept, Saving
<1>4. QED
  BY <1>1, <1>2, <1>3, TypeCorrect, PTL DEF Spec

-----------------------------------------------------------------------------
(* The bytes of a save that has not come to its end are missing for some   *)
(* suffix in every slot, so that no sequence of copies makes up a slot     *)
(* that looks like a complete save.                                        *)
Absent(n, s) == \A i \in Slots : files[i][s] # n

Unfinished ==
  /\ \A n \in Nat : n > saves => \A s \in suffices : Absent(n, s)
  /\ \A n \in last + 1 .. saves : \E s \in suffices : Absent(n, s)
  /\ phase = "copy" => \A s \in suffices : Absent(saves, s)
  /\ phase = "write" => todo # {} /\ \A s \in todo : Absent(saves, s)

(* What Crash's guard makes of the bound MaxCut.                           *)
CutBound == Spoilt <= (IF Saving THEN MaxCut + 1 ELSE MaxCut)

SInv == IInv /\ Unfinished /\ CutBound

LEMMA CutBoundStep == TypeOK /\ CutBound /\ [Next]_vars => CutBound'
BY DEF TypeOK, CutBound, Spoilt, Saving, Next, vars, BeginSave, BeginCopy,
       EndCopy, SkipCopy, NextSlot, BeginWrite, EndWrite, Crash, StartFresh,
       StartLoad

LEMMA UnfinishedStep ==
  TypeOK /\ TypeOK' /\ Unfinished /\ [Next]_vars => Unfinished'
<1> SUFFICES ASSUME TypeOK, TypeOK', Unfinished, [Next]_vars PROVE Unfinished'
  OBVIOUS
<1> USE SlotFacts DEF TypeOK, Unfinished
<1>0. saves \in Nat /\ last \in Nat
  OBVIOUS
<1>1. CASE BeginSave
  <2>1. Problem \in suffices /\ suffices # {}
    BY DEF suffices
  <2>2. QED
    BY <1>1, <2>1 DEF BeginSave, Absent
<1>2. ASSUME NEW s \in suffices, BeginCopy(s) PROVE Unfinished'
  <2>1. \A n \in Nat, t \in suffices : Absent(n, t) => Absent(n, t)'
    BY <1>2 DEF BeginCopy, Truncate, Files, Absent
  <2>2. QED
    BY <1>0, <1>2, <2>1 DEF BeginCopy
<1>3. CASE EndCopy
  <2>1. \A n \in Nat, s \in suffices : Absent(n, s) => Absent(n, s)'
    BY <1>3 DEF EndCopy, Complete, Files, Absent
  <2>2. QED
    BY <1>0, <1>3, <2>1 DEF EndCopy
<1>4. ASSUME NEW s \in suffices, SkipCopy(s) PROVE Unfinished'
  BY <1>4 DEF SkipCopy, Absent
<1>5. CASE NextSlot
  BY <1>5 DEF NextSlot, suffices, Absent
<1>6. ASSUME NEW s \in suffices, BeginWrite(s) PROVE Unfinished'
  <2>1. \A n \in Nat, t \in suffices : Absent(n, t) => Absent(n, t)'
    BY <1>6 DEF BeginWrite, Truncate, Files, Absent
  <2>2. QED
    BY <1>0, <1>6, <2>1 DEF BeginWrite
<1>7. CASE EndWrite
  <2>1. \A n \in Nat, s \in suffices :
          Absent(n, s) /\ (n = saves => s # open) => Absent(n, s)'
    BY <1>7 DEF EndWrite, Complete, Files, Absent
  <2>2. CASE todo = {open}
    BY <1>0, <1>7, <2>1, <2>2 DEF EndWrite
  <2>3. CASE todo # {open}
    <3>1. phase' = "write" /\ last' = last /\ saves' = saves
      BY <1>7, <2>3 DEF EndWrite
    <3>2. todo' # {} /\ todo' = todo \ {open}
      BY <1>7, <2>3 DEF EndWrite, Complete
    <3>3. \A s \in todo' : Absent(saves, s)'
      BY <1>0, <1>7, <2>1, <3>2 DEF EndWrite
    <3>4. \A n \in last + 1 .. saves : \E s \in suffices : Absent(n, s)'
      <4>1. ASSUME NEW n \in last + 1 .. saves, n # saves
            PROVE  \E s \in suffices : Absent(n, s)'
        BY <1>0, <2>1, <4>1
      <4>2. \E s \in suffices : Absent(saves, s)'
        BY <3>2, <3>3
      <4>3. QED
        BY <3>1, <4>1, <4>2 DEF Absent
    <3>5. \A n \in Nat : n > saves => \A s \in suffices : Absent(n, s)'
      BY <1>0, <2>1
    <3>6. QED
      BY <3>1, <3>2, <3>3, <3>4, <3>5
  <2>4. QED
    BY <2>2, <2>3
<1>8. CASE Crash
  BY <1>8 DEF Crash, Absent
<1>9. CASE StartFresh
  BY <1>9 DEF StartFresh, Absent
<1>10. ASSUME NEW i \in Slots, StartLoad(i) PROVE Unfinished'
  BY <1>10 DEF StartLoad, Absent
<1>11. CASE UNCHANGED vars
  BY <1>11 DEF vars, Absent
<1>12. QED
  BY <1>1, <1>2, <1>3, <1>4, <1>5, <1>6, <1>7, <1>8, <1>9, <1>10, <1>11
     DEF Next

LEMMA InitSInv == Init => SInv
<1> SUFFICES ASSUME Init PROVE SInv
  OBVIOUS
<1>1. Unfinished
  BY DEF Init, Unfinished, Absent
<1>2. CutBound
  BY DEF Init, CutBound, Spoilt, Saving
<1>3. QED
  BY <1>1, <1>2, InitIInv DEF SInv

LEMMA StepSInv == SInv /\ TypeOK' /\ [Next]_vars => SInv'
BY WrittenStep, SurvivesStep, UnfinishedStep, CutBoundStep DEF SInv, IInv

LEMMA SInvKeeps ==
  ASSUME MaxCut + 1 <= LastSlot, SInv
  PROVE  Store!Keeps(last, LoadableSaves)
<1> USE SlotFacts DEF SInv, IInv, TypeOK
<1>1. Spoilt <= LastSlot
  BY DEF CutBound, Spoilt
<1>2. last > 0 => last \in LoadableSaves
  BY <1>1, IInvLoadable DEF LastSaveLoadable, LoadableSaves
<1>3. \A n \in LoadableSaves : n \in 1 .. last
  BY DEF LoadableSaves, Unfinished, Absent, Holds
<1>4. QED
  BY <1>2, <1>3 DEF Store!Keeps

(* A ring with more than MaxCut + 1 slots implements the store: a save     *)
(* becomes loadable in one step, and the newest one stays so.              *)
THEOREM RingImplementsStore ==
  ASSUME MaxCut + 1 <= LastSlot
  PROVE  Spec => ImplementsStore
<1>1. Init => Store!Init
  BY DEF Init, Store!Init, LoadableSaves
<1>2. SInv => Store!Keeps(last, LoadableSaves)
  BY SInvKeeps
<1>3. SInv /\ Store!Keeps(last, LoadableSaves)' /\ [Next]_vars => Store!Next
  <2> SUFFICES ASSUME SInv, Store!Keeps(last, LoadableSaves)', [Next]_vars
               PROVE  Store!Next
    OBVIOUS
  <2>1. Store!Keeps(last', LoadableSaves')
    BY DEF Store!Keeps
  <2>2. last' = last \/ (last' = saves /\ saves > last)
    BY DEF SInv, IInv, TypeOK, Saving, Next, vars, BeginSave, BeginCopy, EndCopy,
           SkipCopy, NextSlot, BeginWrite, EndWrite, Crash, StartFresh, StartLoad
  <2>3. saves \in Nat /\ last \in Nat
    BY DEF SInv, IInv, TypeOK
  <2>4. QED
    BY <2>1, <2>2, <2>3 DEF Store!Next, Store!Commit, Store!Rearrange
<1>4. QED
  BY <1>1, <1>2, <1>3, InitSInv, StepSInv, TypeCorrect, PTL DEF Spec, ImplementsStore, Store!Spec

-----------------------------------------------------------------------------
(* The save sequence on several ranks: RestartRanks.                       *)

LEMMA RanksConstants ==
  /\ Root \in Ranks /\ MaxSteps \in Nat
  /\ Missing \notin Nat /\ Partial \notin Nat /\ Missing # Partial
BY RanksAssumption

LEMMA RanksContents ==
  /\ Missing \in RanksContent /\ Partial \in RanksContent
  /\ 0 \in SlotPair /\ 1 \in SlotPair
  /\ "tria" \in Suffices /\ "problem" \in Suffices
BY DEF RanksContent, SlotPair, Suffices

LEMMA RanksTypeInit == RanksInit => RanksTypeOK
<1>1. RanksInit => step \in 0 .. MaxSteps
  BY RanksConstants DEF RanksInit
<1>2. QED
  BY <1>1, RanksContents DEF RanksInit, RanksTypeOK, Places

(* Files hold the data of a step or are missing or torn, and only rank 0   *)
(* is ever inside prepare_save().                                          *)
THEOREM RanksTypeCorrect == RanksSpec => []RanksTypeOK
<1>1. RanksInit => RanksTypeOK
  BY RanksTypeInit
<1>2. RanksTypeOK /\ [RanksNext]_ranksVars => RanksTypeOK'
  <2> SUFFICES ASSUME RanksTypeOK, [RanksNext]_ranksVars PROVE RanksTypeOK'
    OBVIOUS
  <2>1. /\ step \in RanksContent /\ pc \in [Ranks -> Places]
        /\ ring \in [SlotPair -> [Suffices -> RanksContent]]
    BY DEF RanksTypeOK, RanksContent
  <2>2. CASE TimeStep
    <3>1. step < MaxSteps /\ step' = step + 1 /\ step \in 0 .. MaxSteps
      BY <2>2 DEF TimeStep, RanksTypeOK
    <3>2. step' \in 0 .. MaxSteps
      BY <3>1, RanksConstants
    <3>3. ring' = ring /\ pc' = [r \in Ranks |-> "ask"]
      BY <2>2 DEF TimeStep
    <3>4. QED
      BY <2>1, <3>2, <3>3 DEF RanksTypeOK, Places
  <2>3. ASSUME NEW r \in Ranks, DoSave(r) PROVE RanksTypeOK'
    BY <2>1, <2>3 DEF DoSave, AfterAsk, Go, RanksTypeOK, Places
  <2>4. CASE CopyTria \/ CopyProblem
    <3>1. PICK s \in Suffices : ring' = Copied(s)
      BY <2>4, RanksContents DEF CopyTria, CopyProblem
    <3>2. CASE ring' = [ring EXCEPT ![1] = [ring[1] EXCEPT ![s] = ring[0][s]]]
      <4>1. ring[0][s] \in RanksContent /\ ring[1] \in [Suffices -> RanksContent]
        BY <2>1, RanksContents
      <4>2. [ring[1] EXCEPT ![s] = ring[0][s]] \in [Suffices -> RanksContent]
        BY <4>1
      <4>3. ring' \in [SlotPair -> [Suffices -> RanksContent]]
        BY <2>1, <3>2, <4>2, RanksContents
      <4>4. QED
        BY <2>1, <2>4, <4>3, RanksConstants DEF CopyTria, CopyProblem, Go, RanksTypeOK, Places
    <3>3. CASE ring' = ring
      BY <2>1, <2>4, <3>3, RanksConstants DEF CopyTria, CopyProblem, Go, RanksTypeOK, Places
    <3>4. QED
      BY <3>1, <3>2, <3>3 DEF Copied
  <2>5. ASSUME NEW r \in Ranks, OpenArchive(r) \/ WriteArchive(r) PROVE RanksTypeOK'
    <3>1. PICK c \in RanksContent : ring' = [ring EXCEPT ![0].problem = c]
      BY <2>1, <2>5, RanksContents DEF OpenArchive, WriteArchive
    <3>2. [ring[0] EXCEPT !.problem = c] \in [Suffices -> RanksContent]
      BY <2>1, RanksContents
    <3>3. ring' = [ring EXCEPT ![0] = [ring[0] EXCEPT !.problem = c]]
      BY <3>1
    <3>4. ring' \in [SlotPair -> [Suffices -> RanksContent]]
      BY <2>1, <3>2, <3>3, RanksContents
    <3>5. QED
      BY <2>1, <2>5, <3>4 DEF OpenArchive, WriteArchive, Go, RanksTypeOK, Places
  <2>6. CASE SaveTria
    <3>1. ring' \in [SlotPair -> [Suffices -> RanksContent]]
      BY <2>1, <2>6, RanksContents DEF SaveTria
    <3>2. QED
      BY <2>1, <2>6, <3>1 DEF SaveTria, RanksTypeOK, Places
  <2>7. CASE UNCHANGED ranksVars
    BY <2>7 DEF ranksVars, RanksTypeOK
  <2>8. QED
    BY <2>2, <2>3, <2>4, <2>5, <2>6, <2>7 DEF RanksNext
<1>3. QED
  BY <1>1, <1>2, PTL DEF RanksSpec

-----------------------------------------------------------------------------
(* On simulation time all ranks give one answer, so none is out of save()  *)
(* while another is inside.                                                *)
OneAnswer == \A r, q \in Ranks : pc[r] = "step" => pc[q] \in {"step", "ask"}

(* Slot 0 is whole until the first rank opens the archive.                 *)
Untouched == \A r \in Ranks : pc[r] \in Places \ {"write", "tria"}

WholeBefore == Untouched => ring[0].tria = ring[0].problem /\ ring[0].tria # Partial

(* A rank that has written the archive leaves it whole, unless another     *)
(* rank has opened it since and is still writing.                          *)
WrittenByAll ==
  (\E r \in Ranks : pc[r] = "tria") =>
    ring[0].problem = step \/ \E q \in Ranks : pc[q] = "write"

RanksAgreed == RanksTypeOK /\ OneAnswer /\ WholeBefore /\ WrittenByAll

LEMMA RanksAgreedStep ==
  ~RealClock /\ RanksAgreed /\ [RanksNext]_ranksVars /\ RanksTypeOK' => RanksAgreed'
<1> SUFFICES ASSUME ~RealClock, RanksAgreed, [RanksNext]_ranksVars, RanksTypeOK' PROVE RanksAgreed'
  OBVIOUS
<1> USE DEF RanksAgreed, OneAnswer, WholeBefore, WrittenByAll, Untouched
<1>1. pc \in [Ranks -> Places] /\ ring \in [SlotPair -> [Suffices -> RanksContent]] /\ step # Partial
  <2>1. step \in 0 .. MaxSteps
    BY DEF RanksTypeOK
  <2>2. step \in Nat
    BY <2>1, RanksConstants
  <2>3. QED
    BY <2>2, RanksConstants DEF RanksTypeOK
<1>2. CASE TimeStep
  BY <1>1, <1>2 DEF TimeStep, Places
<1>3. ASSUME NEW r \in Ranks, DoSave(r) PROVE RanksAgreed'
  <2>1. PICK save \in BOOLEAN :
          SameAnswer(save) /\ Go(r, "ask", IF save THEN AfterAsk(r) ELSE "step")
    BY <1>3 DEF DoSave
  <2>2. UNCHANGED <<step, ring>>
    BY <1>3 DEF DoSave
  <2>3. CASE save
    BY <1>1, <2>1, <2>2, <2>3 DEF SameAnswer, Go, AfterAsk, Places
  <2>4. CASE ~save
    BY <1>1, <2>1, <2>2, <2>4 DEF SameAnswer, Go, Places
  <2>5. QED
    BY <2>3, <2>4
<1>4. CASE CopyTria \/ CopyProblem
  <2>1. ring'[0] = ring[0] /\ step' = step
    <3>1. PICK s \in Suffices : ring' = Copied(s) /\ step' = step
      BY <1>4, RanksContents DEF CopyTria, CopyProblem
    <3>2. \/ ring' = ring
          \/ ring' = [ring EXCEPT ![1] = [ring[1] EXCEPT ![s] = ring[0][s]]]
      BY <3>1 DEF Copied
    <3>3. QED
      BY <1>1, <3>1, <3>2, RanksContents
  <2>2. \E from \in {"copy tria", "copy problem"} : \E to \in {"copy problem", "open"} :
          Go(Root, from, to)
    BY <1>4 DEF CopyTria, CopyProblem
  <2>3. QED
    BY <1>1, <2>1, <2>2 DEF Go, Places
<1>5. ASSUME NEW r \in Ranks, OpenArchive(r) PROVE RanksAgreed'
  BY <1>1, <1>5 DEF OpenArchive, Go, Places
<1>6. ASSUME NEW r \in Ranks, WriteArchive(r) PROVE RanksAgreed'
  BY <1>1, <1>6 DEF WriteArchive, Go, Places, SlotPair, Suffices
<1>7. CASE SaveTria
  <2>1. ring[0].problem = step
    BY <1>7, RanksConstants DEF SaveTria
  <2>2. ring'[0].tria = step /\ ring'[0].problem = step /\ step' = step /\ step # Partial
    BY <1>1, <1>7, <2>1 DEF SaveTria, SlotPair, Suffices
  <2>3. QED
    BY <1>7, <2>2 DEF SaveTria, Places
<1>8. CASE UNCHANGED ranksVars
  BY <1>8 DEF ranksVars
<1>9. QED
  BY <1>2, <1>3, <1>4, <1>5, <1>6, <1>7, <1>8 DEF RanksNext

(* Whenever a rank is out of save(), the archive all ranks wrote over each *)
(* other and the mesh beside it are whole and of one step, if "time type"  *)
(* is simulation: each rank's monitor then compares the same numbers.      *)
THEOREM SlotZeroStaysCoherent == ASSUME ~RealClock PROVE RanksSpec => []SlotZeroCoherent
<1>1. RanksInit => RanksAgreed
  <2> SUFFICES ASSUME RanksInit PROVE RanksAgreed
    OBVIOUS
  <2>1. RanksTypeOK
    BY RanksTypeInit
  <2>2. QED
    BY <2>1, RanksConstants
       DEF RanksInit, RanksAgreed, OneAnswer, WholeBefore, WrittenByAll, SlotPair, Suffices
<1>2. RanksAgreed /\ [RanksNext]_ranksVars /\ RanksTypeOK' => RanksAgreed'
  BY RanksAgreedStep
<1>3. RanksAgreed => SlotZeroCoherent
  BY DEF RanksAgreed, RanksTypeOK, OneAnswer, WholeBefore, Untouched, SlotZeroCoherent, Places
<1>4. QED
  BY <1>1, <1>2, <1>3, RanksTypeCorrect, PTL DEF RanksSpec
=============================================================================
