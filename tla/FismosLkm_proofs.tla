--------------------------- MODULE FismosLkm_proofs ---------------------------
(***************************************************************************)
(* Proofs about FismosLkm: types, the text of a write, and the value of a  *)
(* read as long as only one of the device files is in use.                 *)
(***************************************************************************)
EXTENDS FismosLkm, TLAPS

Labels == {"idle", "physical", "virtual", "virtual again", "lock", "access", "parse",
           "unlock", "return"}

\* The tables of files, registers and mutexes.
LEMMA Tables ==
    /\ \A f \in Files : Source[f] \in Registers /\ ReadMutex[f] \in Mutexes
    /\ \A f \in DOMAIN Target : Target[f] \in Registers /\ WriteMutex[f] \in Mutexes
<1>1. ASSUME NEW f \in Files PROVE Source[f] \in Registers /\ ReadMutex[f] \in Mutexes
  <2>1. CASE f = "instruction_register"
    BY <2>1 DEF Source, ReadMutex, Registers, Mutexes
  <2>2. CASE f = "status_register"
    BY <2>2 DEF Source, ReadMutex, Registers, Mutexes
  <2>3. CASE f = "data_buffer"
    BY <2>3 DEF Source, ReadMutex, Registers, Mutexes
  <2> QED BY <2>1, <2>2, <2>3, FilesAssumption
<1>2. DOMAIN Target = {"instruction_register", "data_buffer"}
  BY DEF Target
<1>3. ASSUME NEW f \in DOMAIN Target PROVE Target[f] \in Registers /\ WriteMutex[f] \in Mutexes
  <2>1. CASE f = "instruction_register"
    BY <2>1 DEF Target, WriteMutex, Registers, Mutexes
  <2>2. CASE f = "data_buffer"
    BY <2>2 DEF Target, WriteMutex, Registers, Mutexes
  <2> QED BY <1>2, <1>3, <2>1, <2>2
<1> QED BY <1>1, <1>3

-----------------------------------------------------------------------------
(* Types                                                                   *)

\* The functions TypeOK leaves open, and that what is written is a text, and
\* is written to a file that has a register for it.
TypeInv ==
    /\ TypeOK
    /\ register \in [Registers -> UNION {Content(r) : r \in Registers}]
    /\ writing \in [Processes -> BOOLEAN]
    /\ DOMAIN value = Processes /\ DOMAIN seen = Processes
    /\ \A p \in Processes : writing[p] => file[p] \in DOMAIN Target /\ value[p] \in Texts

LEMMA MutexType ==
    ASSUME TypeInv, NEW p \in Processes
    PROVE  Mutex(p) \in Mutexes /\ Accessed(p) \in Registers
<1>1. file[p] \in Files /\ writing[p] \in BOOLEAN
  BY DEF TypeInv, TypeOK
<1>2. CASE writing[p]
  BY <1>1, <1>2, Tables DEF TypeInv, Mutex, Accessed
<1>3. CASE ~writing[p]
  BY <1>1, <1>3, Tables DEF TypeInv, Mutex, Accessed
<1> QED BY <1>1, <1>2, <1>3

\* A call goes on to another label.
LEMMA GotoType ==
    ASSUME TypeInv, NEW p \in Processes, NEW label \in Labels, Goto(p, label)
    PROVE  pc' \in [Processes -> Labels] /\ pc'[p] = label
           /\ \A q \in Processes \ {p} : pc'[q] = pc[q]
  BY DEF TypeInv, TypeOK, Labels, Goto

LEMMA OverwrittenType ==
    ASSUME NEW array \in [1 .. Parsed -> Characters], NEW text \in Texts
    PROVE  /\ Overwritten(array, text) \in [1 .. Parsed -> Characters]
           /\ \A k \in 1 .. Parsed :
                k <= Len(text) => Overwritten(array, text)[k] = text[k]
<1>1. text \in Seq(Characters)
  BY TextsAssumption
<1>2. \A k \in 1 .. Parsed : k <= Len(text) => text[k] \in Characters
  BY <1>1, TextsAssumption
<1> QED BY <1>2 DEF Overwritten

LEMMA TypeInit == Init => TypeInv
<1> SUFFICES ASSUME Init PROVE TypeInv
  OBVIOUS
<1>1. TypeOK
  <2>1. [k \in 1 .. Parsed |-> "0"] \in [1 .. Parsed -> Characters]
    BY TextsAssumption
  <2>2. input_to_LKM \in [DOMAIN Target -> [1 .. Parsed -> Characters]]
    BY <2>1 DEF Init
  <2> QED BY <2>2 DEF Init, TypeOK
<1> QED BY <1>1 DEF Init, TypeInv

LEMMA TypeNext ==
    ASSUME TypeInv, [Next]_vars
    PROVE  TypeInv'
<1> DEFINE Addresses == {Source[f] : f \in Files} \union {None}
<1> DEFINE Arrays == [DOMAIN Target -> [1 .. Parsed -> Characters]]
<1>0. /\ physical_addr_status_register \in Addresses /\ virtual_addr_status_register \in Addresses
      /\ owner \in [Mutexes -> Processes \union {None}]
      /\ register \in [Registers -> UNION {Content(r) : r \in Registers}]
      /\ \A r \in Registers : register[r] \in Content(r)
      /\ pc \in [Processes -> Labels]
      /\ file \in [Processes -> Files]
      /\ writing \in [Processes -> BOOLEAN]
      /\ DOMAIN value = Processes /\ DOMAIN seen = Processes
      /\ input_to_LKM \in Arrays
      /\ \A p \in Processes : writing[p] => file[p] \in DOMAIN Target /\ value[p] \in Texts
  BY DEF TypeInv, TypeOK, Labels
<1> DEFINE T ==
      /\ physical_addr_status_register' \in Addresses /\ virtual_addr_status_register' \in Addresses
      /\ owner' \in [Mutexes -> Processes \union {None}]
      /\ register' \in [Registers -> UNION {Content(r) : r \in Registers}]
      /\ \A r \in Registers : register'[r] \in Content(r)
      /\ pc' \in [Processes -> Labels]
      /\ file' \in [Processes -> Files]
      /\ writing' \in [Processes -> BOOLEAN]
      /\ DOMAIN value' = Processes /\ DOMAIN seen' = Processes
      /\ input_to_LKM' \in Arrays
      /\ \A p \in Processes : writing'[p] => file'[p] \in DOMAIN Target /\ value'[p] \in Texts
<1>1. T => TypeInv'
  BY DEF TypeInv, TypeOK, Labels
<1> SUFFICES T
  BY <1>1
<1> HIDE DEF Addresses, Arrays
<1>2. ASSUME NEW p \in Processes, NEW f \in Files, CallRead(p, f) PROVE T
  <2>1. pc' \in [Processes -> Labels]
    BY <1>2, GotoType DEF CallRead, Labels
  <2>2. \A q \in Processes :
            writing'[q] => writing[q] /\ file'[q] = file[q] /\ value'[q] = value[q]
    BY <1>0, <1>2 DEF CallRead
  <2> QED BY <1>0, <1>2, <2>1, <2>2 DEF CallRead, addresses
<1>3. ASSUME NEW p \in Processes, NEW f \in Files, NEW text \in Texts,
             f \in DOMAIN Target, CallWrite(p, f, text)
      PROVE  T
  <2>1. pc' \in [Processes -> Labels]
    BY <1>3, GotoType DEF CallWrite, Labels
  <2>2. \A q \in Processes : writing'[q] => file'[q] \in DOMAIN Target /\ value'[q] \in Texts
    BY <1>0, <1>3 DEF CallWrite
  <2> QED BY <1>0, <1>3, <2>1, <2>2 DEF CallWrite, addresses
<1>4. ASSUME NEW p \in Processes, SetPhysical(p) PROVE T
  <2>1. pc' \in [Processes -> Labels]
    BY <1>4, GotoType DEF SetPhysical, Labels
  <2>2. physical_addr_status_register' \in Addresses
    BY <1>0, <1>4 DEF SetPhysical, Addresses
  <2> QED BY <1>0, <1>4, <2>1, <2>2 DEF SetPhysical
<1>5. ASSUME NEW p \in Processes, SetVirtual(p) PROVE T
  <2>1. pc' \in [Processes -> Labels]
    BY <1>5, GotoType DEF SetVirtual, Labels
  <2> QED BY <1>0, <1>5, <2>1 DEF SetVirtual
<1>6. ASSUME NEW p \in Processes, Lock(p) PROVE T
  <2>1. pc' \in [Processes -> Labels]
    BY <1>6, GotoType DEF Lock, Labels
  <2>2. owner' \in [Mutexes -> Processes \union {None}]
    BY <1>0, <1>6, MutexType DEF Lock
  <2> QED BY <1>0, <1>6, <2>1, <2>2 DEF Lock, addresses
<1>7. ASSUME NEW p \in Processes, Dereference(p) PROVE T
  <2>1. pc' \in [Processes -> Labels]
    BY <1>7, GotoType DEF Dereference, Labels
  <2>2. DOMAIN value' = Processes /\ \A q \in Processes : writing[q] => value'[q] = value[q]
    BY <1>0, <1>7 DEF Dereference
  <2> QED BY <1>0, <1>7, <2>1, <2>2 DEF Dereference, addresses
<1>8. ASSUME NEW p \in Processes, CopyFromUser(p) PROVE T
  <2>1. pc' \in [Processes -> Labels]
    BY <1>8, GotoType DEF CopyFromUser, Labels
  <2>2. input_to_LKM' \in Arrays
    <3>1. file[p] \in DOMAIN Target /\ value[p] \in Texts
      BY <1>0, <1>8 DEF CopyFromUser
    <3>2. input_to_LKM[file[p]] \in [1 .. Parsed -> Characters]
      BY <1>0, <3>1 DEF Arrays
    <3>3. Overwritten(input_to_LKM[file[p]], value[p]) \in [1 .. Parsed -> Characters]
      BY <3>1, <3>2, OverwrittenType
    <3> QED BY <1>0, <1>8, <3>3 DEF CopyFromUser, Arrays
  <2> QED BY <1>0, <1>8, <2>1, <2>2 DEF CopyFromUser, addresses
<1>9. ASSUME NEW p \in Processes, Parse(p) \/ Return(p) PROVE T
  <2>1. pc' \in [Processes -> Labels]
    BY <1>9, GotoType DEF Parse, Return, Labels
  <2> QED BY <1>0, <1>9, <2>1 DEF Parse, Return, addresses
<1>10. ASSUME NEW p \in Processes, Unlock(p) PROVE T
  <2>1. pc' \in [Processes -> Labels]
    BY <1>10, GotoType DEF Unlock, Labels
  <2>2. owner' \in [Mutexes -> Processes \union {None}]
    BY <1>0, <1>10, MutexType DEF Unlock
  <2> QED BY <1>0, <1>10, <2>1, <2>2 DEF Unlock, addresses
<1>11. ASSUME NEW r \in Registers, NEW v \in Content(r), DeviceChanges(r, v) PROVE T
  <2>1. /\ register' \in [Registers -> UNION {Content(s) : s \in Registers}]
        /\ \A s \in Registers : register'[s] \in Content(s)
    BY <1>0, <1>11 DEF DeviceChanges
  <2>2. DOMAIN seen' = Processes
    BY <1>11 DEF DeviceChanges
  <2> QED BY <1>0, <1>11, <2>1, <2>2 DEF DeviceChanges, addresses, calls
<1>12. CASE UNCHANGED vars
  BY <1>0, <1>12 DEF vars, addresses, calls
<1> HIDE DEF T
<1>13. ASSUME NEW p \in Processes, Step(p) PROVE T
  BY <1>4, <1>5, <1>6, <1>7, <1>8, <1>9, <1>10, <1>13 DEF Step
<1>14. CASE Next
  <2>1. CASE \E r \in Registers : \E v \in Content(r) : DeviceChanges(r, v)
    BY <1>11, <2>1
  <2>2. ASSUME NEW p \in Processes, NEW f \in Files,
               f \in DOMAIN Target /\ \E text \in Texts : CallWrite(p, f, text)
        PROVE  T
    BY <1>3, <2>2
  <2> QED BY <1>2, <1>13, <1>14, <2>1, <2>2 DEF Next
<1> QED BY <1>12, <1>14

\* TypeOK holds for any number of processes, set of files and values.
THEOREM TypeCorrect == Spec => []TypeOK
<1>1. TypeInv => TypeOK
  BY DEF TypeInv
<1> QED BY <1>1, TypeInit, TypeNext, PTL DEF Spec
-----------------------------------------------------------------------------
(* Writes                                                                  *)

\* Process p does something; the calls of the others stay as they are.
Alone(p) ==
    \A q \in Processes \ {p} :
        /\ pc'[q] = pc[q] /\ file'[q] = file[q] /\ writing'[q] = writing[q]
        /\ value'[q] = value[q] /\ seen'[q] = seen[q]

\* A step of a call does not change which call it is.
Same(p) == file'[p] = file[p] /\ writing'[p] = writing[p] /\ seen'[p] = seen[p]

LEMMA StepAlone ==
    ASSUME TypeInv, NEW p \in Processes, Step(p)
    PROVE  Alone(p) /\ Same(p) /\ pc' \in [Processes -> Labels]
<1>1. CASE SetPhysical(p)
  BY <1>1, GotoType DEF SetPhysical, Alone, Same, Labels
<1>2. CASE SetVirtual(p)
  BY <1>2, GotoType DEF SetVirtual, Alone, Same, Labels
<1>3. CASE Lock(p)
  BY <1>3, GotoType DEF Lock, Alone, Same, Labels
<1>4. CASE Dereference(p)
  BY <1>4, GotoType DEF Dereference, Alone, Same, Labels, TypeInv
<1>5. CASE CopyFromUser(p)
  BY <1>5, GotoType DEF CopyFromUser, Alone, Same, Labels
<1>6. CASE Parse(p)
  BY <1>6, GotoType DEF Parse, Alone, Same, Labels
<1>7. CASE Unlock(p)
  BY <1>7, GotoType DEF Unlock, Alone, Same, Labels
<1>8. CASE Return(p)
  BY <1>8, GotoType DEF Return, Alone, Same, Labels
<1> QED BY <1>1, <1>2, <1>3, <1>4, <1>5, <1>6, <1>7, <1>8 DEF Step

\* Nor does the beginning of a call.
LEMMA CallAlone ==
    ASSUME TypeInv, NEW p \in Processes, NEW f \in Files, NEW v,
           CallRead(p, f) \/ CallWrite(p, f, v)
    PROVE  Alone(p) /\ register' = register /\ owner' = owner /\ input_to_LKM' = input_to_LKM
<1>1. CASE CallRead(p, f)
  BY <1>1, GotoType DEF CallRead, Alone, Labels, TypeInv, TypeOK
<1>2. CASE CallWrite(p, f, v)
  BY <1>2, GotoType DEF CallWrite, Alone, Labels, TypeInv, TypeOK
<1> QED BY <1>1, <1>2

\* Between Lock and Unlock.
Holding == {"virtual again", "access", "parse", "unlock"}

\* A process between Lock and Unlock owns its mutex, and only reads go
\* through the addresses, only writes through the parse.
HoldsMutex(p) ==
    /\ pc[p] \in Holding => owner[Mutex(p)] = p
    /\ pc[p] = "parse" => writing[p]
    /\ pc[p] \in {"physical", "virtual", "virtual again"} => ~writing[p]

OwnText(p) ==
    pc[p] = "parse" =>
        \A k \in 1 .. Parsed :
            k <= Len(value[p]) => input_to_LKM[file[p]][k] = value[p][k]

LockInv == \A p \in Processes : HoldsMutex(p) /\ OwnText(p)

LEMMA LockInit == Init => LockInv
  BY DEF Init, LockInv, HoldsMutex, OwnText, Holding

\* Nobody else holds what p locks, so only p's own state matters.
LEMMA LockStep ==
    ASSUME TypeInv, LockInv, NEW p \in Processes, Step(p), NEW q \in Processes
    PROVE  HoldsMutex(q)'
<1>1. Alone(p) /\ Same(p) /\ pc' \in [Processes -> Labels]
  BY StepAlone
<1>2. Mutex(q)' = Mutex(q) /\ writing'[q] = writing[q] /\ Mutex(p) \in Mutexes /\ Mutex(q) \in Mutexes
  BY <1>1, MutexType DEF Alone, Same, Mutex
<1>3. HoldsMutex(p) /\ HoldsMutex(q) /\ pc[p] \in Labels /\ pc[q] \in Labels
  BY DEF LockInv, TypeInv, TypeOK, Labels
<1>4. owner \in [Mutexes -> Processes \union {None}] /\ None \notin Processes
  BY NoneAssumption DEF TypeInv, TypeOK
<1>5. q # p => pc'[q] = pc[q]
  BY <1>1 DEF Alone
<1>6. CASE Lock(p)
  <2>1. /\ owner[Mutex(p)] = None /\ owner' = [owner EXCEPT ![Mutex(p)] = p]
        /\ pc'[p] = IF file[p] = "data_buffer" /\ ~writing[p] THEN "virtual again" ELSE "access"
    BY <1>6, GotoType DEF Lock, Labels
  <2>2. CASE q = p
    BY <1>2, <1>4, <2>1, <2>2 DEF HoldsMutex, Holding
  <2>3. CASE q # p
    <3>1. pc[q] \in Holding => owner'[Mutex(q)] = q
      BY <1>2, <1>3, <1>4, <2>1 DEF HoldsMutex
    <3> QED BY <1>2, <1>3, <1>5, <2>3, <3>1 DEF HoldsMutex
  <2> QED BY <2>2, <2>3
<1>7. CASE Unlock(p)
  <2>1. /\ pc[p] = "unlock" /\ owner' = [owner EXCEPT ![Mutex(p)] = None] /\ pc'[p] = "return"
    BY <1>7, GotoType DEF Unlock, Labels
  <2>2. CASE q = p
    BY <2>1, <2>2 DEF HoldsMutex, Holding
  <2>3. CASE q # p
    <3>1. owner[Mutex(p)] = p
      BY <1>3, <2>1 DEF HoldsMutex, Holding
    <3>2. pc[q] \in Holding => owner'[Mutex(q)] = q
      BY <1>2, <1>3, <1>4, <2>1, <2>3, <3>1 DEF HoldsMutex
    <3> QED BY <1>2, <1>3, <1>5, <2>3, <3>2 DEF HoldsMutex
  <2> QED BY <2>2, <2>3
<1>8. CASE ~Lock(p) /\ ~Unlock(p)
  <2>1. owner' = owner
    BY <1>8 DEF Step, SetPhysical, SetVirtual, Dereference, CopyFromUser, Parse, Return
  <2>2. CASE q # p
    BY <1>2, <1>3, <1>5, <2>1, <2>2 DEF HoldsMutex
  <2>3. CASE q = p
    <3>1. CASE SetPhysical(p)
      <4>1. pc[p] = "physical" /\ pc'[p] = "virtual"
        BY <3>1, GotoType DEF SetPhysical, Labels
      <4> QED BY <1>2, <1>3, <2>1, <2>3, <4>1 DEF HoldsMutex, Holding
    <3>2. CASE SetVirtual(p)
      <4>1. \/ pc[p] = "virtual" /\ pc'[p] = "lock"
            \/ pc[p] = "virtual again" /\ pc'[p] = "access"
        BY <3>2, GotoType DEF SetVirtual, Labels
      <4> QED BY <1>2, <1>3, <2>1, <2>3, <4>1 DEF HoldsMutex, Holding
    <3>3. CASE Dereference(p)
      <4>1. pc[p] = "access" /\ pc'[p] = "unlock"
        BY <3>3, GotoType DEF Dereference, Labels
      <4> QED BY <1>2, <1>3, <2>1, <2>3, <4>1 DEF HoldsMutex, Holding
    <3>4. CASE CopyFromUser(p)
      <4>1. pc[p] = "access" /\ pc'[p] = "parse" /\ writing[p]
        BY <3>4, GotoType DEF CopyFromUser, Labels
      <4> QED BY <1>2, <1>3, <2>1, <2>3, <4>1 DEF HoldsMutex, Holding
    <3>5. CASE Parse(p)
      <4>1. pc[p] = "parse" /\ pc'[p] = "unlock"
        BY <3>5, GotoType DEF Parse, Labels
      <4> QED BY <1>2, <1>3, <2>1, <2>3, <4>1 DEF HoldsMutex, Holding
    <3>6. CASE Return(p)
      <4>1. pc'[p] = "idle"
        BY <3>6, GotoType DEF Return, Labels
      <4> QED BY <2>3, <4>1 DEF HoldsMutex, Holding
    <3> QED BY <1>8, <3>1, <3>2, <3>3, <3>4, <3>5, <3>6 DEF Step
  <2> QED BY <2>2, <2>3
<1> QED BY <1>6, <1>7, <1>8
\* Two writers of one file lock the same mutex, so a text stays until it is
\* parsed.
LEMMA TextStep ==
    ASSUME TypeInv, LockInv, NEW p \in Processes, Step(p), NEW q \in Processes
    PROVE  OwnText(q)'
<1>1. Alone(p) /\ Same(p) /\ pc' \in [Processes -> Labels]
  BY StepAlone
<1>2. OwnText(q) /\ HoldsMutex(p) /\ HoldsMutex(q)
  BY DEF LockInv
<1>3. CASE CopyFromUser(p)
  <2>1. /\ pc[p] = "access" /\ writing[p] /\ value' = value
        /\ input_to_LKM' = [input_to_LKM EXCEPT ![file[p]] = Overwritten(@, value[p])]
        /\ input_to_LKM \in [DOMAIN Target -> [1 .. Parsed -> Characters]]
        /\ file[p] \in DOMAIN Target /\ value[p] \in Texts
    BY <1>3 DEF CopyFromUser, TypeInv, TypeOK
  <2>2. CASE q = p
    <3>1. /\ input_to_LKM'[file[p]] = Overwritten(input_to_LKM[file[p]], value[p])
          /\ input_to_LKM[file[p]] \in [1 .. Parsed -> Characters]
      BY <2>1
    <3>2. \A k \in 1 .. Parsed :
            k <= Len(value[p]) => input_to_LKM'[file[p]][k] = value[p][k]
      BY <2>1, <3>1, OverwrittenType
    <3> QED BY <1>1, <2>1, <2>2, <3>2 DEF OwnText, Same
  <2>3. CASE q # p
    <3>1. pc[q] = "parse" => file[q] # file[p]
      BY <1>2, <2>1, <2>3 DEF HoldsMutex, Holding, Mutex
    <3> QED BY <1>1, <1>2, <2>1, <2>3, <3>1 DEF OwnText, Alone
  <2> QED BY <2>2, <2>3
<1>4. CASE ~CopyFromUser(p)
  <2>1. input_to_LKM' = input_to_LKM /\ pc'[p] # "parse"
    <3>1. CASE SetPhysical(p)
      BY <3>1, GotoType DEF SetPhysical, Labels
    <3>2. CASE SetVirtual(p)
      BY <3>2, GotoType DEF SetVirtual, Labels
    <3>3. CASE Lock(p)
      BY <3>3, GotoType DEF Lock, Labels
    <3>4. CASE Dereference(p)
      BY <3>4, GotoType DEF Dereference, Labels
    <3>5. CASE Parse(p)
      BY <3>5, GotoType DEF Parse, Labels
    <3>6. CASE Unlock(p)
      BY <3>6, GotoType DEF Unlock, Labels
    <3>7. CASE Return(p)
      BY <3>7, GotoType DEF Return, Labels
    <3> QED BY <1>4, <3>1, <3>2, <3>3, <3>4, <3>5, <3>6, <3>7 DEF Step
  <2> QED BY <1>1, <1>2, <2>1 DEF OwnText, Alone
<1> QED BY <1>3, <1>4

LEMMA LockNext ==
    ASSUME TypeInv, LockInv, [Next]_vars
    PROVE  LockInv'
<1> SUFFICES ASSUME NEW q \in Processes PROVE HoldsMutex(q)' /\ OwnText(q)'
  BY DEF LockInv
<1>1. HoldsMutex(q) /\ OwnText(q)
  BY DEF LockInv
<1>2. ASSUME NEW p \in Processes, Step(p) PROVE HoldsMutex(q)' /\ OwnText(q)'
  BY <1>2, LockStep, TextStep
<1>3. ASSUME NEW p \in Processes, NEW f \in Files, CallRead(p, f)
      PROVE  HoldsMutex(q)' /\ OwnText(q)'
  <2>1. /\ pc'[p] = "physical" /\ owner' = owner /\ input_to_LKM' = input_to_LKM
        /\ ~writing'[p]
    BY <1>3, GotoType DEF CallRead, Labels, TypeInv
  <2>2. CASE q = p
    BY <2>1, <2>2 DEF HoldsMutex, OwnText, Holding
  <2>3. CASE q # p
    BY ZenonT(60), <1>1, <1>3, <2>3, CallAlone DEF Alone, HoldsMutex, OwnText, Mutex
  <2> QED BY <2>2, <2>3
<1>4. ASSUME NEW p \in Processes, NEW f \in Files, NEW v, CallWrite(p, f, v)
      PROVE  HoldsMutex(q)' /\ OwnText(q)'
  <2>1. pc'[p] = "lock" /\ owner' = owner /\ input_to_LKM' = input_to_LKM
    BY <1>4, GotoType DEF CallWrite, Labels
  <2>2. CASE q = p
    BY <2>1, <2>2 DEF HoldsMutex, OwnText, Holding
  <2>3. CASE q # p
    BY ZenonT(60), <1>1, <1>4, <2>3, CallAlone DEF Alone, HoldsMutex, OwnText, Mutex
  <2> QED BY <2>2, <2>3
<1>5. CASE UNCHANGED <<calls, owner, input_to_LKM>>
  BY <1>1, <1>5 DEF calls, HoldsMutex, OwnText, Mutex
<1>6. CASE Next
  <2>1. ASSUME NEW r \in Registers, NEW v \in Content(r), DeviceChanges(r, v)
        PROVE  HoldsMutex(q)' /\ OwnText(q)'
    BY <1>5, <2>1 DEF DeviceChanges
  <2> QED BY <1>2, <1>3, <1>4, <1>6, <2>1 DEF Next
<1> QED BY <1>5, <1>6 DEF vars

\* What a write parses begins with the text its own caller passed, for any
\* texts, any number of processes and any files in use, however long the text
\* is that stood in the static array before.
THEOREM ParsesOwn == Spec => []ParsesOwnText
<1>1. Init => TypeInv /\ LockInv
  BY TypeInit, LockInit
<1>2. (TypeInv /\ LockInv) /\ [Next]_vars => (TypeInv /\ LockInv)'
  BY TypeNext, LockNext
<1>3. LockInv => ParsesOwnText
  BY DEF LockInv, OwnText, ParsesOwnText
<1> QED BY <1>1, <1>2, <1>3, PTL DEF Spec

-----------------------------------------------------------------------------
(* Reads                                                                   *)

\* All processes use the same device file.
OneFile == \E f \in Files : Files = {f}

\* A call that has set an address has set the one all calls set, and has
\* seen what its register holds; what was read was seen.
Reads(p) ==
    ~writing[p] =>
        /\ pc[p] \in Labels \ {"idle", "physical"} =>
                physical_addr_status_register = Source[file[p]]
        /\ pc[p] \in Labels \ {"idle", "physical", "virtual"} =>
                virtual_addr_status_register = Source[file[p]]
        /\ pc[p] # "idle" => register[Source[file[p]]] \in seen[p]
        /\ pc[p] \in {"unlock", "return"} => value[p] \in seen[p]

ReadInv == \A p \in Processes : Reads(p)

LEMMA ReadInit == Init => ReadInv
  BY DEF Init, ReadInv, Reads

LEMMA ReadStep ==
    ASSUME OneFile, TypeInv, LockInv, ReadInv, NEW p \in Processes, Step(p), NEW q \in Processes
    PROVE  Reads(q)'
<1>1. Alone(p) /\ Same(p) /\ pc' \in [Processes -> Labels] /\ register' = register
  BY StepAlone DEF Step, SetPhysical, SetVirtual, Lock, Dereference, CopyFromUser, Parse,
                   Unlock, Return
<1>2. Reads(p) /\ Reads(q) /\ pc[p] \in Labels /\ pc[q] \in Labels
  BY DEF ReadInv, TypeInv, TypeOK, Labels
<1>3. file[p] = file[q]
  BY DEF OneFile, TypeInv, TypeOK
<1>4. CASE SetPhysical(p)
  <2>1. /\ pc[p] = "physical" /\ pc'[p] = "virtual" /\ value' = value
        /\ physical_addr_status_register' = Source[file[p]]
        /\ virtual_addr_status_register' = virtual_addr_status_register
    BY <1>4, GotoType DEF SetPhysical, Labels
  <2>2. CASE q = p
    BY <1>1, <1>2, <2>1, <2>2 DEF Reads, Same
  <2>3. CASE q # p
    BY <1>1, <1>2, <1>3, <2>1, <2>3 DEF Reads, Alone
  <2> QED BY <2>2, <2>3
<1>5. CASE SetVirtual(p)
  <2>1. /\ \/ pc[p] = "virtual" /\ pc'[p] = "lock"
           \/ pc[p] = "virtual again" /\ pc'[p] = "access"
        /\ value' = value /\ ~writing[p]
        /\ physical_addr_status_register' = physical_addr_status_register
        /\ virtual_addr_status_register' = physical_addr_status_register
    BY <1>5, GotoType DEF SetVirtual, Labels, LockInv, HoldsMutex
  <2>2. physical_addr_status_register = Source[file[p]]
    BY <1>2, <2>1 DEF Reads
  <2>3. CASE q = p
    BY <1>1, <1>2, <2>1, <2>2, <2>3 DEF Reads, Same
  <2>4. CASE q # p
    BY <1>1, <1>2, <1>3, <2>1, <2>2, <2>4 DEF Reads, Alone
  <2> QED BY <2>3, <2>4
<1>6. CASE Dereference(p)
  <2>1. /\ pc[p] = "access" /\ pc'[p] = "unlock" /\ ~writing[p]
        /\ value'[p] = register[virtual_addr_status_register]
        /\ physical_addr_status_register' = physical_addr_status_register
        /\ virtual_addr_status_register' = virtual_addr_status_register
    BY <1>6, GotoType DEF Dereference, Labels, addresses, TypeInv
  <2>2. CASE q = p
    BY <1>1, <1>2, <2>1, <2>2 DEF Reads, Same, Labels
  <2>3. CASE q # p
    BY <1>1, <1>2, <2>1, <2>3 DEF Reads, Alone
  <2> QED BY <2>2, <2>3
<1>7. ASSUME Lock(p) \/ CopyFromUser(p) \/ Parse(p) \/ Unlock(p) \/ Return(p)
      PROVE  Reads(q)'
  <2>1. /\ value' = value
        /\ physical_addr_status_register' = physical_addr_status_register
        /\ virtual_addr_status_register' = virtual_addr_status_register
    BY <1>7 DEF Lock, CopyFromUser, Parse, Unlock, Return, addresses
  <2>2. CASE q # p
    BY <1>1, <1>2, <2>1, <2>2 DEF Reads, Alone
  <2>3. CASE q = p
    <3>1. \/ pc[p] = "lock" /\ pc'[p] \in {"virtual again", "access"}
          \/ writing[p]
          \/ pc[p] = "unlock" /\ pc'[p] = "return"
          \/ pc'[p] = "idle"
      <4>1. CASE Lock(p)
        BY <4>1, GotoType DEF Lock, Labels
      <4>2. CASE CopyFromUser(p)
        BY <4>2 DEF CopyFromUser
      <4>3. CASE Parse(p)
        BY <4>3 DEF Parse, LockInv, HoldsMutex
      <4>4. CASE Unlock(p)
        BY <4>4, GotoType DEF Unlock, Labels
      <4>5. CASE Return(p)
        BY <4>5, GotoType DEF Return, Labels
      <4> QED BY <1>7, <4>1, <4>2, <4>3, <4>4, <4>5
    <3> QED BY <1>1, <1>2, <2>1, <2>3, <3>1 DEF Reads, Same, Labels
  <2> QED BY <2>2, <2>3
<1> QED BY <1>4, <1>5, <1>6, <1>7 DEF Step

LEMMA ReadNext ==
    ASSUME OneFile, TypeInv, LockInv, ReadInv, [Next]_vars
    PROVE  ReadInv'
<1> SUFFICES ASSUME NEW q \in Processes PROVE Reads(q)'
  BY DEF ReadInv
<1>1. Reads(q)
  BY DEF ReadInv
<1>2. ASSUME NEW p \in Processes, NEW f \in Files, CallRead(p, f) PROVE Reads(q)'
  <2>1. /\ pc'[p] = "physical" /\ file'[p] = f /\ seen'[p] = {register[Source[f]]}
        /\ register' = register
        /\ physical_addr_status_register' = physical_addr_status_register
        /\ virtual_addr_status_register' = virtual_addr_status_register
    BY <1>2, GotoType DEF CallRead, Labels, TypeInv, TypeOK, addresses
  <2>2. CASE q = p
    BY <2>1, <2>2 DEF Reads
  <2>3. CASE q # p
    BY <1>1, <1>2, <2>1, <2>3, CallAlone DEF Alone, Reads
  <2> QED BY <2>2, <2>3
<1>3. ASSUME NEW p \in Processes, NEW f \in Files, NEW v, CallWrite(p, f, v)
      PROVE  Reads(q)'
  <2>1. /\ writing'[p] /\ register' = register
        /\ physical_addr_status_register' = physical_addr_status_register
        /\ virtual_addr_status_register' = virtual_addr_status_register
    BY <1>3 DEF CallWrite, TypeInv, addresses
  <2>2. CASE q = p
    BY <2>1, <2>2 DEF Reads
  <2>3. CASE q # p
    BY <1>1, <1>3, <2>1, <2>3, CallAlone DEF Alone, Reads
  <2> QED BY <2>2, <2>3
<1>4. ASSUME NEW r \in Registers, NEW v \in Content(r), DeviceChanges(r, v)
      PROVE  Reads(q)'
  <2>1. /\ pc' = pc /\ file' = file /\ writing' = writing /\ value' = value
        /\ physical_addr_status_register' = physical_addr_status_register
        /\ virtual_addr_status_register' = virtual_addr_status_register
        /\ register' = [register EXCEPT ![r] = v]
        /\ seen'[q] = IF pc[q] # "idle" /\ Accessed(q) = r THEN seen[q] \union {v} ELSE seen[q]
    BY <1>4 DEF DeviceChanges, addresses, calls
  <2>2. ~writing[q] => Accessed(q) = Source[file[q]] /\ Accessed(q) \in Registers
    BY MutexType DEF Accessed
  <2>3. ~writing[q] /\ pc[q] # "idle" => register'[Source[file[q]]] \in seen'[q]
    BY <1>1, <2>1, <2>2 DEF Reads, TypeInv
  <2>4. seen[q] \subseteq seen'[q]
    BY <2>1
  <2> QED BY <1>1, <2>1, <2>3, <2>4 DEF Reads
<1>5. CASE UNCHANGED vars
  BY <1>1, <1>5 DEF vars, addresses, calls, Reads
<1>6. CASE Next
  <2>1. ASSUME NEW p \in Processes, Step(p) PROVE Reads(q)'
    BY <2>1, ReadStep
  <2> QED BY <1>2, <1>3, <1>4, <1>6, <2>1 DEF Next
<1> QED BY <1>5, <1>6

\* As long as one device file is in use, a read returns a value its register
\* held during the call, for any number of processes (the address variables
\* are shared and set before the mutex is taken).
THEOREM ReadRegular ==
    ASSUME OneFile
    PROVE  Spec => []ReadIsRegular
<1>1. Init => TypeInv /\ LockInv /\ ReadInv
  BY TypeInit, LockInit, ReadInit
<1>2. (TypeInv /\ LockInv /\ ReadInv) /\ [Next]_vars => (TypeInv /\ LockInv /\ ReadInv)'
  BY TypeNext, LockNext, ReadNext, OneFile
<1>3. TypeInv /\ LockInv /\ ReadInv => ReadIsRegular
  BY DEF ReadInv, Reads, ReadIsRegular
<1> QED BY <1>1, <1>2, <1>3, PTL DEF Spec
=============================================================================
