------------------------------ MODULE FismosLkm ------------------------------
(***************************************************************************)
(* The kernel module fismos.c: three device files, read and written by any *)
(* number of processes at a time.  A call is a sequence of steps, one per  *)
(* access of what the calls share: the file-level address variables, the   *)
(* mutexes, the static input arrays and the registers of the device.       *)
(*                                                                         *)
(* Each call is the first on a newly opened file and asks for all there    *)
(* is, as cat, echo and the example programs do.  A text that is read is   *)
(* abstracted to the value it spells; of the static array that the texts   *)
(* of writes are copied into, there are the characters that are parsed.    *)
(* The address variables that only the writes set are left out: nothing    *)
(* reads them.                                                             *)
(***************************************************************************)
EXTENDS Naturals, Sequences

CONSTANTS Processes, Values,
          Characters,
          Texts,        \* what is written to a device file
          Parsed,       \* characters that are parsed; 9 in the code
          Files,        \* the device files in use
          None

ASSUME FilesAssumption ==
    Files \subseteq {"instruction_register", "status_register", "data_buffer"}
ASSUME TextsAssumption ==
    /\ "0" \in Characters
    /\ Texts \subseteq Seq(Characters)
    /\ Parsed \in Nat
ASSUME NoneAssumption == None \notin Processes

\* Registers of the device.  A read of the data buffer finds the output of
\* the softcore, a write goes to its input.
Registers == {"instruction", "status", "output", "input"}
Source == [instruction_register |-> "instruction", status_register |-> "status",
           data_buffer |-> "output"]
Target == [instruction_register |-> "instruction", data_buffer |-> "input"]

\* Each call locks one mutex; reads and writes of the data buffer differ.
Mutexes == {"instruction_register", "status_register", "data_buffer",
            "data_buffer_out"}
ReadMutex  == [instruction_register |-> "instruction_register",
               status_register |-> "status_register",
               data_buffer |-> "data_buffer_out"]
WriteMutex == [instruction_register |-> "instruction_register",
               data_buffer |-> "data_buffer"]

VARIABLES
    physical_addr_status_register,  \* shared by the reads of all three files
    virtual_addr_status_register,
    input_to_LKM,                   \* the static array of each written file
    owner,                          \* the process that holds each mutex
    register,                       \* values in the device
    pc, file, writing, value,       \* each process: its call, value read/passed
    seen                            \* history: values of the register meanwhile

addresses == <<physical_addr_status_register, virtual_addr_status_register>>
calls     == <<pc, file, writing, value>>
vars      == <<addresses, input_to_LKM, owner, register, calls, seen>>

\* Values of different registers differ.
Content(r) == {r} \X Values

Init ==
    /\ physical_addr_status_register = None
    /\ virtual_addr_status_register = None
    /\ input_to_LKM = [f \in DOMAIN Target |-> [k \in 1 .. Parsed |-> "0"]]
    /\ owner = [m \in Mutexes |-> None]
    /\ register \in [Registers -> UNION {Content(r) : r \in Registers}]
    /\ \A r \in Registers : register[r] \in Content(r)
    /\ pc = [p \in Processes |-> "idle"]
    /\ file \in [Processes -> Files]
    /\ writing = [p \in Processes |-> FALSE]
    /\ value = [p \in Processes |-> None]
    /\ seen = [p \in Processes |-> {}]

Mutex(p) == IF writing[p] THEN WriteMutex[file[p]] ELSE ReadMutex[file[p]]
Accessed(p) == IF writing[p] THEN Target[file[p]] ELSE Source[file[p]]

Goto(p, label) == pc' = [pc EXCEPT ![p] = label]

-----------------------------------------------------------------------------
(* Calls                                                                   *)

\* A process calls read() on a device file.
CallRead(p, f) ==
    /\ pc[p] = "idle"
    /\ Goto(p, "physical")
    /\ file' = [file EXCEPT ![p] = f]
    /\ writing' = [writing EXCEPT ![p] = FALSE]
    /\ value' = [value EXCEPT ![p] = None]
    /\ seen' = [seen EXCEPT ![p] = {register[Source[f]]}]
    /\ UNCHANGED <<addresses, input_to_LKM, owner, register>>

\* A process calls write(); the status register's file refuses writes with
\* -ECANCELED and nothing else, which is left out.
CallWrite(p, f, text) ==
    /\ pc[p] = "idle"
    /\ Goto(p, "lock")
    /\ file' = [file EXCEPT ![p] = f]
    /\ writing' = [writing EXCEPT ![p] = TRUE]
    /\ value' = [value EXCEPT ![p] = text]
    /\ seen' = [seen EXCEPT ![p] = {register[Target[f]]}]
    /\ UNCHANGED <<addresses, input_to_LKM, owner, register>>

\* Mutant: the address of another register.
SetPhysicalInput(p) ==
    /\ pc[p] = "physical"
    /\ physical_addr_status_register' = "input"
    /\ Goto(p, "virtual")
    /\ UNCHANGED <<virtual_addr_status_register, input_to_LKM, owner, register,
                   file, writing, value, seen>>

\* physical_addr_status_register = AXI_SLAVE_ADDRESS_...
SetPhysical(p) ==
    /\ pc[p] = "physical"
    /\ physical_addr_status_register' = Source[file[p]]
    /\ Goto(p, "virtual")
    /\ UNCHANGED <<virtual_addr_status_register, input_to_LKM, owner, register,
                   file, writing, value, seen>>

\* virtual_addr_status_register = phys_to_virt(physical_addr_status_register).
\* The data buffer does it once more under its mutex.
SetVirtual(p) ==
    /\ pc[p] \in {"virtual", "virtual again"}
    /\ virtual_addr_status_register' = physical_addr_status_register
    /\ Goto(p, IF pc[p] = "virtual" THEN "lock" ELSE "access")
    /\ UNCHANGED <<physical_addr_status_register, input_to_LKM, owner, register,
                   file, writing, value, seen>>

\* Mutant: the mutex is taken whoever holds it.
LockAlways(p) ==
    /\ pc[p] = "lock"
    /\ owner' = [owner EXCEPT ![Mutex(p)] = p]
    /\ Goto(p, IF file[p] = "data_buffer" /\ ~writing[p]
               THEN "virtual again" ELSE "access")
    /\ UNCHANGED <<addresses, input_to_LKM, register, file, writing, value, seen>>

\* mutex_lock() waits for its turn.
Lock(p) ==
    /\ pc[p] = "lock"
    /\ owner[Mutex(p)] = None
    /\ owner' = [owner EXCEPT ![Mutex(p)] = p]
    /\ Goto(p, IF file[p] = "data_buffer" /\ ~writing[p]
               THEN "virtual again" ELSE "access")
    /\ UNCHANGED <<addresses, input_to_LKM, register, file, writing, value, seen>>

\* The dereference, and the copy to the user.
Dereference(p) ==
    /\ pc[p] = "access" /\ ~writing[p]
    /\ value' = [value EXCEPT ![p] = register[virtual_addr_status_register]]
    /\ Goto(p, "unlock")
    /\ UNCHANGED <<addresses, input_to_LKM, owner, register, file, writing, seen>>

\* A text overwrites as many characters as it has; behind a short one, what
\* was there remains.
Overwritten(array, text) ==
    [k \in 1 .. Parsed |-> IF k <= Len(text) THEN text[k] ELSE array[k]]

\* simple_write_to_buffer() copies the text from the user ...
CopyFromUser(p) ==
    /\ pc[p] = "access" /\ writing[p]
    /\ input_to_LKM' = [input_to_LKM EXCEPT ![file[p]] = Overwritten(@, value[p])]
    /\ Goto(p, "parse")
    /\ UNCHANGED <<addresses, owner, register, file, writing, value, seen>>

\* ... and kstrtoint() reads the array into a local variable, or fails on
\* what does not fit an int or goes on after a line end, which is ignored: the store to the device that would
\* follow is commented out, so nothing comes of it.
Parse(p) ==
    /\ pc[p] = "parse"
    /\ Goto(p, "unlock")
    /\ UNCHANGED <<addresses, input_to_LKM, owner, register, file, writing, value, seen>>

\* Mutant: the call returns with its mutex locked.
UnlockForgotten(p) ==
    /\ pc[p] = "unlock"
    /\ Goto(p, "return")
    /\ UNCHANGED <<addresses, input_to_LKM, owner, register, file, writing, value, seen>>

Unlock(p) ==
    /\ pc[p] = "unlock"
    /\ owner' = [owner EXCEPT ![Mutex(p)] = None]
    /\ Goto(p, "return")
    /\ UNCHANGED <<addresses, input_to_LKM, register, file, writing, value, seen>>

\* The call returns the number of bytes: success.
Return(p) ==
    /\ pc[p] = "return"
    /\ Goto(p, "idle")
    /\ UNCHANGED <<addresses, input_to_LKM, owner, register, file, writing, value, seen>>

Step(p) ==
    \/ SetPhysical(p) \/ SetVirtual(p) \/ Lock(p) \/ Dereference(p)
    \/ CopyFromUser(p) \/ Parse(p) \/ Unlock(p) \/ Return(p)

\* The softcore, or a program that maps the device, changes a register.
DeviceChanges(r, v) ==
    /\ register' = [register EXCEPT ![r] = v]
    /\ seen' = [p \in Processes |-> IF pc[p] # "idle" /\ Accessed(p) = r
                                    THEN seen[p] \union {v} ELSE seen[p]]
    /\ UNCHANGED <<addresses, input_to_LKM, owner, calls>>

Next ==
    \/ \E p \in Processes :
        \/ Step(p)
        \/ \E f \in Files :
            \/ CallRead(p, f)
            \/ f \in DOMAIN Target /\ \E text \in Texts : CallWrite(p, f, text)
    \/ \E r \in Registers : \E v \in Content(r) : DeviceChanges(r, v)

Spec == Init /\ [][Next]_vars

\* Every process runs, and the kernel hands a mutex to a waiter that has been
\* passed over too long, so that every waiting process gets its turn.
FairSpec == Spec /\ \A p \in Processes : WF_vars(Step(p)) /\ SF_vars(Lock(p))

-----------------------------------------------------------------------------
(* Properties                                                              *)

\* Each call is somewhere in its handler, each mutex has an owner or none, and
\* the arrays keep their length.
TypeOK ==
    /\ {physical_addr_status_register, virtual_addr_status_register}
            \subseteq {Source[f] : f \in Files} \union {None}
    /\ input_to_LKM \in [DOMAIN Target -> [1 .. Parsed -> Characters]]
    /\ owner \in [Mutexes -> Processes \union {None}]
    /\ \A r \in Registers : register[r] \in Content(r)
    /\ pc \in [Processes -> {"idle", "physical", "virtual", "virtual again", "lock",
                             "access", "parse", "unlock", "return"}]
    /\ file \in [Processes -> Files]

\* A read returns a value its own register held during the call (the address
\* variables are file-level and set before any mutex is taken).
ReadIsRegular ==
    \A p \in Processes : pc[p] = "return" /\ ~writing[p] => value[p] \in seen[p]

\* What a write parses begins with the text its own caller passed, whoever
\* else writes: a text that fills the parsed part is parsed as it is, and only
\* behind a shorter one stands what was written before (the static array is
\* shared and never cleared, the mutex is held over copy and parse).
ParsesOwnText ==
    \A p \in Processes : pc[p] = "parse" =>
        \A k \in 1 .. Parsed :
            k <= Len(value[p]) => input_to_LKM[file[p]][k] = value[p][k]

\* Every call returns: no mutex is kept or waited for in a circle.
EveryCallReturns ==
    \A p \in Processes : pc[p] # "idle" ~> pc[p] = "idle"
=============================================================================
