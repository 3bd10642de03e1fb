---------------------------- MODULE FismosLkmLoad ----------------------------
(***************************************************************************)
(* Loading and unloading the kernel module fismos.c: fismos_init() puts a  *)
(* platform driver and three device files in place one after the other,    *)
(* any of which the kernel may refuse, and fismos_exit() takes them away.  *)
(* Processes open and close the files meanwhile: a file can be opened from *)
(* the moment it is registered.                                            *)
(*                                                                         *)
(* The kernel's side is modelled as the module relies on it: it refuses    *)
(* what it has already, keeps a module whose files are open, since the     *)
(* files name their .owner, but frees one whose init failed in any case.   *)
(***************************************************************************)
EXTENDS Sequences

CONSTANTS Processes,
          Failing,      \* what the kernel may refuse to register
          Closed, Stale \* of a process: no file open; a file without its code

DeviceFiles == {"instruction_register", "status_register", "data_buffer"}
Parts       == {"platform_driver"} \union DeviceFiles

ASSUME FailingAssumption == Failing \subseteq Parts
ASSUME FileAssumption == {Closed, Stale} \intersect Parts = {} /\ Closed # Stale

VARIABLES
    stage,      \* of the module: absent, init, loaded, failed, exit
    registered, \* what the kernel has of it
    todo,       \* what fismos_init() is still to register
    undo,       \* what it, or fismos_exit(), is still to take away
    opened      \* the file each process has open

vars == <<stage, registered, todo, undo, opened>>

\* The order of the registrations in fismos_init().
InitOrder == <<"platform_driver", "instruction_register", "status_register",
               "data_buffer">>

\* Mutant: fismos_exit() leaves one device behind.
ExitOrderShort == <<"platform_driver", "data_buffer", "instruction_register">>

\* The order in which fismos_exit() takes them back.
ExitOrder == <<"platform_driver", "data_buffer", "status_register",
               "instruction_register">>

\* Mutant: the failing device's own label is one too early.
LadderOneMore(part) ==
    IF part = "status_register"
    THEN <<"status_register", "instruction_register", "platform_driver">> ELSE <<>>

\* Where the failure of each registration jumps to, and what is undone from
\* there on: the labels fall through to the end of the function.
Ladder(part) ==
    CASE part = "platform_driver"      -> <<"platform_driver">>
      [] part = "instruction_register" -> <<>>
      [] part = "status_register"      -> <<"instruction_register", "platform_driver">>
      [] part = "data_buffer"          ->
            <<"data_buffer", "instruction_register", "platform_driver">>

\* Mutant: the files do not name the module as their owner.
BusyNever == FALSE

\* The kernel counts the open files of the module that is there.
Busy == \E p \in Processes : opened[p] \in DeviceFiles

Init ==
    /\ stage = "absent"
    /\ registered = {}
    /\ todo = <<>> /\ undo = <<>>
    /\ opened = [p \in Processes |-> Closed]

-----------------------------------------------------------------------------
(* The module                                                              *)

\* insmod.
Load ==
    /\ stage = "absent"
    /\ stage' = "init"
    /\ todo' = InitOrder
    /\ UNCHANGED <<registered, undo, opened>>

\* Mutant: fismos_init() does not return.
RegisterStays ==
    /\ stage = "init" /\ todo # <<>>
    /\ Head(todo) \notin registered
    /\ registered' = registered \union {Head(todo)}
    /\ todo' = Tail(todo)
    /\ UNCHANGED <<stage, undo, opened>>

Register ==
    /\ stage = "init" /\ todo # <<>>
    /\ Head(todo) \notin registered
    /\ registered' = registered \union {Head(todo)}
    /\ todo' = Tail(todo)
    /\ stage' = IF Tail(todo) = <<>> THEN "loaded" ELSE "init"
    /\ UNCHANGED <<undo, opened>>

\* Mutant: the error is reported and init goes on.
RegisterFailsUnnoticed ==
    /\ stage = "init" /\ todo # <<>>
    /\ Head(todo) \in registered \union Failing
    /\ todo' = Tail(todo)
    /\ stage' = IF Tail(todo) = <<>> THEN "loaded" ELSE "init"
    /\ UNCHANGED <<registered, undo, opened>>

RegisterFails ==
    /\ stage = "init" /\ todo # <<>>
    /\ Head(todo) \in registered \union Failing
    /\ stage' = "failed"
    /\ undo' = Ladder(Head(todo))
    /\ todo' = <<>>
    /\ UNCHANGED <<registered, opened>>

\* rmmod: not while a file is open, and from then on none can be opened.
Unload ==
    /\ stage = "loaded" /\ ~Busy
    /\ stage' = "exit"
    /\ undo' = ExitOrder
    /\ UNCHANGED <<registered, todo, opened>>

\* platform_driver_unregister() or misc_deregister().  What the kernel does
\* with something it does not have (UndoesTheDone excludes it) is left at
\* nothing.
Unregister ==
    /\ stage \in {"failed", "exit"} /\ undo # <<>>
    /\ registered' = registered \ {Head(undo)}
    /\ undo' = Tail(undo)
    /\ UNCHANGED <<stage, todo, opened>>

\* fismos_exit() or the failed fismos_init() returns: the code goes, also
\* from under the files that are open.
Free ==
    /\ stage \in {"failed", "exit"} /\ undo = <<>>
    /\ stage' = "absent"
    /\ opened' = [p \in Processes |->
                    IF opened[p] \in DeviceFiles THEN Stale ELSE opened[p]]
    /\ UNCHANGED <<registered, todo, undo>>

-----------------------------------------------------------------------------
(* The processes                                                           *)

\* The three open functions only return 0; the kernel finds the file by its
\* registration and asks its owner not to leave.
Open(p, f) ==
    /\ opened[p] = Closed
    /\ f \in registered /\ stage # "exit"
    /\ opened' = [opened EXCEPT ![p] = f]
    /\ UNCHANGED <<stage, registered, todo, undo>>

\* The files have no release function.
Close(p) ==
    /\ opened[p] # Closed
    /\ opened' = [opened EXCEPT ![p] = Closed]
    /\ UNCHANGED <<stage, registered, todo, undo>>

Next ==
    \/ Load \/ Register \/ RegisterFails \/ Unload \/ Unregister \/ Free
    \/ \E p \in Processes : Close(p) \/ \E f \in DeviceFiles : Open(p, f)

Spec == Init /\ [][Next]_vars

-----------------------------------------------------------------------------
(* Properties                                                              *)

\* The module is in one stage, with something to do in fismos_init() only,
\* and the kernel has only parts of it.
TypeOK ==
    /\ stage \in {"absent", "init", "loaded", "failed", "exit"}
    /\ stage = "init" <=> todo # <<>>
    /\ registered \subseteq Parts
    /\ todo \in Seq(Parts) /\ undo \in Seq(Parts)
    /\ opened \in [Processes -> DeviceFiles \union {Closed, Stale}]

\* fismos.c:503 and 512: a part is taken away only if it was put in place,
\* and once (the ladder of fismos_init() and the list of fismos_exit()).
UndoesTheDone ==
    /\ \A i \in DOMAIN undo : undo[i] \in registered
    /\ \A i, j \in DOMAIN undo : undo[i] = undo[j] => i = j

\* fismos.c:458: zero on success.  A module that is loaded has its driver and
\* all three device files.
LoadedIsComplete == stage = "loaded" => registered = Parts

\* A module that was unloaded or that failed to load leaves nothing in the
\* kernel that points into it (what each error label falls through to).
NothingLeftBehind == stage = "absent" => registered = {}

\* No open file loses its code by rmmod; only a load that fails after a
\* process was quick to open a file takes the code away from under it.
OnlyFailureTakesCode ==
    [][\A p \in Processes :
            opened'[p] = Stale /\ opened[p] # Stale => stage = "failed"]_vars

=============================================================================
