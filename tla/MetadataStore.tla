--------------------------- MODULE MetadataStore ---------------------------
(***************************************************************************)
(* metadata.pickle, the one file through which the scripts of an Ibex      *)
(* regression (dv/uvm/core_ibex/scripts/) tell each other what they did.   *)
(* A script that adds to it goes through LockedMetadata: it locks the      *)
(* file, unpickles it, changes its copy, and on leaving the with-block     *)
(* truncates the file, pickles the copy into it and unlocks.  A script     *)
(* that only reads takes no lock.                                          *)
(*                                                                         *)
(* What a script adds is its own name: the file holds a set of scripts.    *)
(***************************************************************************)
CONSTANTS
  Scripts,  \* the scripts that use LockedMetadata
  Nobody    \* the lock is free

ASSUME StoreAssumption == Nobody \notin Scripts

VARIABLES
  file,  \* metadata.pickle: is it there and whole, and whose fields are in it
  lock,  \* the script that holds the portalocker lock
  copy,  \* the object each script unpickled
  at     \* where each script is in LockedMetadata

storeVars == <<file, lock, copy, at>>

Absent == [state |-> "absent", fields |-> {}]
New == [state |-> "new", fields |-> {}]      \* opened by create_metadata
Torn == [state |-> "torn", fields |-> {}]
Whole(fs) == [state |-> "whole", fields |-> fs]
Readable == file.state = "whole"      \* pickle.load of the file succeeds

StoreInit ==
  /\ file = Absent /\ lock = Nobody
  /\ copy = [s \in Scripts |-> {}]
  /\ at = [s \in Scripts |-> "out"]

\* __enter__: the alarm is set and the file opened.
Enter(s) ==
  /\ at[s] = "out"
  /\ at' = [at EXCEPT ![s] = "wait"]
  /\ UNCHANGED <<file, lock, copy>>

\* __enter__: the lock is granted and the file unpickled.
mut_Lock(s) ==
  /\ at[s] = "wait" /\ Readable
  /\ lock' = s
  /\ copy' = [copy EXCEPT ![s] = file.fields]
  /\ at' = [at EXCEPT ![s] = "in"]
  /\ UNCHANGED file
Lock(s) ==
  /\ at[s] = "wait" /\ lock = Nobody /\ Readable
  /\ lock' = s
  /\ copy' = [copy EXCEPT ![s] = file.fields]
  /\ at' = [at EXCEPT ![s] = "in"]
  /\ UNCHANGED file

\* __enter__ raises: the file cannot be unpickled, or the alarm went off
\* while another script held the lock.
LockFails(s) ==
  /\ at[s] = "wait"
  /\ lock # Nobody \/ ~Readable
  /\ at' = [at EXCEPT ![s] = "out"]
  /\ UNCHANGED <<file, lock, copy>>

\* __exit__, which also runs when the with-block raised: export opens the
\* file for writing, which empties it, ...
Truncate(s) ==
  /\ at[s] = "in"
  /\ file' = Torn
  /\ at' = [at EXCEPT ![s] = "dump"]
  /\ UNCHANGED <<lock, copy>>

\* ... and pickles the copy into it; then the lock is given up.
Unlock(s) ==
  /\ at[s] = "dump"
  /\ file' = Whole(copy[s] \cup {s})
  /\ lock' = Nobody
  /\ at' = [at EXCEPT ![s] = "out"]
  /\ copy' = [copy EXCEPT ![s] = {}]

\* The process is killed: the system drops its lock, the file stays as it is.
Killed(ss) ==
  /\ at' = [s \in Scripts |-> IF s \in ss THEN "out" ELSE at[s]]
  /\ lock' = IF lock \in ss THEN Nobody ELSE lock
  /\ copy' = [s \in Scripts |-> IF s \in ss THEN {} ELSE copy[s]]
  /\ UNCHANGED file

\* metadata.py --op create_metadata, when the file does not exist yet: export
\* opens it and pickles the object into it.
Create ==
  /\ file = Absent
  /\ file' = New
  /\ UNCHANGED <<lock, copy, at>>
Created ==
  /\ file = New
  /\ file' = Whole({})
  /\ UNCHANGED <<lock, copy, at>>

\* create_metadata is killed in between.
CreateKilled ==
  /\ file = New
  /\ file' = Torn
  /\ UNCHANGED <<lock, copy, at>>

StoreNext ==
  \/ Create \/ Created \/ CreateKilled
  \/ \E s \in Scripts : Enter(s) \/ Lock(s) \/ LockFails(s) \/ Truncate(s) \/ Unlock(s)
  \/ \E ss \in SUBSET Scripts : Killed(ss)

StoreSpec == StoreInit /\ [][StoreNext]_storeVars

-----------------------------------------------------------------------------

(***************************************************************************)
(* StoreTypeOK: the file, the lock, the copies and the positions have      *)
(* their types.                                                            *)
(***************************************************************************)
StoreTypeOK ==
  /\ file \in [state : {"absent", "new", "torn", "whole"}, fields : SUBSET Scripts]
  /\ lock \in Scripts \cup {Nobody}
  /\ copy \in [Scripts -> SUBSET Scripts]
  /\ at \in [Scripts -> {"out", "wait", "in", "dump"}]

(***************************************************************************)
(* OneWriter: exactly the script that holds the lock is between __enter__  *)
(* and __exit__, and the object it will write back is the one on disk: no  *)
(* other script has committed anything since it was unpickled.             *)
(***************************************************************************)
OneWriter ==
  /\ \A s \in Scripts : at[s] \in {"in", "dump"} <=> lock = s
  /\ lock # Nobody /\ at[lock] = "in" => file = Whole(copy[lock])

(***************************************************************************)
(* Refines: the file behaves as a register to which one script at a time   *)
(* adds its fields at one instant, whatever the scripts do in between; all *)
(* that can go wrong is that everything is lost at once, for good.         *)
(***************************************************************************)
Known == IF lock # Nobody THEN copy[lock] ELSE file.fields
Lost == lock = Nobody /\ file = Torn
Register == INSTANCE MetadataRegister WITH known <- Known, lost <- Lost
Refines == Register!Spec
=============================================================================
