-------------------------- MODULE MetadataRegister -------------------------
(***************************************************************************)
(* What LockedMetadata promises (metadata.py): the scripts do not have to  *)
(* worry about racing to write metadata.pickle.  What a script adds is     *)
(* added at one instant and stays; the only accident is the loss of the    *)
(* whole file, after which nothing can be added any more.                  *)
(***************************************************************************)
CONSTANT Scripts

VARIABLES
  known,  \* the scripts whose fields the metadata holds
  lost    \* the file is unreadable

Init == known = {} /\ lost = FALSE

Add(s) == ~lost /\ known' = known \cup {s} /\ UNCHANGED lost
Lose == ~lost /\ known' = {} /\ lost' = TRUE

Next == (\E s \in Scripts : Add(s)) \/ Lose

Spec == Init /\ [][Next]_<<known, lost>>
=============================================================================
