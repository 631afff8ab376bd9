----------------------------- MODULE StateStore -----------------------------
(***************************************************************************)
(* The state file (apps/cli/src/State.ts): updates by the fibers of every  *)
(* castcli process that is running.  An update reads a snapshot, changes   *)
(* one field of it, writes the whole to a temporary file of its own and    *)
(* renames that over the state file.  Nothing excludes another update.     *)
(***************************************************************************)
EXTENDS Naturals

CONSTANTS
  Fields, Seek, Active, Values, None, Unreadable, MaxSeeks,  \* as Memory
  Missing,     \* no state file
  Updaters,    \* the fibers that update it, of one process or several
  Serial       \* whether each update has the file to itself

VARIABLES
  disk,        \* the state file: Missing, Unreadable or a document
  temp,        \* temp[u]: the document u has still to rename into place
  damaged      \* whether something else has spoilt the file

vars == <<disk, temp, damaged>>

ASSUME StateStoreAssumption ==
  /\ {Seek, Active} \subseteq Fields
  /\ Seek # Active
  /\ None \notin Values
  /\ MaxSeeks \in Nat
  /\ {Missing, Unreadable, None}
       \cap [Fields -> Values \cup {None} \cup (0 .. MaxSeeks)] = {}
  /\ Missing # Unreadable
  /\ Serial \in BOOLEAN

(* A missing file is empty memory. *)
View(d) == IF d = Missing THEN [f \in Fields |-> IF f = Seek THEN 0 ELSE None]
                          ELSE d

Store == INSTANCE Memory WITH memory <- View(disk)

TypeOK ==
  /\ disk \in Store!Documents \cup {Missing, Unreadable}
  /\ temp \in [Updaters -> Store!Documents \cup {None}]
  /\ damaged \in BOOLEAN

Init ==
  /\ disk = Missing
  /\ temp = [u \in Updaters |-> None]
  /\ damaged = FALSE

-----------------------------------------------------------------------------
Idle == \A u \in Updaters : temp[u] = None

(* As Refuses, had an unreadable file been taken for an empty one.         *)
Refuses_Never(d) == FALSE

(* "Not writing over an unreadable state.json". *)
Refuses(d) == d = Unreadable

Snapshot == IF disk = Unreadable THEN View(Missing) ELSE View(disk)

(* As ChangedSnapshot, had the rest of the memory not been spread into it. *)
ChangedSnapshot_NoSpread(c) == Store!Changed(View(Missing), c)

ChangedSnapshot(c) == Store!Changed(Snapshot, c)

(* As WhileWriting, had the state file been written in place.              *)
WhileWriting_InPlace == Unreadable

(* makeTempFile and writeFileString leave the state file as it is. *)
WhileWriting == disk

(* update: snapshot, change, and the temporary file. *)
Update(u, c) ==
  /\ temp[u] = None
  /\ Serial => Idle
  /\ ~Refuses(disk)
  /\ c.field = Seek => Snapshot[Seek] < MaxSeeks
  /\ temp' = [temp EXCEPT ![u] = ChangedSnapshot(c)]
  /\ disk' = WhileWriting
  /\ UNCHANGED damaged

Rename(u) ==
  /\ temp[u] # None
  /\ disk' = temp[u]
  /\ temp' = [temp EXCEPT ![u] = None]
  /\ UNCHANGED damaged

(* catchCause: a write that fails is not reported; or the process dies. *)
Abandon(u) ==
  /\ temp[u] # None
  /\ temp' = [temp EXCEPT ![u] = None]
  /\ UNCHANGED <<disk, damaged>>

(* The file is edited, or written by another version.  A field that does   *)
(* not decode is dropped and the rest is read (Remembered's catchDecoding); *)
(* what is not JSON, or cannot be read at all, is unreadable.               *)
Damage ==
  /\ disk # Missing
  /\ Serial => Idle
  /\ \/ disk' = Unreadable
     \/ /\ disk # Unreadable
        /\ \E spoilt \in SUBSET Fields : disk' = Store!Without(disk, spoilt)
  /\ damaged' = TRUE
  /\ UNCHANGED temp

Next ==
  \/ \E u \in Updaters : \/ \E c \in Store!Changes : Update(u, c)
                         \/ Rename(u) \/ Abandon(u)
  \/ Damage

Spec == Init /\ [][Next]_vars
-----------------------------------------------------------------------------
(* Properties.                                                             *)

(* The file decodes unless something else spoilt it, wherever an update    *)
(* was interrupted and however many were under way (State.ts write).       *)
ReadableUnlessDamaged == disk = Unreadable => damaged

(* With no update under way, an unreadable file is left as it is for good, *)
(* with the pairings it may hold (the head of State.ts: "writes refuse to  *)
(* persist that empty over the file they failed to read").                 *)
UnreadableKept == [](disk = Unreadable /\ Idle => [](disk = Unreadable))

(* Updates that do not overlap implement a memory that keeps every field   *)
(* which something else has not spoilt: the read, the temporary file and   *)
(* the rename are one change of one field (State.ts update).               *)
IsAMemory == Store!MemorySpec

(* A field that has been remembered is not forgotten because another one   *)
(* was written: for a pairing, "you don't need the PIN again"              *)
(* (docs/airplay.md).  Only the active stream is ever cleared.             *)
NothingForgotten ==
  [][\A f \in Fields \ {Active} :
       ~damaged' /\ disk # Missing /\ disk[f] # None
         => disk'[f] # None]_vars
=============================================================================
