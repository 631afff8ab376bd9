------------------------------- MODULE Memory -------------------------------
(***************************************************************************)
(* What apps/cli/src/State.ts promises: a memory of fields, each of which  *)
(* keeps the value last given to it.  A change may fail to be remembered,  *)
(* never at another field's expense.  Spoilt by something else, it forgets *)
(* the fields that do not decode, and if none does it is left alone.       *)
(***************************************************************************)
EXTENDS Naturals

CONSTANTS
  Fields,     \* lastTarget, active, seek, a position or cues per file, a
              \* pairing per device
  Seek,       \* the field whose value counts its changes
  Active,     \* the one that can be cleared
  Values,     \* what the other fields hold
  None,       \* a field that is absent
  Unreadable, \* a file that does not decode
  MaxSeeks    \* bound: how often a seek is asked for

VARIABLE memory

Documents ==
  {d \in [Fields -> Values \cup {None} \cup (0 .. MaxSeeks)] :
     \A f \in Fields : d[f] \in IF f = Seek THEN 0 .. MaxSeeks
                                           ELSE Values \cup {None}}
Empty == [f \in Fields |-> IF f = Seek THEN 0 ELSE None]

(* Every function of State.ts that changes the memory changes one field. *)
Changes == [field : Fields \ {Seek}, value : Values]
             \cup [field : {Active, Seek}, value : {None}]

(* A seek gets a higher id, "so a repeat is still noticed". *)
Changed(doc, c) ==
  [doc EXCEPT ![c.field] = IF c.field = Seek THEN doc[Seek] + 1 ELSE c.value]

MemoryInit == memory = Empty

Remember(c) ==
  /\ memory # Unreadable
  /\ memory[Seek] < MaxSeeks \/ c.field # Seek
  /\ memory' = Changed(memory, c)

(* What fails to decode field by field reads as if it were absent. *)
Without(doc, spoilt) == [f \in Fields |-> IF f \in spoilt THEN Empty[f] ELSE doc[f]]

Spoil ==
  \/ memory' = Unreadable
  \/ /\ memory # Unreadable
     /\ \E spoilt \in SUBSET Fields : memory' = Without(memory, spoilt)

MemoryNext == Spoil \/ \E c \in Changes : Remember(c)

MemorySpec == MemoryInit /\ [][MemoryNext]_memory
=============================================================================
