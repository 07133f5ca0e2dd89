------------------------------- MODULE Store -------------------------------
(***************************************************************************)
(* The host's mapping file of crates/elanprint-store: which slot of the    *)
(* sensor holds the template of which user's finger.  The file is the      *)
(* function `prints'; a print that is not in the file maps to NoSlot.      *)
(***************************************************************************)
EXTENDS Integers

CONSTANTS Users,    \* account names that may own prints
          Fingers,  \* the valid finger names (FINGER_NAMES)
          MaxSlot   \* the highest slot id the sensor has (MAX_SLOT, 15)

ASSUME StoreAssumption == MaxSlot \in Nat

Slots == 0..MaxSlot
NoSlot == -1

(* One enrolled finger: an account and one of its fingers.                 *)
Prints == Users \X Fingers

(* Every state the file can be in, the empty file first.                   *)
Files == [Prints -> Slots \cup {NoSlot}]
EmptyFile == [p \in Prints |-> NoSlot]

(* Slots some user's finger is mapped to.                                  *)
Tracked(prints) == {prints[p] : p \in Prints} \ {NoSlot}

(* Mutant: the file is not asked.                                          *)
WritableUnasked(count, prints) == {s \in Slots : s >= count}

(* Ids an enrolment may write: at or above the device's own count, and not *)
(* mapped by anybody.                                                      *)
Writable(count, prints) == {s \in Slots : s >= count} \ Tracked(prints)

(* insert refuses a slot that another print already maps to.               *)
SlotTaken(prints, print, slot) ==
    \E p \in Prints \ {print} : prints[p] = slot

Insert(prints, print, slot) == [prints EXCEPT ![print] = slot]
Remove(prints, print) == [prints EXCEPT ![print] = NoSlot]

(* The prints a verification of `user' may accept: all of the user's own   *)
(* ones, or the named finger only.                                         *)
Own(prints, user) == {p \in Prints : p[1] = user /\ prints[p] # NoSlot}

(* No slot is mapped twice.                                                *)
OneOwner(prints) ==
    \A p, q \in Prints : prints[p] = prints[q] /\ prints[p] # NoSlot => p = q
=============================================================================
