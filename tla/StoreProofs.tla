---------------------------- MODULE StoreProofs ----------------------------
(***************************************************************************)
(* What the operations on the mapping file keep of it, for any users, any  *)
(* fingers and any number of slots: what Worker and Cli need to know of    *)
(* crates/elanprint-store to be sure that no slot is ever mapped twice.    *)
(***************************************************************************)
EXTENDS Store, TLAPS

(* A slot of the sensor is not the mark of an entry that is not there.     *)
LEMMA NoSlotApart == NoSlot \notin Slots
BY StoreAssumption DEF NoSlot, Slots

(* Store::insert of a slot that it does not refuse: a file still, in which *)
(* the print has that slot for itself, and the others have what they had.  *)
LEMMA InsertKeeps ==
    ASSUME NEW file \in Files, OneOwner(file), NEW print \in Prints, NEW slot \in Slots,
           ~SlotTaken(file, print, slot)
    PROVE  LET after == Insert(file, print, slot)
           IN /\ after \in Files /\ OneOwner(after)
              /\ after[print] = slot /\ slot \in Tracked(after)
              /\ \A p \in Prints \ {print} : after[p] = file[p] /\ after[p] # slot
<1> DEFINE after == Insert(file, print, slot)
<1>1. after \in Files /\ after[print] = slot
  BY DEF Insert, Files
<1>2. \A p \in Prints \ {print} : after[p] = file[p] /\ after[p] # slot
  BY DEF Insert, Files, SlotTaken
<1>3. slot \in Tracked(after)
  BY <1>1, NoSlotApart DEF Tracked
<1> HIDE DEF after
<1>4. OneOwner(after)
  BY <1>1, <1>2 DEF OneOwner
<1> QED BY <1>1, <1>2, <1>3, <1>4 DEF after

(* Entries that are dropped, one by Store::remove or the stale ones of a   *)
(* prune, leave a file in which the other prints have what they had, and   *)
(* their slots are free for the next enrolment.                            *)
LEMMA DropKeeps ==
    ASSUME NEW file \in Files, OneOwner(file), NEW gone \in SUBSET Prints
    PROVE  LET after == [p \in Prints |-> IF p \in gone THEN NoSlot ELSE file[p]]
           IN /\ after \in Files /\ OneOwner(after)
              /\ Tracked(after) = Tracked(file) \ {file[p] : p \in gone}
<1> DEFINE after == [p \in Prints |-> IF p \in gone THEN NoSlot ELSE file[p]]
<1>1. after \in Files
  BY DEF Files
<1>2. \A p \in Prints : after[p] = IF p \in gone THEN NoSlot ELSE file[p]
  OBVIOUS
<1> HIDE DEF after
<1>3. OneOwner(after)
  BY <1>2 DEF OneOwner
<1>4. ASSUME NEW s \in Tracked(after) PROVE s \in Tracked(file) \ {file[p] : p \in gone}
  <2>1. PICK q \in Prints \ gone : s = file[q] /\ s # NoSlot
    BY <1>2 DEF Tracked
  <2>2. \A p \in gone : file[p] # s
    BY <2>1 DEF OneOwner
  <2> QED BY <2>1, <2>2 DEF Tracked
<1>5. ASSUME NEW s \in Tracked(file), s \notin {file[p] : p \in gone} PROVE s \in Tracked(after)
  <2>1. PICK q \in Prints : s = file[q] /\ s # NoSlot
    BY DEF Tracked
  <2>2. after[q] = s
    BY <1>2, <1>5, <2>1
  <2> QED BY <2>1, <2>2 DEF Tracked
<1>6. Tracked(after) = Tracked(file) \ {file[p] : p \in gone}
  BY <1>4, <1>5
<1> QED BY <1>1, <1>3, <1>6 DEF after

(* Store::remove is the drop of one entry, be it there or not.             *)
LEMMA RemoveKeeps ==
    ASSUME NEW file \in Files, OneOwner(file), NEW print \in Prints
    PROVE  LET after == Remove(file, print)
           IN /\ after \in Files /\ OneOwner(after)
              /\ Tracked(after) = Tracked(file) \ {file[print]}
              /\ \A p \in Prints \ {print} : after[p] = file[p]
<1>1. Remove(file, print) = [p \in Prints |-> IF p \in {print} THEN NoSlot ELSE file[p]]
  BY DEF Remove, Files
<1>2. {file[p] : p \in {print}} = {file[print]}
  OBVIOUS
<1>3. {print} \in SUBSET Prints
  OBVIOUS
<1>4. \A p \in Prints \ {print} : Remove(file, print)[p] = file[p]
  BY <1>1
<1> QED BY <1>1, <1>2, <1>3, <1>4, DropKeeps

(* What writable_slots offers of whatever count the sensor reports is a    *)
(* slot at or above that count that nobody is mapped to; insert does not   *)
(* refuse it, whoever it is for, and it is not offered again after that    *)
(* until its entry is dropped.                                             *)
THEOREM WritableIsFree ==
    ASSUME NEW file \in Files, OneOwner(file), NEW count, NEW slot \in Writable(count, file),
           NEW print \in Prints
    PROVE  LET after == Insert(file, print, slot)
           IN /\ slot \in Slots /\ slot >= count
              /\ \A p \in Prints : file[p] # slot
              /\ ~SlotTaken(file, print, slot)
              /\ after \in Files /\ OneOwner(after)
              /\ \A other : slot \notin Writable(other, after)
<1>1. slot \in Slots /\ slot >= count /\ slot \notin Tracked(file)
  BY DEF Writable
<1>2. \A p \in Prints : file[p] # slot
  BY <1>1, NoSlotApart DEF Tracked
<1>3. ~SlotTaken(file, print, slot)
  BY <1>2 DEF SlotTaken
<1>4. /\ Insert(file, print, slot) \in Files /\ OneOwner(Insert(file, print, slot))
      /\ slot \in Tracked(Insert(file, print, slot))
  BY <1>1, <1>3, InsertKeeps
<1>5. \A other : slot \notin Writable(other, Insert(file, print, slot))
  BY <1>4 DEF Writable
<1> QED BY <1>1, <1>2, <1>3, <1>4, <1>5
=============================================================================
