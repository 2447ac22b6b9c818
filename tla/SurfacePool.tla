----------------------------- MODULE SurfacePool -----------------------------
(***************************************************************************)
(* SurfacePool, CaptureLease and OwnedSurface (crates/surface): slots that  *)
(* capture callbacks lease and encoders own, released by dropping handles   *)
(* on any thread.  Every lock section is one step.                          *)
(*                                                                         *)
(* The generation of a slot wraps (64 bits in the code).  The counters of   *)
(* SurfacePoolStats are left out except invalid_transitions.                *)
(***************************************************************************)
EXTENDS Integers, FiniteSets, FiniteSetTheorems, TLAPS

CONSTANTS Capacity, Generations     \* slots; number of generation values

ASSUME PoolAssumption == Capacity \in Nat \ {0} /\ Generations \in Nat \ {0, 1}

VARIABLES
  slots,     \* [generation, state, reserved]: reserved when a destination is fixed
  inUse,
  invalid,   \* an invalid transition was counted
  handles,   \* live handles: [slot, generation, kind, reserved, payload]
  dropping   \* owned surfaces whose drop released the payload, not yet the slot

vars == <<slots, inUse, invalid, handles, dropping>>

Slots == 1 .. Capacity
Kinds == {"CaptureLeased", "Owned"}
Slot(generation, state, reserved) ==
  [generation |-> generation, state |-> state, reserved |-> reserved]
Handles == [slot : Slots, generation : 0 .. Generations - 1, kind : Kinds,
            reserved : BOOLEAN, payload : BOOLEAN]

Init ==
  /\ slots = [i \in Slots |-> Slot(0, "Available", FALSE)]
  /\ inUse = 0
  /\ invalid = FALSE
  /\ handles = {}
  /\ dropping = {}

Available == {i \in Slots : slots[i].state = "Available"}

\* wrapping_add(1).max(1)
Bumped(g) == LET n == (g + 1) % Generations IN IF n = 0 THEN 1 ELSE n

FirstAvailable == CHOOSE i \in Available : \A j \in Available : i <= j

\* acquire_capture, or reserve_destination when `reserved`
Acquire(reserved) ==
  /\ Available # {}
  /\ LET i == FirstAvailable
         g == Bumped(slots[i].generation)
     IN  /\ slots' = [slots EXCEPT ![i] = Slot(g, "CaptureLeased", reserved)]
         /\ handles' = handles \cup {[slot |-> i, generation |-> g, kind |-> "CaptureLeased",
                                      reserved |-> reserved, payload |-> FALSE]}
  /\ inUse' = inUse + 1
  /\ UNCHANGED <<invalid, dropping>>

Holds(h, state) == slots[h.slot].generation = h.generation /\ slots[h.slot].state = state

\* release_slot
Released(h, state) ==
  IF Holds(h, state)
  THEN /\ slots' = [slots EXCEPT ![h.slot] = Slot(h.generation, "Available", FALSE)]
       /\ inUse' = inUse - 1
       /\ UNCHANGED invalid
  ELSE invalid' = TRUE /\ UNCHANGED <<slots, inUse>>

\* finish_import turns the lease into an owned surface.
FinishImport(h, payload) ==
  IF Holds(h, "CaptureLeased")
  THEN /\ slots' = [slots EXCEPT ![h.slot].state = "Owned"]
       /\ handles' = (handles \ {h}) \cup {[h EXCEPT !.kind = "Owned", !.payload = payload]}
       /\ UNCHANGED <<inUse, invalid>>
  ELSE /\ invalid' = TRUE
       /\ handles' = handles \ {h}
       /\ UNCHANGED <<slots, inUse>>

\* import and import_from_capture consume the lease.  The wrong one of the two
\* for this lease, or a ledger that does not fit, fails and drops it.
Import(h, fromCapture, fits, payload) ==
  /\ h.kind = "CaptureLeased"
  /\ IF fits /\ fromCapture = h.reserved
     THEN FinishImport(h, payload)
     ELSE /\ Released(h, "CaptureLeased")
          /\ handles' = handles \ {h}
  /\ UNCHANGED dropping

DropLease(h) ==
  /\ h.kind = "CaptureLeased"
  /\ Released(h, "CaptureLeased")
  /\ handles' = handles \ {h}
  /\ UNCHANGED dropping

\* Faulty: the slot is returned first, the native allocation after it.
DropPayloadLate(h) ==
  /\ h.kind = "Owned"
  /\ Released(h, "Owned")
  /\ handles' = handles \ {h}
  /\ dropping' = dropping \cup {h}

\* Dropping an owned surface frees its allocation ...
DropPayload(h) ==
  /\ h.kind = "Owned"
  /\ handles' = handles \ {h}
  /\ dropping' = dropping \cup {[h EXCEPT !.payload = FALSE]}
  /\ UNCHANGED <<slots, inUse, invalid>>

\* ... and then its slot.
DropOwned(h) ==
  /\ Released(h, "Owned")
  /\ dropping' = dropping \ {h}
  /\ UNCHANGED handles

Next ==
  \/ \E reserved \in BOOLEAN : Acquire(reserved)
  \/ \E h \in handles :
       \/ \E fromCapture, fits, payload \in BOOLEAN : Import(h, fromCapture, fits, payload)
       \/ DropLease(h)
       \/ DropPayload(h)
  \/ \E h \in dropping : DropOwned(h)

Spec == Init /\ [][Next]_vars

-----------------------------------------------------------------------------
PoolTypeOK ==
  /\ slots \in [Slots -> [generation : 0 .. Generations - 1, reserved : BOOLEAN,
                          state : {"Available"} \cup Kinds]]
  /\ inUse \in 0 .. Capacity /\ invalid \in BOOLEAN
  /\ handles \subseteq Handles /\ dropping \subseteq Handles

\* Every held slot has exactly one handle, whose kind and generation are the
\* slot's: no handle outlives its slot, although generations wrap.
OneHandlePerSlot ==
  /\ \A h \in handles \cup dropping : Holds(h, h.kind)
  /\ \A h, k \in handles \cup dropping : h.slot = k.slot => h = k
  /\ \A i \in Slots \ Available : \E h \in handles \cup dropping : h.slot = i

\* in_use is the number of slots that are not available.
InUseExact == inUse = Cardinality(Slots \ Available)

\* No sequence of imports and drops is ever counted as an invalid transition.
NoInvalidTransition == ~invalid

\* A native allocation is gone before the slot it filled is available again.
NoPayloadInFreeSlot == \A h \in handles \cup dropping : h.payload => h.slot \notin Available

\* A surface whose drop has begun is an owned one that no caller holds any more.
DropsApart == \A h \in dropping : h.kind = "Owned" /\ h \notin handles

\* Together they are preserved by every lock section.
PoolInv ==
  /\ PoolTypeOK /\ OneHandlePerSlot /\ InUseExact
  /\ NoInvalidTransition /\ NoPayloadInFreeSlot /\ DropsApart
-----------------------------------------------------------------------------
(* Proof of PoolInv for any number of slots and of generation values *)

USE SMTT(40)

\* A slot's generation stays within its width (acquire).
LEMMA BumpedType == \A g \in 0 .. Generations - 1 : Bumped(g) \in 0 .. Generations - 1
BY PoolAssumption DEF Bumped

\* The held slots are finite, and at most Capacity.
LEMMA HeldFinite ==
  ASSUME NEW S, S \subseteq Slots
  PROVE  IsFiniteSet(S) /\ Cardinality(S) \in 0 .. Capacity
<1>1. IsFiniteSet(Slots) /\ Cardinality(Slots) = Capacity
  BY PoolAssumption, FS_Interval DEF Slots
<1>2. IsFiniteSet(S) /\ Cardinality(S) <= Cardinality(Slots)
  BY <1>1, FS_Subset
<1> QED
  BY <1>1, <1>2, FS_CardinalityType, PoolAssumption

\* A new pool has only available slots (SurfacePool::new).
LEMMA InitPoolInv == Init => PoolInv
<1> SUFFICES ASSUME Init PROVE PoolInv
  OBVIOUS
<1>1. Slots \ Available = {}
  BY DEF Init, Available, Slot
<1>2. InUseExact
  BY <1>1, FS_EmptySet DEF Init, InUseExact
<1>3. Slot(0, "Available", FALSE) \in [generation : 0 .. Generations - 1,
        reserved : BOOLEAN, state : {"Available"} \cup Kinds]
  BY PoolAssumption DEF Slot, Kinds
<1>4. slots \in [Slots -> [generation : 0 .. Generations - 1, reserved : BOOLEAN,
                          state : {"Available"} \cup Kinds]]
  BY ZenonT(40), <1>3 DEF Init
<1>5. inUse \in 0 .. Capacity
  BY PoolAssumption DEF Init
<1>6. invalid \in BOOLEAN /\ handles \subseteq Handles /\ dropping \subseteq Handles
  BY ZenonT(40) DEF Init
<1>7. OneHandlePerSlot /\ NoInvalidTransition /\ NoPayloadInFreeSlot /\ DropsApart
  BY <1>1 DEF Init, OneHandlePerSlot, NoInvalidTransition, NoPayloadInFreeSlot, DropsApart
<1> QED
  BY <1>2, <1>4, <1>5, <1>6, <1>7 DEF PoolInv, PoolTypeOK

\* Releasing the slot of a live handle always succeeds and frees exactly that slot.
LEMMA ReleaseExact ==
  ASSUME PoolInv, NEW h \in handles \cup dropping, Released(h, h.kind)
  PROVE  /\ slots' = [slots EXCEPT ![h.slot] = Slot(h.generation, "Available", FALSE)]
         /\ invalid' = invalid
         /\ inUse' \in 0 .. Capacity
         /\ InUseExact'
<1> USE DEF PoolInv
<1>1. Holds(h, h.kind) /\ h \in Handles
  BY DEF OneHandlePerSlot, PoolTypeOK
<1>2. /\ slots' = [slots EXCEPT ![h.slot] = Slot(h.generation, "Available", FALSE)]
      /\ inUse' = inUse - 1
      /\ invalid' = invalid
  BY ZenonT(40), <1>1 DEF Released
<1>3. h.slot \in Slots \ Available
  BY <1>1 DEF Handles, Available, Holds, Kinds
<1>4. (Slots \ Available)' = (Slots \ Available) \ {h.slot}
  BY <1>1, <1>2, <1>3 DEF Available, Slot, PoolTypeOK, Slots
<1>5. Cardinality((Slots \ Available)') = Cardinality(Slots \ Available) - 1
  BY ZenonT(40), <1>3, <1>4, HeldFinite, FS_RemoveElement
<1>6. InUseExact'
  BY <1>2, <1>5 DEF InUseExact
<1>7. inUse' \in 0 .. Capacity
  BY <1>6, <1>4, HeldFinite DEF InUseExact
<1> QED
  BY <1>2, <1>6, <1>7

\* A handle that goes with its slot leaves the others as they are.
LEMMA ReleaseKeeps ==
  ASSUME PoolInv, NEW h \in handles \cup dropping, Released(h, h.kind),
         handles' = handles \ {h}, dropping' = dropping \ {h}
  PROVE  PoolInv'
<1> USE DEF PoolInv
<1>1. /\ slots' = [slots EXCEPT ![h.slot] = Slot(h.generation, "Available", FALSE)]
      /\ invalid' = invalid /\ inUse' \in 0 .. Capacity /\ InUseExact'
  BY ZenonT(40), ReleaseExact
<1>2. h \in Handles
  BY DEF PoolTypeOK
<1>3. PoolTypeOK'
  BY <1>1, <1>2 DEF PoolTypeOK, Handles, Slot, Kinds
<1>4. \A k \in (handles \cup dropping)' : k \in handles \cup dropping /\ k.slot # h.slot
  BY DEF OneHandlePerSlot
<1>5. \A i \in Slots : i # h.slot => slots'[i] = slots[i]
  BY <1>1 DEF PoolTypeOK
<1>6. slots'[h.slot].state = "Available"
  BY <1>1, <1>2 DEF PoolTypeOK, Handles, Slot
<1>7. \A k \in (handles \cup dropping)' : k.slot \in Slots /\ slots'[k.slot] = slots[k.slot]
  BY <1>4, <1>5 DEF PoolTypeOK, Handles
<1>8. OneHandlePerSlot'
  <2>1. \A k \in (handles \cup dropping)' : Holds(k, k.kind)'
    BY <1>4, <1>7 DEF OneHandlePerSlot, Holds
  <2>2. \A k, l \in (handles \cup dropping)' : k.slot = l.slot => k = l
    BY <1>4 DEF OneHandlePerSlot
  <2>3. ASSUME NEW i \in Slots, i \notin Available'
        PROVE  \E k \in (handles \cup dropping)' : k.slot = i
    <3>1. i # h.slot /\ i \notin Available
      BY <2>3, <1>5, <1>6 DEF Available
    <3>2. PICK k \in handles \cup dropping : k.slot = i
      BY <3>1 DEF OneHandlePerSlot
    <3> QED
      BY <3>1, <3>2
  <2> QED
    BY <2>1, <2>2, <2>3 DEF OneHandlePerSlot
<1>9. NoPayloadInFreeSlot'
  BY <1>4, <1>7 DEF NoPayloadInFreeSlot, Available
<1> QED
  BY <1>1, <1>3, <1>8, <1>9 DEF NoInvalidTransition, DropsApart

\* A new lease takes a slot nobody holds (acquire_capture, reserve_destination).
LEMMA AcquireKeeps == \A reserved \in BOOLEAN : PoolInv /\ Acquire(reserved) => PoolInv'
<1> SUFFICES ASSUME NEW reserved \in BOOLEAN, PoolInv, Acquire(reserved) PROVE PoolInv'
  OBVIOUS
<1> USE DEF PoolInv
<1> DEFINE i == FirstAvailable
           g == Bumped(slots[i].generation)
           new == [slot |-> i, generation |-> g, kind |-> "CaptureLeased",
                   reserved |-> reserved, payload |-> FALSE]
<1>1. i \in Available
  <2>1. \E k \in Available : \A j \in Available : k <= j
    <3>1. Available # {} /\ Available \subseteq Nat
      BY PoolAssumption DEF Acquire, Available, Slots
    <3> DEFINE Less == {p \in Nat \X Nat : p[1] < p[2]}
    <3>2. IsWellFoundedOn(Less, Nat)
      BY NatLessThanWellFounded DEF OpToRel
    <3>3. \A m, n \in Nat : ~(<<m, n>> \in Less) => n <= m
      OBVIOUS
    <3> HIDE DEF Less
    <3>4. \E k \in Available : \A j \in Available : ~(<<j, k>> \in Less)
      BY ZenonT(40), <3>1, <3>2, WFMin
    <3> QED
      BY ZenonT(40), <3>1, <3>3, <3>4
  <2> QED
    BY <2>1 DEF FirstAvailable
<1>2. i \in Slots /\ slots[i].state = "Available" /\ g \in 0 .. Generations - 1
  BY <1>1, BumpedType DEF Available, PoolTypeOK
<1>3. /\ slots' = [slots EXCEPT ![i] = Slot(g, "CaptureLeased", reserved)]
      /\ handles' = handles \cup {new}
      /\ inUse' = inUse + 1 /\ invalid' = invalid /\ dropping' = dropping
  BY DEF Acquire
<1> HIDE DEF i, g
<1>new. /\ new \in Handles /\ new.slot = i /\ new.generation = g
      /\ new.kind = "CaptureLeased" /\ ~new.payload
  BY <1>2 DEF Handles, Kinds
<1> HIDE DEF new
<1>4. (Slots \ Available)' = (Slots \ Available) \cup {i}
  BY <1>2, <1>3 DEF Available, Slot, PoolTypeOK
<1>5. InUseExact' /\ inUse' \in 0 .. Capacity
  <2>1. Cardinality((Slots \ Available)') = Cardinality(Slots \ Available) + 1
    BY ZenonT(40), <1>1, <1>4, HeldFinite, FS_AddElement
  <2>2. Cardinality((Slots \ Available)') \in 0 .. Capacity
    BY <1>2, <1>4, HeldFinite
  <2> QED
    BY <1>3, <2>1, <2>2 DEF InUseExact
<1>6. PoolTypeOK'
  <2>1. Slot(g, "CaptureLeased", reserved) \in [generation : 0 .. Generations - 1,
          reserved : BOOLEAN, state : {"Available"} \cup Kinds]
    BY <1>2 DEF Slot, Kinds
  <2> QED
    BY <1>new, <1>2, <1>3, <1>5, <2>1 DEF PoolTypeOK
<1>7. \A k \in handles \cup dropping :
        k.slot \in Slots /\ k.slot # i /\ slots'[k.slot] = slots[k.slot]
  BY <1>2, <1>3 DEF OneHandlePerSlot, Holds, Kinds, PoolTypeOK, Handles
<1>8. slots'[i] = Slot(g, "CaptureLeased", reserved)
  BY <1>2, <1>3 DEF PoolTypeOK
<1>9. OneHandlePerSlot'
  <2>1. \A k \in (handles \cup dropping)' : Holds(k, k.kind)'
    BY <1>new, <1>3, <1>7, <1>8 DEF OneHandlePerSlot, Holds, Slot
  <2>2. \A k, l \in (handles \cup dropping)' : k.slot = l.slot => k = l
    BY <1>new, <1>3, <1>7 DEF OneHandlePerSlot
  <2>3. \A j \in Slots : j \notin Available' => \E k \in (handles \cup dropping)' : k.slot = j
    BY <1>new, <1>3, <1>4 DEF OneHandlePerSlot
  <2> QED
    BY <2>1, <2>2, <2>3 DEF OneHandlePerSlot
<1>10. NoPayloadInFreeSlot'
  BY <1>new, <1>3, <1>7 DEF NoPayloadInFreeSlot, Available
<1> QED
  BY <1>new, <1>3, <1>5, <1>6, <1>9, <1>10 DEF NoInvalidTransition, DropsApart

\* An import turns the one handle of its slot into the owned one (finish_import).
LEMMA FinishImportKeeps ==
  ASSUME PoolInv, NEW h \in handles, h.kind = "CaptureLeased", NEW payload \in BOOLEAN,
         FinishImport(h, payload), dropping' = dropping
  PROVE  PoolInv'
<1> USE DEF PoolInv
<1> DEFINE owned == [h EXCEPT !.kind = "Owned", !.payload = payload]
<1>1. Holds(h, "CaptureLeased") /\ h \in Handles /\ h.slot \in Slots
  BY DEF OneHandlePerSlot, PoolTypeOK, Handles
<1>2. /\ slots' = [slots EXCEPT ![h.slot].state = "Owned"]
      /\ handles' = (handles \ {h}) \cup {owned}
      /\ inUse' = inUse /\ invalid' = invalid
  BY <1>1 DEF FinishImport
<1>3. /\ owned \in Handles /\ owned.slot = h.slot /\ owned.generation = h.generation
      /\ owned.kind = "Owned"
  BY ZenonT(40), <1>1 DEF Handles, Kinds
<1> HIDE DEF owned
<1>4. PoolTypeOK'
  BY <1>1, <1>2, <1>3 DEF PoolTypeOK, Kinds
<1>5. /\ \A i \in Slots : i # h.slot => slots'[i] = slots[i]
      /\ slots'[h.slot].state = "Owned" /\ slots'[h.slot].generation = h.generation
  BY <1>1, <1>2 DEF PoolTypeOK, Holds
<1>6. Available' = Available
  BY <1>1, <1>5 DEF Available, Holds
<1>7. \A k \in (handles \ {h}) \cup dropping :
        k \in handles \cup dropping /\ k.slot \in Slots /\ k.slot # h.slot
  BY DEF OneHandlePerSlot, PoolTypeOK, Handles, DropsApart
<1>8. OneHandlePerSlot'
  <2>1. \A k \in (handles \cup dropping)' : Holds(k, k.kind)'
    BY <1>2, <1>3, <1>5, <1>7 DEF OneHandlePerSlot, Holds
  <2>2. \A k, l \in (handles \cup dropping)' : k.slot = l.slot => k = l
    BY <1>2, <1>3, <1>7 DEF OneHandlePerSlot
  <2>3. \A i \in Slots : i \notin Available' => \E k \in (handles \cup dropping)' : k.slot = i
    BY <1>2, <1>3, <1>6 DEF OneHandlePerSlot
  <2> QED
    BY <2>1, <2>2, <2>3 DEF OneHandlePerSlot
<1>9. h.slot \notin Available
  BY <1>1 DEF Available, Holds
<1>10. NoPayloadInFreeSlot' /\ DropsApart'
  BY <1>2, <1>3, <1>6, <1>7, <1>9 DEF NoPayloadInFreeSlot, DropsApart
<1> QED
  BY <1>2, <1>4, <1>6, <1>8, <1>10 DEF InUseExact, NoInvalidTransition

\* Freeing the allocation leaves the slot held until its release (OwnedSurface::drop).
LEMMA DropPayloadKeeps == \A h \in handles : PoolInv /\ DropPayload(h) => PoolInv'
<1> SUFFICES ASSUME NEW h \in handles, PoolInv, DropPayload(h) PROVE PoolInv'
  OBVIOUS
<1> USE DEF PoolInv
<1> DEFINE freed == [h EXCEPT !.payload = FALSE]
<1>1. /\ handles' = handles \ {h} /\ dropping' = dropping \cup {freed}
      /\ slots' = slots /\ inUse' = inUse /\ invalid' = invalid /\ Available' = Available
  BY DEF DropPayload, Available
<1>2. /\ freed \in Handles /\ freed.slot = h.slot /\ freed.generation = h.generation
      /\ freed.kind = "Owned" /\ h.kind = "Owned" /\ ~freed.payload
  BY ZenonT(40) DEF DropPayload, PoolTypeOK, Handles
<1> HIDE DEF freed
<1>3. \A k \in (handles \ {h}) \cup dropping :
        k \in handles \cup dropping /\ k.slot # h.slot
  BY DEF OneHandlePerSlot, DropsApart
<1>4. OneHandlePerSlot'
  <2>1. \A k \in (handles \cup dropping)' : Holds(k, k.kind)'
    BY <1>1, <1>2, <1>3 DEF OneHandlePerSlot, Holds
  <2>2. \A k, l \in (handles \cup dropping)' : k.slot = l.slot => k = l
    BY <1>1, <1>2, <1>3 DEF OneHandlePerSlot
  <2>3. \A i \in Slots : i \notin Available' => \E k \in (handles \cup dropping)' : k.slot = i
    BY <1>1, <1>2 DEF OneHandlePerSlot
  <2> QED
    BY <2>1, <2>2, <2>3 DEF OneHandlePerSlot
<1>5. PoolTypeOK' /\ NoPayloadInFreeSlot' /\ DropsApart'
  BY <1>1, <1>2, <1>3 DEF PoolTypeOK, NoPayloadInFreeSlot, DropsApart
<1> QED
  BY <1>1, <1>4, <1>5 DEF InUseExact, NoInvalidTransition

\* The conjuncts of PoolInv together survive every lock section: acquiring, importing,
\* and both halves of a drop, in any order and on any thread (acquire_capture,
\* finish_import, release_slot).
THEOREM PoolInvInductive == PoolInv /\ [Next]_vars => PoolInv'
<1> SUFFICES ASSUME PoolInv, [Next]_vars PROVE PoolInv'
  OBVIOUS
<1>1. ASSUME NEW reserved \in BOOLEAN, Acquire(reserved) PROVE PoolInv'
  BY <1>1, AcquireKeeps
<1>2. ASSUME NEW h \in handles, h.kind = "CaptureLeased", Released(h, "CaptureLeased"),
             handles' = handles \ {h}, UNCHANGED dropping
      PROVE  PoolInv'
  <2>1. dropping' = dropping \ {h}
    BY <1>2 DEF PoolInv, DropsApart
  <2> QED
    BY <1>2, <2>1, ReleaseKeeps
<1>3. ASSUME NEW h \in handles, NEW fromCapture \in BOOLEAN, NEW fits \in BOOLEAN,
             NEW payload \in BOOLEAN, Import(h, fromCapture, fits, payload)
      PROVE  PoolInv'
  <2>1. CASE fits /\ fromCapture = h.reserved
    BY <1>3, <2>1, FinishImportKeeps DEF Import
  <2>2. CASE ~(fits /\ fromCapture = h.reserved)
    BY <1>2, <1>3, <2>2 DEF Import
  <2> QED
    BY <2>1, <2>2
<1>4. ASSUME NEW h \in handles, DropLease(h) PROVE PoolInv'
  BY <1>2, <1>4 DEF DropLease
<1>5. ASSUME NEW h \in handles, DropPayload(h) PROVE PoolInv'
  BY <1>5, DropPayloadKeeps
<1>6. ASSUME NEW h \in dropping, DropOwned(h) PROVE PoolInv'
  <2>1. h.kind = "Owned" /\ handles' = handles \ {h}
    BY <1>6 DEF PoolInv, DropsApart, DropOwned
  <2> QED
    BY <1>6, <2>1, ReleaseKeeps DEF DropOwned
<1>7. CASE UNCHANGED vars
  BY <1>7 DEF vars, PoolInv, PoolTypeOK, OneHandlePerSlot, InUseExact, NoInvalidTransition,
     NoPayloadInFreeSlot, DropsApart, Available, Holds
<1> QED
  BY <1>1, <1>3, <1>4, <1>5, <1>6, <1>7 DEF Next

\* Whatever the number of slots and of generation values, every held slot has one
\* handle of its own generation, in_use is exact, no release is ever refused, and no
\* free slot still holds an allocation (SurfacePool).
THEOREM PoolCorrect == Spec => []PoolInv
<1>1. Init => PoolInv
  BY InitPoolInv
<1>2. PoolInv /\ [Next]_vars => PoolInv'
  BY PoolInvInductive
<1> QED
  BY <1>1, <1>2, PTL DEF Spec
=============================================================================
