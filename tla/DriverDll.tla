------------------------------ MODULE DriverDll ------------------------------
(***************************************************************************)
(* The DLL of the ASIO driver as COM sees it: the class factory, the       *)
(* pointers that the host has on the driver, and the counts by which a     *)
(* driver deletes itself and the DLL says whether it may be unloaded.      *)
(*                                                                         *)
(* One driver.  Hosts get it by CoCreateInstance, which makes a factory,   *)
(* uses it once and releases it; nobody calls LockServer, and no driver is *)
(* part of another object.                                                 *)
(***************************************************************************)
EXTENDS Integers

CONSTANT MaxPointers   \* bound of the model

VARIABLES
  mapped,     \* whether the DLL is in the process of the host
  factory,    \* m_cRef of the class factory, 0 if there is none
  objects,    \* m_cObjects, the drivers that exist
  refs,       \* m_cRef of the driver
  pointers    \* the pointers on the driver that the host holds

Init ==
  /\ mapped = FALSE
  /\ factory = 0 /\ objects = 0 /\ refs = 0
  /\ pointers = 0

\* The host loads the DLL and asks it for a factory.
GetClassObject ==
  /\ ~mapped
  /\ mapped' = TRUE
  /\ factory' = 1
  /\ UNCHANGED <<objects, refs, pointers>>

\* What a count comes to when the interface that was asked for is one of the
\* driver's, which counts it, or is refused.
QueryInterface(known, count) == IF known THEN count + 1 ELSE count

\* The query not wrapped: its pointer is all that the last release leaves.
BadCreateInstance(known) ==
  /\ factory > 0
  /\ refs' = QueryInterface(known, 0) - (IF known THEN 1 ELSE 0)
  /\ objects' = IF refs' > 0 THEN objects + 1 ELSE objects
  /\ pointers' = IF known THEN 1 ELSE 0
  /\ UNCHANGED <<mapped, factory>>

\* NonDelegatingAddRef, NonDelegatingQueryInterface, NonDelegatingRelease: a
\* driver whose interface was refused deletes itself.
CreateInstance(known) ==
  /\ factory > 0
  /\ refs' = QueryInterface(known, 0 + 1) - 1
  /\ objects' = IF refs' > 0 THEN objects + 1 ELSE objects
  /\ pointers' = IF known THEN 1 ELSE 0
  /\ UNCHANGED <<mapped, factory>>

ReleaseFactory ==
  /\ factory > 0
  /\ factory' = factory - 1
  /\ UNCHANGED <<mapped, objects, refs, pointers>>

\* The host passes its pointer on.
AddRef ==
  /\ pointers \in 1 .. MaxPointers - 1
  /\ refs' = refs + 1
  /\ pointers' = pointers + 1
  /\ UNCHANGED <<mapped, factory, objects>>

\* The driver deletes itself with the last pointer.
Release ==
  /\ pointers > 0
  /\ refs' = refs - 1
  /\ objects' = IF refs' = 0 THEN objects - 1 ELSE objects
  /\ pointers' = pointers - 1
  /\ UNCHANGED <<mapped, factory>>

\* DllCanUnloadNow.
CanUnload == objects = 0

\* COM asks for it when the host has no call into the DLL under way.
Unload ==
  /\ mapped
  /\ CanUnload
  /\ mapped' = FALSE
  /\ UNCHANGED <<factory, objects, refs, pointers>>

TypeOK ==
  /\ mapped \in BOOLEAN
  /\ factory \in 0 .. 1
  /\ objects \in 0 .. 1
  /\ refs \in 0 .. MaxPointers
  /\ pointers \in 0 .. MaxPointers

\* A pointer that the host holds leads to a driver that exists, in a DLL that
\* is there.
PointersAreGood == pointers > 0 => mapped /\ objects > 0

=============================================================================
