--------------------------- MODULE CircularBuffer ---------------------------
(***************************************************************************)
(* The ring in which the express server keeps segments between the         *)
(* consumer callback and the search that reads them                        *)
(* (src/express-server/src/segments/circular_buffer.ts).  Neither write    *)
(* nor read looks at the other's index: write overwrites what was not read *)
(* and read returns null from an empty slot, and both move on.             *)
(***************************************************************************)
EXTENDS Naturals

CONSTANTS
    Capacity,   \* the size given to the constructor
    Null        \* the content of an empty slot

ASSUME CapacityAssumption == Capacity \in Nat \ {0}

Indices == 0..(Capacity - 1)

NewBuffer == [queue |-> [i \in Indices |-> Null],
              readIndex |-> 0, writeIndex |-> 0]

----------------------------------------------------------------------------
(* Mutated forms of the operators below, each a bug that a property of the *)
(* modules that use the buffer must expose.                                *)

\* The slot is not set to null.
AfterReadKept(b) == [b EXCEPT !.readIndex = (@ + 1) % Capacity]

\* The write index does not move.
WrittenInPlace(b, data) == [b EXCEPT !.queue[b.writeIndex] = data]

----------------------------------------------------------------------------

\* inUseSize() > 0
InUse(b) == \E i \in Indices : b.queue[i] # Null

ToRead(b) == b.queue[b.readIndex]

AfterRead(b) ==
    [b EXCEPT !.queue[b.readIndex] = Null,
              !.readIndex = (@ + 1) % Capacity]

Written(b, data) ==
    [b EXCEPT !.queue[b.writeIndex] = data,
              !.writeIndex = (@ + 1) % Capacity]
=============================================================================
