----------------------------- MODULE ShortRange -----------------------------
(***************************************************************************)
(* The short-range monitor (src/shortrange/monitor.cpp): captures are      *)
(* copied and queued under a byte budget, one worker decodes them, and the *)
(* Bluetooth senders are listed and linked when a private address seems to *)
(* follow an earlier one.                                                  *)
(*                                                                         *)
(* What a capture contains is any few packets, in order.  Layout, carrier  *)
(* offset and power decide which earlier address a new one follows: here   *)
(* any eligible one, or none.  Fields of packets are left out.             *)
(***************************************************************************)
EXTENDS Naturals, Sequences, FiniteSets

CONSTANTS
  Addresses, NoAddress,
  SrDevices,      \* Limits::ble_devices
  SrQueue,        \* Limits::queued_captures
  SrBytes,        \* Limits::queued_bytes, in captures of size 1
  LinkPackets,    \* kLinkPackets
  SrMaxCaptures, SrMaxPackets, SrMaxClears  \* bounds: captures, packets in each, clears

ASSUME ShortRangeAssumption ==
  /\ IsFiniteSet(Addresses) /\ NoAddress \notin Addresses
  /\ SrDevices \in Nat \ {0}
  /\ {SrQueue, SrBytes, LinkPackets, SrMaxCaptures, SrMaxPackets, SrMaxClears} \subseteq Nat

VARIABLES
  srObserve,   \* where observe() is, and what it has reserved
  pendingSr,   \* pending_: the sizes of the queued captures
  pendingBytes,\* pending_bytes_
  srWorker,    \* where run() is: at, the capture's size, the packets left
  ble,         \* ble_: the listed addresses
  nextOrder, captureIndex,
  srCount      \* captures offered, lists cleared

srVars == <<srObserve, pendingSr, pendingBytes, srWorker, ble, nextOrder, captureIndex,
            srCount>>

NoDevice == [order |-> 0, group |-> 0, successor |-> NoAddress, packets |-> 0,
             first |-> 0, last |-> 0, checked |-> FALSE]
SrIdle == [at |-> "idle", bytes |-> 0, left |-> 0]

SrInit ==
  /\ srObserve = SrIdle
  /\ pendingSr = <<>> /\ pendingBytes = 0
  /\ srWorker = SrIdle
  /\ ble = [a \in Addresses |-> NoDevice]
  /\ nextOrder = 1 /\ captureIndex = 0
  /\ srCount = [captures |-> 0, clears |-> 0]

Listed == {a \in Addresses : ble[a].order > 0}

\* process() holds the mutex while it takes in the packets of a capture.
SrMutexFree == srWorker.at # "ingest"

-----------------------------------------------------------------------------
(* observe(): the budget is reserved, the copy made with the mutex not held *)

SrReserve ==
  /\ srObserve.at = "idle" /\ SrMutexFree
  /\ srCount.captures < SrMaxCaptures
  /\ srCount' = [srCount EXCEPT !.captures = @ + 1]
  /\ \E bytes \in 1..2 :
       IF Len(pendingSr) >= SrQueue \/ pendingBytes + bytes > SrBytes
         THEN UNCHANGED <<srObserve, pendingBytes>>
         ELSE /\ pendingBytes' = pendingBytes + bytes
              /\ srObserve' = [at |-> "copy", bytes |-> bytes, left |-> 0]
  /\ UNCHANGED <<pendingSr, srWorker, ble, nextOrder, captureIndex>>

SrPush ==
  /\ srObserve.at = "copy" /\ SrMutexFree
  /\ pendingSr' = Append(pendingSr, srObserve.bytes)
  /\ srObserve' = SrIdle
  /\ UNCHANGED <<pendingBytes, srWorker, ble, nextOrder, captureIndex, srCount>>

\* Defect: the reservation is kept.
SrKeepReservation == UNCHANGED pendingBytes

SrRelease == pendingBytes' = pendingBytes - srObserve.bytes

\* The copy could not be allocated.
SrCopyFails ==
  /\ srObserve.at = "copy" /\ SrMutexFree
  /\ SrRelease
  /\ srObserve' = SrIdle
  /\ UNCHANGED <<pendingSr, srWorker, ble, nextOrder, captureIndex, srCount>>

-----------------------------------------------------------------------------
(* run() and process() *)

SrTake ==
  /\ srWorker.at = "idle" /\ pendingSr # <<>>
  /\ srWorker' = [at |-> "decode", bytes |-> Head(pendingSr), left |-> 0]
  /\ pendingSr' = Tail(pendingSr)
  /\ UNCHANGED <<srObserve, pendingBytes, ble, nextOrder, captureIndex, srCount>>

SrDecodeFails ==
  /\ srWorker.at = "decode"
  /\ srWorker' = [srWorker EXCEPT !.at = "release"]
  /\ UNCHANGED <<srObserve, pendingSr, pendingBytes, ble, nextOrder, captureIndex,
                 srCount>>

SrDecoded ==
  /\ srWorker.at = "decode"
  /\ \E n \in 0..SrMaxPackets :
       srWorker' = [srWorker EXCEPT !.at = "ingest", !.left = n]
  /\ captureIndex' = captureIndex + 1
  /\ UNCHANGED <<srObserve, pendingSr, pendingBytes, ble, nextOrder, srCount>>

SrDone ==
  /\ srWorker.at = "ingest" /\ srWorker.left = 0
  /\ srWorker' = [srWorker EXCEPT !.at = "release"]
  /\ UNCHANGED <<srObserve, pendingSr, pendingBytes, ble, nextOrder, captureIndex,
                 srCount>>

SrGiveBack ==
  /\ srWorker.at = "release" /\ SrMutexFree
  /\ pendingBytes' = pendingBytes - srWorker.bytes
  /\ srWorker' = SrIdle
  /\ UNCHANGED <<srObserve, pendingSr, ble, nextOrder, captureIndex, srCount>>

-----------------------------------------------------------------------------
(* ingest_ble(): one packet of one sender, an advertisement or not *)

\* evict_oldest: the address heard least recently goes, whoever refers to it.
Evict(list) ==
  IF Cardinality({a \in Addresses : list[a].order > 0}) < SrDevices THEN {list}
  ELSE LET listed == {a \in Addresses : list[a].order > 0}
           oldest == {a \in listed : \A b \in listed : list[a].last <= list[b].last}
       IN {[list EXCEPT ![a] = NoDevice] : a \in oldest}

\* The list with d at address a.
SrPut(list, a, d) == [b \in Addresses |-> IF b = a THEN d ELSE list[b]]

\* ble_device: the entry of the sender, made when it is new.
Enter(list, a) ==
  IF list[a].order > 0 THEN list
  ELSE SrPut(list, a, [NoDevice EXCEPT !.order = nextOrder, !.group = nextOrder,
                                     !.first = captureIndex])

\* The chain of successors from a on, as far as they are listed.
IsChain(list, a, C) ==
  a \in C /\ \A b \in C, d \in Addresses : list[b].successor = d /\ list[d].order > 0 => d \in C
Chain(list, a) == {b \in Addresses : \A C \in SUBSET Addresses : IsChain(list, a, C) => b \in C}

\* Defect: an address heard again stays linked to the one that followed it.
KeepSuccessor(list, a) == list

\* unlink_successor: the addresses that followed become a group of their own.
UnlinkSuccessor(list, a) ==
  LET s == list[a].successor
      cut == SrPut(list, a, [list[a] EXCEPT !.successor = NoAddress])
  IN IF s = NoAddress \/ list[s].order = 0 THEN cut
     ELSE [b \in Addresses |->
             IF b \in Chain(list, s) THEN [cut[b] EXCEPT !.group = list[s].order] ELSE cut[b]]

Heard(list, a) ==
  SrPut(list, a, [list[a] EXCEPT !.last = captureIndex,
                               !.packets = IF @ < LinkPackets THEN @ + 1 ELSE @])

\* link_rotating: the addresses a may follow.
Followable(list, a) ==
  {c \in Addresses \ {a} :
     /\ list[c].order \in 1..list[a].order
     /\ list[c].successor = NoAddress
     /\ list[c].last < list[a].first}

\* Ambiguous, or nothing similar; or the similar one.
Linked(list, a) ==
  IF list[a].checked \/ list[a].packets < LinkPackets THEN {list}
  ELSE LET tried(group) == SrPut(list, a, [list[a] EXCEPT !.checked = TRUE, !.group = group])
       IN {tried(list[a].group)} \cup
          {SrPut(tried(list[c].group), c, [list[c] EXCEPT !.successor = a]) :
             c \in Followable(list, a)}

IngestBle(a) ==
  /\ srWorker.at = "ingest" /\ srWorker.left > 0
  /\ srWorker' = [srWorker EXCEPT !.left = @ - 1]
  /\ \E room \in IF a \in Listed THEN {ble} ELSE Evict(ble), advertisement \in BOOLEAN :
       ble' \in IF advertisement
                THEN Linked(Heard(UnlinkSuccessor(Enter(room, a), a), a), a)
                ELSE {Heard(UnlinkSuccessor(Enter(room, a), a), a)}
  /\ nextOrder' = IF a \in Listed THEN nextOrder ELSE nextOrder + 1
  /\ UNCHANGED <<srObserve, pendingSr, pendingBytes, captureIndex, srCount>>

\* clear() of the operator: what is decoded meanwhile starts the lists again.
SrClear ==
  /\ SrMutexFree
  /\ srCount.clears < SrMaxClears
  /\ srCount' = [srCount EXCEPT !.clears = @ + 1]
  /\ ble' = [a \in Addresses |-> NoDevice]
  /\ UNCHANGED <<srObserve, pendingSr, pendingBytes, srWorker, nextOrder, captureIndex>>

-----------------------------------------------------------------------------
SrObserver == SrPush \/ SrCopyFails
SrWorkerStep == SrTake \/ SrDecodeFails \/ SrDecoded \/ SrDone \/ SrGiveBack
                \/ \E a \in Addresses : IngestBle(a)

SrNext == SrReserve \/ SrObserver \/ SrWorkerStep \/ SrClear
SrSpec == SrInit /\ [][SrNext]_srVars

-----------------------------------------------------------------------------
(* Properties *)

\* While an address was listed: the captures it was heard in since its entry.
SpanOf(a) == ble[a].first .. ble[a].last

\* Two addresses shown as one probable device were never on air together: their
\* spans do not meet, whatever was heard again, evicted or cleared.  And whoever
\* is linked to a listed successor is in its group.
SrGroupsSound ==
  SrMutexFree =>
    \A a, b \in Listed :
      a # b =>
        /\ ble[a].group = ble[b].group => SpanOf(a) \cap SpanOf(b) = {}
        /\ ble[a].successor = b => ble[a].group = ble[b].group

BytesOf(sizes) ==
  LET total[k \in 0..Len(sizes)] == IF k = 0 THEN 0 ELSE total[k - 1] + sizes[k]
  IN total[Len(sizes)]

\* The budget is exactly what the copy, the queue and the worker hold.
SrBudget ==
  /\ pendingBytes = srObserve.bytes + srWorker.bytes + BytesOf(pendingSr)
  /\ pendingBytes <= SrBytes

\* What is shown of the senders is true, and what is held of their captures is
\* what was reserved (monitor.cpp: ingest_ble, link_rotating, observe, run).
SrSound == SrGroupsSound /\ SrBudget
=============================================================================
