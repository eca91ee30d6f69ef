------------------------------- MODULE Richards -----------------------------
(***************************************************************************)
(* multithread/multithread-richards.py: the operating-system kernel        *)
(* simulation.  Six tasks pass eight packets to one another; schedule()    *)
(* walks the list of tasks by priority and runs the one that can run.      *)
(* Queues of packets are linked lists that share the one link field of a   *)
(* packet, and the links are modelled as such, stale values included.      *)
(* The letters in the packets are left out; the index of the next letter   *)
(* is not, for it decides what a handler does.                             *)
(***************************************************************************)
EXTENDS Integers, Sequences, FiniteSets

CONSTANTS IdleCount    \* the count the idle task starts with

ASSUME RichardsAssumption == IdleCount \in Nat \ {0}

Nil == 0

\* task identities, in the order of creation: the list is walked downwards
Idle == 1
Work == 2
HandlerA == 3
HandlerB == 4
DevA == 5
DevB == 6
Tasks    == 1..6
Handlers == {HandlerA, HandlerB}
Devices  == {DevA, DevB}

Priority == [t \in Tasks |-> IF t = Idle THEN 0 ELSE (t - 1) * 1000]

Packets == 1..8
IsWork(p) == p \in {1, 2}     \* kind = K_WORK
BufSize == 4
MaxWord == 65535

VARIABLES cur,       \* the task schedule() looks at, or Nil at the end
          input,     \* input[t]: head of the packets sent to t
          pending, waiting, holding,   \* the three flags of TaskState
          link,      \* link[p]: the packet after p in its list
          ident,     \* ident[p]: where p goes when it is sent
          datum,     \* datum[p]: the index of the next letter
          workIn, deviceIn,   \* the lists of a handler
          devPending,         \* the packet a device works on
          dest,               \* the handler the worker sent its last packet to
          control, count,     \* of the idle task
          holdCount, qpktCount

flags == <<pending, waiting, holding>>
recs  == <<workIn, deviceIn, devPending, dest, control, count>>
kernelVars == <<cur, input, flags, link, ident, datum, recs, holdCount, qpktCount>>

RichardsTypeOK == /\ cur \in Tasks \union {Nil}
                  /\ input \in [Tasks -> Packets \union {Nil}]
                  /\ pending \in [Tasks -> BOOLEAN]
                  /\ waiting \in [Tasks -> BOOLEAN]
                  /\ holding \in [Tasks -> BOOLEAN]
                  /\ link \in [Packets -> Packets \union {Nil}]
                  /\ ident \in [Packets -> Tasks \union {0}]
                  /\ datum \in [Packets -> 0..BufSize]
                  /\ workIn \in [Handlers -> Packets \union {Nil}]
                  /\ deviceIn \in [Handlers -> Packets \union {Nil}]
                  /\ devPending \in [Devices -> Packets \union {Nil}]
                  /\ dest \in Handlers
                  /\ control \in 0..MaxWord
                  /\ count \in 0..IdleCount
                  /\ holdCount \in Nat
                  /\ qpktCount \in Nat

(* Richards.run: two work packets for the worker, three device packets for *)
(* each handler, each list built from its end.                             *)
RichardsInit == /\ cur = DevB
                /\ input = [t \in Tasks |-> CASE t = Work -> 2 [] t = HandlerA -> 5
                                              [] t = HandlerB -> 8 [] OTHER -> Nil]
                /\ pending = [t \in Tasks |-> t \in {Work} \union Handlers]
                /\ waiting = [t \in Tasks |-> t # Idle]
                /\ holding = [t \in Tasks |-> FALSE]
                /\ link = [p \in Packets |-> IF p \in {1, 3, 6} THEN Nil ELSE p - 1]
                /\ ident = [p \in Packets |-> IF IsWork(p) THEN 0 ELSE IF p <= 5 THEN DevA ELSE DevB]
                /\ datum = [p \in Packets |-> 0]
                /\ workIn = [h \in Handlers |-> Nil]
                /\ deviceIn = [h \in Handlers |-> Nil]
                /\ devPending = [d \in Devices |-> Nil]
                /\ dest = HandlerA
                /\ control = 1
                /\ count = IdleCount
                /\ holdCount = 0
                /\ qpktCount = 0

-----------------------------------------------------------------------------
(* The last packet of the list that begins with p. *)
LastOf(links, p) == LET last[q \in Packets] == IF links[q] = Nil THEN q ELSE last[links[q]]
                  IN  last[p]

(* Defect: Packet.append_to keeps the old link of the packet. *)
AppendToStale(links, p, head) ==
  IF head = Nil THEN links ELSE [links EXCEPT ![LastOf(links, head)] = p]

(* Packet.append_to: the links once p has been added to the list of head. *)
AppendTo(links, p, head) ==
  LET cut == [links EXCEPT ![p] = Nil]
  IN  IF head = Nil THEN cut ELSE [cut EXCEPT ![LastOf(cut, head)] = p]

HeadOr(head, p) == IF head = Nil THEN p ELSE head

-----------------------------------------------------------------------------
(* schedule() skips a task that holds, or waits and has no packet. *)
HoldingOrWaiting(t) == holding[t] \/ (~pending[t] /\ waiting[t])

Skip == /\ cur # Nil
        /\ HoldingOrWaiting(cur)
        /\ cur' = cur - 1
        /\ UNCHANGED <<input, flags, link, ident, datum, recs, holdCount, qpktCount>>

(* runTask hands fn the first packet if the task was waiting for one. *)
TakesPacket == pending[cur] /\ waiting[cur] /\ ~holding[cur]
Msg == IF TakesPacket THEN input[cur] ELSE Nil

\* the input queue and the flags of the task once the packet is taken
InputNow   == IF TakesPacket THEN [input EXCEPT ![cur] = link[Msg]] ELSE input
PendingNow == IF TakesPacket THEN [pending EXCEPT ![cur] = link[Msg] # Nil] ELSE pending
WaitingNow == IF TakesPacket THEN [waiting EXCEPT ![cur] = FALSE] ELSE waiting

Runs(ts) == cur \in ts /\ ~HoldingOrWaiting(cur)

(* Defect: the task is not marked as waiting. *)
WaitTaskUnmarked == /\ waiting' = WaitingNow
                    /\ pending' = PendingNow
                    /\ input' = InputNow
                    /\ UNCHANGED <<cur, holding, ident, holdCount, qpktCount>>

(* waitTask *)
WaitTask == /\ waiting' = [WaitingNow EXCEPT ![cur] = TRUE]
            /\ pending' = PendingNow
            /\ input' = InputNow
            /\ UNCHANGED <<cur, holding, ident, holdCount, qpktCount>>

(* hold *)
HoldTask == /\ holding' = [holding EXCEPT ![cur] = TRUE]
            /\ holdCount' = holdCount + 1
            /\ waiting' = WaitingNow
            /\ pending' = PendingNow
            /\ input' = InputNow
            /\ cur' = cur - 1
            /\ UNCHANGED <<ident, qpktCount>>

(* Defect: the receiver's flag is not set. *)
QpktUnflagged(p, to, links) ==
  /\ qpktCount' = qpktCount + 1
  /\ ident' = [ident EXCEPT ![p] = cur]
  /\ IF InputNow[to] = Nil
       THEN /\ input' = [InputNow EXCEPT ![to] = p]
            /\ link' = [links EXCEPT ![p] = Nil]
            /\ cur' = IF Priority[to] > Priority[cur] THEN to ELSE cur
       ELSE /\ link' = AppendTo(links, p, InputNow[to])
            /\ UNCHANGED cur
            /\ input' = InputNow
  /\ pending' = PendingNow
  /\ waiting' = WaitingNow
  /\ UNCHANGED <<holding, holdCount>>

(* qpkt and addPacket: packet p goes to task "to", and so does control if  *)
(* that had no packet and a higher priority.                               *)
Qpkt(p, to, links) ==
  /\ qpktCount' = qpktCount + 1
  /\ ident' = [ident EXCEPT ![p] = cur]
  /\ IF InputNow[to] = Nil
       THEN /\ input' = [InputNow EXCEPT ![to] = p]
            /\ pending' = [PendingNow EXCEPT ![to] = TRUE]
            /\ link' = [links EXCEPT ![p] = Nil]
            /\ cur' = IF Priority[to] > Priority[cur] THEN to ELSE cur
       ELSE /\ link' = AppendTo(links, p, InputNow[to])
            /\ UNCHANGED cur
            /\ input' = InputNow
            /\ pending' = PendingNow
  /\ waiting' = WaitingNow
  /\ UNCHANGED <<holding, holdCount>>

-----------------------------------------------------------------------------
(* DeviceTask.fn *)
DeviceWaits == /\ Runs(Devices) /\ Msg = Nil /\ devPending[cur] = Nil
               /\ WaitTask
               /\ UNCHANGED <<link, datum, recs>>

DeviceSends == /\ Runs(Devices) /\ Msg = Nil /\ devPending[cur] # Nil
               /\ devPending' = [devPending EXCEPT ![cur] = Nil]
               /\ Qpkt(devPending[cur], ident[devPending[cur]], link)
               /\ UNCHANGED <<datum, workIn, deviceIn, dest, control, count>>

DeviceHolds == /\ Runs(Devices) /\ Msg # Nil
               /\ devPending' = [devPending EXCEPT ![cur] = Msg]
               /\ HoldTask
               /\ UNCHANGED <<link, datum, workIn, deviceIn, dest, control, count>>

(* HandlerTask.fn: the message, if any, joins one of the two lists first. *)
WorkNow   == IF Msg # Nil /\ IsWork(Msg)  THEN HeadOr(workIn[cur], Msg) ELSE workIn[cur]
DeviceNow == IF Msg # Nil /\ ~IsWork(Msg) THEN HeadOr(deviceIn[cur], Msg) ELSE deviceIn[cur]
LinkNow   == IF Msg = Nil THEN link
             ELSE AppendTo(link, Msg, IF IsWork(Msg) THEN workIn[cur] ELSE deviceIn[cur])

HandlerWaits ==
  /\ Runs(Handlers)
  /\ WorkNow # Nil => (datum[WorkNow] < BufSize /\ DeviceNow = Nil)
  /\ workIn' = [workIn EXCEPT ![cur] = WorkNow]
  /\ deviceIn' = [deviceIn EXCEPT ![cur] = DeviceNow]
  /\ link' = LinkNow
  /\ WaitTask
  /\ UNCHANGED <<datum, devPending, dest, control, count>>

HandlerReturnsWork ==
  /\ Runs(Handlers)
  /\ WorkNow # Nil /\ datum[WorkNow] >= BufSize
  /\ workIn' = [workIn EXCEPT ![cur] = LinkNow[WorkNow]]
  /\ deviceIn' = [deviceIn EXCEPT ![cur] = DeviceNow]
  /\ Qpkt(WorkNow, ident[WorkNow], LinkNow)
  /\ UNCHANGED <<datum, devPending, dest, control, count>>

HandlerFeedsDevice ==
  /\ Runs(Handlers)
  /\ WorkNow # Nil /\ datum[WorkNow] < BufSize /\ DeviceNow # Nil
  /\ workIn' = [workIn EXCEPT ![cur] = WorkNow]
  /\ deviceIn' = [deviceIn EXCEPT ![cur] = LinkNow[DeviceNow]]
  /\ datum' = [datum EXCEPT ![WorkNow] = @ + 1]
  /\ Qpkt(DeviceNow, ident[DeviceNow], LinkNow)
  /\ UNCHANGED <<devPending, dest, control, count>>

(* IdleTask.fn: ^ 0xd008 flips bits 3, 12, 14 and 15. *)
Flip(x, b) == IF (x \div b) % 2 = 0 THEN x + b ELSE x - b
XorD008(x) == Flip(Flip(Flip(Flip(x, 8), 4096), 16384), 32768)

IdleHolds == /\ Runs({Idle}) /\ count = 1
             /\ count' = 0
             /\ HoldTask
             /\ UNCHANGED <<link, datum, workIn, deviceIn, devPending, dest, control>>

(* Defect: the wrong device is released. *)
IdleReleasesOther ==
  /\ Runs({Idle}) /\ count # 1
  /\ count' = count - 1
  /\ LET d == IF control % 2 = 0 THEN DevB ELSE DevA
     IN  /\ holding' = [holding EXCEPT ![d] = FALSE]
         /\ cur' = IF Priority[d] > Priority[cur] THEN d ELSE cur
  /\ control' = IF control % 2 = 0 THEN control \div 2 ELSE XorD008(control \div 2)
  /\ UNCHANGED <<input, pending, waiting, link, ident, datum, workIn, deviceIn, devPending,
                 dest, holdCount, qpktCount>>

IdleReleases ==
  /\ Runs({Idle}) /\ count # 1
  /\ count' = count - 1
  /\ LET d == IF control % 2 = 0 THEN DevA ELSE DevB
     IN  /\ holding' = [holding EXCEPT ![d] = FALSE]
         /\ cur' = IF Priority[d] > Priority[cur] THEN d ELSE cur
  /\ control' = IF control % 2 = 0 THEN control \div 2 ELSE XorD008(control \div 2)
  /\ UNCHANGED <<input, pending, waiting, link, ident, datum, workIn, deviceIn, devPending,
                 dest, holdCount, qpktCount>>

(* WorkTask.fn: the packet is refilled for the other handler. *)
WorkWaits == /\ Runs({Work}) /\ Msg = Nil
             /\ WaitTask
             /\ UNCHANGED <<link, datum, recs>>

WorkSends ==
  /\ Runs({Work}) /\ Msg # Nil
  /\ dest' = IF dest = HandlerA THEN HandlerB ELSE HandlerA
  /\ datum' = [datum EXCEPT ![Msg] = 0]
  /\ Qpkt(Msg, dest', link)
  /\ UNCHANGED <<workIn, deviceIn, devPending, control, count>>

-----------------------------------------------------------------------------
RichardsNext == \/ Skip
                \/ DeviceWaits \/ DeviceSends \/ DeviceHolds
                \/ HandlerWaits \/ HandlerReturnsWork \/ HandlerFeedsDevice
                \/ IdleHolds \/ IdleReleases
                \/ WorkWaits \/ WorkSends

RichardsSpec == RichardsInit /\ [][RichardsNext]_kernelVars /\ WF_kernelVars(RichardsNext)

-----------------------------------------------------------------------------
(* The packets of the list that begins with p; cut after a full round, so  *)
(* that a cycle shows as a packet that comes twice.                        *)
Chain(p) == LET from[k \in 0..9] ==
                  [q \in Packets \union {Nil} |->
                     IF q = Nil \/ k = 0 THEN <<>> ELSE <<q>> \o from[k - 1][link[q]]]
            IN  from[9][p]

Only(p) == IF p = Nil THEN <<>> ELSE <<p>>

(* Every packet is in exactly one list exactly once, or is the one a       *)
(* device works on: although the lists share one link field, none is       *)
(* joined to another, closed to a cycle or loses its tail.                 *)
PacketsKept ==
  LET lists == {<<"input", t, Chain(input[t])>> : t \in Tasks} \union
               {<<"work", h, Chain(workIn[h])>> : h \in Handlers} \union
               {<<"device", h, Chain(deviceIn[h])>> : h \in Handlers} \union
               {<<"pending", d, Only(devPending[d])>> : d \in Devices}
      places(p) == {place \in lists \X (1..9) :
                      /\ place[2] <= Len(place[1][3])
                      /\ place[1][3][place[2]] = p}
  IN  \A p \in Packets : Cardinality(places(p)) = 1

(* The flag a task is scheduled by says whether it has a packet, through   *)
(* every send, receive and release.                                        *)
PendingIsInput == \A t \in Tasks : pending[t] <=> input[t] # Nil

(* The counts of the check in Richards.run, the benchmark's own test of a  *)
(* correct schedule.                                                       *)
RightCounts == cur = Nil => holdCount = 9297 /\ qpktCount = 23246

=============================================================================
