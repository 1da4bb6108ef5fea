--------------------------- MODULE OHAudioBuffer ---------------------------
(***************************************************************************)
(* The shared-memory ring buffer of services/audio_service/common:         *)
(* OHAudioBufferBase keeps three atomics in memory mapped by two processes *)
(* (basePosInFrame, curReadFrame, curWriteFrame) and a data area of        *)
(* totalSizeInFrame_ frames.  Every method is a sequence of separate       *)
(* atomic loads and stores, and this module models each of them as a step: *)
(* a thread t that executes a method is at opc[t] inside it, and keeps the *)
(* values it has loaded in its registers.                                  *)
(*                                                                         *)
(* The module declares the state and the steps; the modules that EXTEND it *)
(* say which threads call which method (AudioBufferSpsc, CapturerDataPath).*)
(***************************************************************************)
EXTENDS Integers

CONSTANTS
    Threads,  \* the threads, of both processes, that call the buffer
    Total     \* totalSizeInFrame_

ASSUME TotalAssumption == Total \in Nat \ {0}

VARIABLES
    basePosInFrame,  \* position of slot 0 of the lap the reader is in
    curReadFrame,    \* next position to read
    curWriteFrame,   \* next position to write
    frames,          \* the data area: the position whose audio a slot holds
    opc,             \* where a thread is inside a buffer method
    pos,             \* the method's position argument
    seenBase,        \* register: base position loaded by the method
    seenPos,         \* register: cursor loaded by the method
    size,            \* result: frames in the returned RingBufferWrapper
    offset           \* result: slot of its first frame

cursors == <<basePosInFrame, curReadFrame, curWriteFrame>>
regs    == <<pos, seenBase, seenPos, size, offset>>
bufVars == <<basePosInFrame, curReadFrame, curWriteFrame, frames,
             opc, pos, seenBase, seenPos, size, offset>>

Slots   == 0 .. Total - 1
Silence == -1   \* a slot that was zeroed (memset) and not written since

(* A method that has returned leaves its caller at one of these.           *)
Returned == {"idle", "done", "ok", "err"}

BufInit ==
    /\ basePosInFrame = 0 /\ curReadFrame = 0 /\ curWriteFrame = 0
    /\ frames   = [s \in Slots |-> Silence]
    /\ opc      = [t \in Threads |-> "idle"]
    /\ pos      = [t \in Threads |-> 0]
    /\ seenBase = [t \in Threads |-> 0]
    /\ seenPos  = [t \in Threads |-> 0]
    /\ size     = [t \in Threads |-> 0]
    /\ offset   = [t \in Threads |-> 0]

Goto(t, l) == opc' = [opc EXCEPT ![t] = l]

(* Control: thread t calls the method whose first step is l, on p.         *)
Call(t, l, p) ==
    /\ opc[t] \in Returned
    /\ Goto(t, l)
    /\ pos' = [pos EXCEPT ![t] = p]

-----------------------------------------------------------------------------
(* Positions and slots.                                                     *)

(* The position lies in the two laps that start at base b.                  *)
InTwoLaps(b, p) == p >= b /\ p - b < 2 * Total

(* GetOffsetByFrame: the slot of position p when the base is b.             *)
OffsetOf(b, p) == IF p - b >= Total THEN p - b - Total ELSE p - b

(* How far slot s lies after slot o, going round the end of the data area:  *)
(* GetBufferByOffset returns [o, Total) and then [0, ...).                  *)
Dist(o, s) == IF s >= o THEN s - o ELSE s - o + Total

(* Mutant of Copied: the second descriptor, past the end of the data area,  *)
(* is forgotten.                                                            *)
CopiedFirstPart(f, o, p, n) ==
    [s \in Slots |-> IF s >= o /\ s - o < n THEN p + s - o ELSE f[s]]

(* The data area after n frames from position p were copied to slot o on.   *)
Copied(f, o, p, n) ==
    [s \in Slots |-> IF Dist(o, s) < n THEN p + Dist(o, s) ELSE f[s]]

(* The data area after n frames from slot o on were set to 0.               *)
Zeroed(f, o, n) ==
    [s \in Slots |-> IF Dist(o, s) < n THEN Silence ELSE f[s]]

-----------------------------------------------------------------------------
(* GetAllWritableBufferFromPosFrame(pos[t]): everything from pos[t] to one  *)
(* lap ahead of the reader.                                                 *)

WritableLoadBase(t) ==
    /\ opc[t] = "gw_base"
    /\ seenBase' = [seenBase EXCEPT ![t] = basePosInFrame]
    /\ Goto(t, "gw_read")
    /\ UNCHANGED <<cursors, frames, pos, seenPos, size, offset>>

WritableLoadRead(t) ==
    LET r == curReadFrame  p == pos[t]
        valid == InTwoLaps(seenBase[t], p) /\ p >= r /\ r + Total >= p
    IN  /\ opc[t] = "gw_read"
        /\ Goto(t, IF ~valid THEN "err"
                   ELSE IF r + Total = p THEN "done" ELSE "gw_offset")
        /\ seenPos' = [seenPos EXCEPT ![t] = r]
        /\ size' = [size EXCEPT ![t] = IF valid THEN r + Total - p ELSE 0]
        /\ UNCHANGED <<cursors, frames, pos, seenBase, offset>>

(* GetAllReadableBufferFromPosFrame(pos[t]): everything from pos[t] to the  *)
(* writer.                                                                  *)
ReadableLoadBase(t) ==
    /\ opc[t] = "gr_base"
    /\ seenBase' = [seenBase EXCEPT ![t] = basePosInFrame]
    /\ Goto(t, "gr_write")
    /\ UNCHANGED <<cursors, frames, pos, seenPos, size, offset>>

ReadableLoadWrite(t) ==
    LET w == curWriteFrame  p == pos[t]
        valid == p >= seenBase[t] /\ p - seenBase[t] < Total /\ p <= w
    IN  /\ opc[t] = "gr_write"
        /\ Goto(t, IF ~valid THEN "err"
                   ELSE IF w = p THEN "done"
                   ELSE IF w - p > Total THEN "err" ELSE "gr_offset")
        /\ seenPos' = [seenPos EXCEPT ![t] = w]
        /\ size' = [size EXCEPT ![t] = IF valid THEN w - p ELSE 0]
        /\ UNCHANGED <<cursors, frames, pos, seenBase, offset>>

(* Both end in GetBufferByFrame -> GetOffsetByFrame, which loads the base   *)
(* once more.                                                               *)
LoadOffset(t) ==
    LET b == basePosInFrame
    IN  /\ opc[t] \in {"gw_offset", "gr_offset"}
        /\ Goto(t, IF InTwoLaps(b, pos[t]) THEN "done" ELSE "err")
        /\ seenBase' = [seenBase EXCEPT ![t] = b]
        /\ offset' = [offset EXCEPT ![t] =
                        IF InTwoLaps(b, pos[t]) THEN OffsetOf(b, pos[t]) ELSE @]
        /\ UNCHANGED <<cursors, frames, pos, seenPos, size>>

-----------------------------------------------------------------------------
(* SetCurWriteFrame(pos[t]).                                                *)

SetWriteLoadBase(t) ==
    /\ opc[t] = "sw_base"
    /\ seenBase' = [seenBase EXCEPT ![t] = basePosInFrame]
    /\ Goto(t, "sw_write")
    /\ UNCHANGED <<cursors, frames, pos, seenPos, size, offset>>

SetWriteLoadWrite(t) ==
    LET w == curWriteFrame  p == pos[t]
    IN  /\ opc[t] = "sw_write"
        /\ Goto(t, IF p = w THEN "ok"
                   ELSE IF w >= seenBase[t] /\ p > w /\ p - seenBase[t] < 2 * Total
                        THEN "sw_read" ELSE "err")
        /\ UNCHANGED <<cursors, frames, regs>>

SetWriteLoadRead(t) ==
    LET r == curReadFrame  p == pos[t]
    IN  /\ opc[t] = "sw_read"
        /\ Goto(t, IF p >= r /\ p - r <= Total THEN "sw_store" ELSE "err")
        /\ UNCHANGED <<cursors, frames, regs>>

SetWriteStore(t) ==
    /\ opc[t] = "sw_store"
    /\ curWriteFrame' = pos[t]
    /\ Goto(t, "ok")
    /\ UNCHANGED <<basePosInFrame, curReadFrame, frames, regs>>

-----------------------------------------------------------------------------
(* SetCurReadFrame(pos[t]): moves the base one lap on when the new read     *)
(* position leaves the current one, before it publishes that position.      *)

SetReadLoadBase(t) ==
    /\ opc[t] = "sr_base"
    /\ seenBase' = [seenBase EXCEPT ![t] = basePosInFrame]
    /\ Goto(t, "sr_read")
    /\ UNCHANGED <<cursors, frames, pos, seenPos, size, offset>>

SetReadLoadRead(t) ==
    LET r == curReadFrame  p == pos[t]
    IN  /\ opc[t] = "sr_read"
        /\ Goto(t, IF p = r THEN "ok"
                   ELSE IF r >= seenBase[t] /\ p >= r THEN "sr_write" ELSE "err")
        /\ seenPos' = [seenPos EXCEPT ![t] = r]
        /\ UNCHANGED <<cursors, frames, pos, seenBase, size, offset>>

(* Mutant of SetReadLoadWrite: the write position is not looked at.         *)
SetReadUnchecked(t) ==
    /\ opc[t] = "sr_write"
    /\ Goto(t, IF pos[t] - seenBase[t] >= Total THEN "sr_move" ELSE "sr_store")
    /\ UNCHANGED <<cursors, frames, regs>>

SetReadLoadWrite(t) ==
    LET p == pos[t]
    IN  /\ opc[t] = "sr_write"
        /\ Goto(t, IF p > curWriteFrame THEN "err"
                   ELSE IF p - seenBase[t] >= Total THEN "sr_move" ELSE "sr_store")
        /\ UNCHANGED <<cursors, frames, regs>>

(* Mutant of SetReadMoveBase: publishes the read position first and moves   *)
(* the base afterwards.                                                     *)
SetReadPublishThenMove(t) ==
    /\ opc[t] = "sr_move"
    /\ IF curReadFrame # pos[t]
       THEN /\ curReadFrame' = pos[t]
            /\ UNCHANGED <<basePosInFrame, opc>>
       ELSE /\ basePosInFrame' = seenBase[t] + Total
            /\ Goto(t, "ok")
            /\ UNCHANGED curReadFrame
    /\ UNCHANGED <<curWriteFrame, frames, regs>>

(* Mutant of SetReadMoveBase: the base is left behind.                      *)
SetReadKeepBase(t) ==
    /\ opc[t] = "sr_move"
    /\ Goto(t, "sr_store")
    /\ UNCHANGED <<cursors, frames, regs>>

SetReadMoveBase(t) ==
    /\ opc[t] = "sr_move"
    /\ basePosInFrame' = seenBase[t] + Total
    /\ Goto(t, "sr_store")
    /\ UNCHANGED <<curReadFrame, curWriteFrame, frames, regs>>

(* Mutant of SetReadStore: stores the distance to the base instead of the   *)
(* position.                                                                *)
SetReadStoreDelta(t) ==
    /\ opc[t] = "sr_store"
    /\ curReadFrame' = pos[t] - basePosInFrame
    /\ Goto(t, "ok")
    /\ UNCHANGED <<basePosInFrame, curWriteFrame, frames, regs>>

SetReadStore(t) ==
    /\ opc[t] = "sr_store"
    /\ curReadFrame' = pos[t]
    /\ Goto(t, "ok")
    /\ UNCHANGED <<basePosInFrame, curWriteFrame, frames, regs>>

-----------------------------------------------------------------------------
(* A step of whatever buffer method thread t is executing.                  *)
BufStep(t) ==
    \/ WritableLoadBase(t) \/ WritableLoadRead(t)
    \/ ReadableLoadBase(t) \/ ReadableLoadWrite(t)
    \/ LoadOffset(t)
    \/ SetWriteLoadBase(t) \/ SetWriteLoadWrite(t)
    \/ SetWriteLoadRead(t) \/ SetWriteStore(t)
    \/ SetReadLoadBase(t)  \/ SetReadLoadRead(t)
    \/ SetReadLoadWrite(t) \/ SetReadMoveBase(t) \/ SetReadStore(t)

BufPcs == Returned \cup
    {"gw_base", "gw_read", "gw_offset", "gr_base", "gr_write", "gr_offset",
     "sw_base", "sw_write", "sw_read", "sw_store",
     "sr_base", "sr_read", "sr_write", "sr_move", "sr_store"}

BufTypeOK ==
    /\ basePosInFrame \in Nat /\ curReadFrame \in Nat /\ curWriteFrame \in Nat
    /\ frames \in [Slots -> Int]
    /\ opc \in [Threads -> BufPcs]
    /\ pos \in [Threads -> Nat]
    /\ seenBase \in [Threads -> Nat]
    /\ seenPos \in [Threads -> Nat]
    /\ size \in [Threads -> Nat]
    /\ offset \in [Threads -> Nat]
=============================================================================
