---------------------- MODULE CapturerDataPath_proofs -----------------------
(***************************************************************************)
(* Proofs, for every buffer size, of two sides of a recording stream: what *)
(* remains true even when a flush overlaps the application's reader, and   *)
(* what the application is delivered as long as none has.                  *)
(***************************************************************************)
EXTENDS CapturerDataPath, TLAPS

(* A read position that has passed the check of SetCurReadFrame stays       *)
(* behind the write position, because only the engine's thread moves that,  *)
(* and only forward.                                                        *)
PassedCheck ==
    \A t \in Threads : opc[t] \in {"sr_move", "sr_store"} => pos[t] <= curWriteFrame

OnlyEngineWrites ==
    \A t \in Threads :
        opc[t] \in {"sw_base", "sw_write", "sw_read", "sw_store"} => t = S

WritesForward == opc[S] \in {"sw_read", "sw_store"} => pos[S] > curWriteFrame

CursorInv == ReadBehindWrite /\ PassedCheck /\ OnlyEngineWrites /\ WritesForward

-----------------------------------------------------------------------------
USE TotalAssumption, CapturerAssumption DEF TotalAssumption, CapturerAssumption

(* The slot of a position in the two laps from the base is a slot.          *)
LEMMA OffsetIsSlot ==
    ASSUME NEW b \in Nat, NEW p \in Nat, InTwoLaps(b, p)
    PROVE  OffsetOf(b, p) \in Slots
BY DEF InTwoLaps, OffsetOf, Slots

(* Distances round the data area are integers.                              *)
LEMMA DistIsInt == \A o \in Slots, s \in Slots : Dist(o, s) \in Int
BY DEF Dist, Slots

(* Every region a method returns begins inside the data area, whatever the  *)
(* three threads do to the cursors meanwhile: LoadOffset checks the         *)
(* position against the very base it computes the slot from.                *)
THEOREM TypeCorrect == Spec => []TypeOK
<1>1. Init => TypeOK
  <2> SUFFICES ASSUME Init PROVE TypeOK
    OBVIOUS
  <2>1. frames \in [Slots -> Int] /\ offset \in [Threads -> Slots]
    BY DEF Init, BufInit, Silence, Slots
  <2>2. overlap \in BOOLEAN /\ refused \in BOOLEAN
    BY Zenon DEF Init
  <2>3. got \in Int
    BY DEF Init, Silence
  <2> QED
    BY <2>1, <2>2, <2>3 DEF Init, TypeOK, BufInit, MethodPcs, BufPcs, Returned, UsePcs
<1>2. TypeOK /\ [Next]_vars => TypeOK'
  <2> SUFFICES ASSUME TypeOK, [Next]_vars PROVE TypeOK'
    OBVIOUS
  <2> USE DEF TypeOK, MethodPcs, BufPcs, Returned, UsePcs, Now, Set, Goto, Calls,
              Call, cursors, regs, useVars
  <2>1. CASE Recorder
    <3>1. CASE Record        BY <3>1 DEF Record, bufVars
    <3>2. CASE RecordRoom    BY <3>2 DEF RecordRoom, bufVars
    <3>3. CASE RecordCopy
      <4>1. frames \in [Slots -> Int] /\ offset[S] \in Slots /\ from[S] \in Nat
        OBVIOUS
      <4>2. frames' = Copied(frames, offset[S], from[S], 1)
        BY <3>3 DEF RecordCopy
      <4>3. frames' \in [Slots -> Int]
        <5> HIDE DEF TypeOK
        <5> QED BY <4>1, <4>2, DistIsInt DEF Copied
      <4> QED BY <3>3, <4>3 DEF RecordCopy
    <3>4. CASE RecordPublish BY <3>4 DEF RecordPublish
    <3>5. CASE RecordEnd     BY <3>5 DEF RecordEnd, bufVars
    <3> QED BY <2>1, <3>1, <3>2, <3>3, <3>4, <3>5 DEF Recorder
  <2>2. CASE Reader
    <3>1. CASE Read          BY <3>1 DEF Read, bufVars
    <3>2. CASE ReadAvailable BY <3>2 DEF ReadAvailable, bufVars
    <3>3. CASE ReadGet       BY <3>3 DEF ReadGet
    <3>4. CASE ReadTake      BY <3>4 DEF ReadTake, bufVars
    <3>5. CASE ReadClear
      <4>1. frames' \in [Slots -> Int]
        BY <3>5 DEF ReadClear, Zeroed, Silence
      <4> QED BY <3>5, <4>1 DEF ReadClear
    <3>6. CASE ReadPublish   BY <3>6 DEF ReadPublish
    <3>7. CASE ReadEnd       BY <3>7 DEF ReadEnd, bufVars
    <3> QED BY <2>2, <3>1, <3>2, <3>3, <3>4, <3>5, <3>6, <3>7 DEF Reader
  <2>3. CASE Flusher
    <3>1. CASE Flush          BY <3>1 DEF Flush, bufVars
    <3>2. CASE FlushLoadWrite BY <3>2 DEF FlushLoadWrite, bufVars
    <3>3. CASE FlushLoadRead  BY <3>3 DEF FlushLoadRead, bufVars
    <3>4. CASE FlushLoop      BY <3>4 DEF FlushLoop, bufVars
    <3>5. CASE FlushFails     BY <3>5 DEF FlushFails, bufVars
    <3>6. CASE FlushClear
      <4>1. frames' \in [Slots -> Int]
        BY <3>6 DEF FlushClear, Zeroed, Silence
      <4> QED BY <3>6, <4>1 DEF FlushClear
    <3>7. CASE FlushPublish   BY <3>7 DEF FlushPublish
    <3>8. CASE FlushNext      BY <3>8 DEF FlushNext, bufVars
    <3>9. CASE Flushed        BY <3>9 DEF Flushed, bufVars
    <3>10. CASE FlushRefused  BY <3>10 DEF FlushRefused, bufVars
    <3> QED BY <2>3, <3>1, <3>2, <3>3, <3>4, <3>5, <3>6, <3>7, <3>8, <3>9, <3>10
            DEF Flusher
  <2>4. ASSUME NEW t \in Threads, UNCHANGED useVars,
               BufStep(t) \/ ReadbufferLoadBase(t)
                 \/ WriteBufferLoadBase(t) \/ WriteBufferLoadRead(t)
        PROVE  TypeOK'
    <3> USE <2>4
    <3>1. CASE WritableLoadBase(t)    BY <3>1 DEF WritableLoadBase
    <3>2. CASE WritableLoadRead(t)    BY <3>2 DEF WritableLoadRead
    <3>3. CASE ReadableLoadBase(t)    BY <3>3 DEF ReadableLoadBase
    <3>4. CASE ReadableLoadWrite(t)   BY <3>4 DEF ReadableLoadWrite
    <3>5. CASE LoadOffset(t)
      <4>1. pos[t] \in Nat /\ basePosInFrame \in Nat
        OBVIOUS
      <4>2. InTwoLaps(basePosInFrame, pos[t]) =>
              OffsetOf(basePosInFrame, pos[t]) \in Slots
        BY <4>1, OffsetIsSlot
      <4> QED BY <3>5, <4>2 DEF LoadOffset
    <3>6. CASE SetWriteLoadBase(t)    BY <3>6 DEF SetWriteLoadBase
    <3>7. CASE SetWriteLoadWrite(t)   BY <3>7 DEF SetWriteLoadWrite
    <3>8. CASE SetWriteLoadRead(t)    BY <3>8 DEF SetWriteLoadRead
    <3>9. CASE SetWriteStore(t)       BY <3>9 DEF SetWriteStore
    <3>10. CASE SetReadLoadBase(t)    BY <3>10 DEF SetReadLoadBase
    <3>11. CASE SetReadLoadRead(t)    BY <3>11 DEF SetReadLoadRead
    <3>12. CASE SetReadLoadWrite(t)   BY <3>12 DEF SetReadLoadWrite
    <3>13. CASE SetReadMoveBase(t)    BY <3>13 DEF SetReadMoveBase
    <3>14. CASE SetReadStore(t)       BY <3>14 DEF SetReadStore
    <3>15. CASE ReadbufferLoadBase(t)  BY <3>15 DEF ReadbufferLoadBase
    <3>16. CASE WriteBufferLoadBase(t) BY <3>16 DEF WriteBufferLoadBase
    <3>17. CASE WriteBufferLoadRead(t) BY <3>17 DEF WriteBufferLoadRead
    <3> QED BY <3>1, <3>2, <3>3, <3>4, <3>5, <3>6, <3>7, <3>8, <3>9, <3>10, <3>11,
               <3>12, <3>13, <3>14, <3>15, <3>16, <3>17 DEF BufStep
  <2>5. CASE UNCHANGED vars
    BY <2>5 DEF vars, bufVars
  <2> QED BY <2>1, <2>2, <2>3, <2>4, <2>5 DEF Next, Method
<1> QED BY <1>1, <1>2, PTL DEF Spec

(* However the three threads overlap, the read position never passes the    *)
(* write position: the client's reader and the server's flush may each      *)
(* store a stale position, but only one that passed the check against a     *)
(* write position that has not decreased since.                             *)
THEOREM ReaderNeverPassesWriter == Spec => []ReadBehindWrite
<1>1. Init => CursorInv
  BY DEF Init, BufInit, CursorInv, ReadBehindWrite, PassedCheck, OnlyEngineWrites,
         WritesForward
<1>2. TypeOK /\ CursorInv /\ [Next]_vars => CursorInv'
  <2> SUFFICES ASSUME TypeOK, CursorInv, [Next]_vars PROVE CursorInv'
    OBVIOUS
  <2> USE DEF CursorInv, ReadBehindWrite, PassedCheck, OnlyEngineWrites,
              WritesForward, cursors, regs
  <2>1. opc \in [Threads -> MethodPcs] /\ pos \in [Threads -> Nat]
        /\ seenBase \in [Threads -> Nat]
        /\ basePosInFrame \in Nat /\ curReadFrame \in Nat /\ curWriteFrame \in Nat
        /\ from \in [Threads -> Nat] /\ at \in [Threads -> UsePcs]
    BY DEF TypeOK
  (* Outside the methods nobody moves a cursor; the engine's thread alone   *)
  (* calls SetCurWriteFrame.                                                *)
  <2>2. ASSUME UNCHANGED <<cursors, opc, pos>> PROVE CursorInv'
    BY <2>2
  <2>3. ASSUME NEW t \in Threads, NEW l, NEW p, Calls(t, l, p),
               l \in {"rb_base", "wb_base", "sr_base"} \/ (l = "sw_base" /\ t = S)
        PROVE  CursorInv'
    BY <2>1, <2>3 DEF Calls, Call, Goto
  <2>4. CASE Recorder
    <3>1. CASE RecordRoom BY <2>2, <2>3, <3>1 DEF RecordRoom, bufVars
    <3>2. CASE RecordPublish BY <2>3, <3>2 DEF RecordPublish
    <3>3. CASE Record \/ RecordCopy \/ RecordEnd
      BY <2>2, <3>3 DEF Record, RecordCopy, RecordEnd, bufVars
    <3> QED BY <2>4, <3>1, <3>2, <3>3 DEF Recorder
  <2>5. CASE Reader
    <3>1. CASE ReadGet     BY <2>3, <3>1 DEF ReadGet
    <3>2. CASE ReadPublish BY <2>3, <3>2 DEF ReadPublish
    <3>3. CASE Read \/ ReadAvailable \/ ReadTake \/ ReadClear \/ ReadEnd
      BY <2>2, <3>3 DEF Read, ReadAvailable, ReadTake, ReadClear, ReadEnd, bufVars
    <3> QED BY <2>5, <3>1, <3>2, <3>3 DEF Reader
  <2>6. CASE Flusher
    <3>1. CASE FlushLoop    BY <2>2, <2>3, <3>1 DEF FlushLoop, bufVars
    <3>2. CASE FlushPublish BY <2>3, <3>2 DEF FlushPublish
    <3>3. CASE Flush \/ FlushLoadWrite \/ FlushLoadRead \/ FlushFails
               \/ FlushClear \/ FlushNext \/ Flushed \/ FlushRefused
      BY <2>2, <3>3 DEF Flush, FlushLoadWrite, FlushLoadRead, FlushFails, FlushClear,
                        FlushNext, Flushed, FlushRefused, bufVars
    <3> QED BY <2>6, <3>1, <3>2, <3>3 DEF Flusher
  <2>7. ASSUME NEW t \in Threads,
               BufStep(t) \/ ReadbufferLoadBase(t)
                 \/ WriteBufferLoadBase(t) \/ WriteBufferLoadRead(t)
        PROVE  CursorInv'
    <3> USE <2>1 DEF Goto, MethodPcs, BufPcs, Returned
    <3>1. CASE WritableLoadBase(t)    BY <3>1 DEF WritableLoadBase
    <3>2. CASE WritableLoadRead(t)    BY <3>2 DEF WritableLoadRead
    <3>3. CASE ReadableLoadBase(t)    BY <3>3 DEF ReadableLoadBase
    <3>4. CASE ReadableLoadWrite(t)   BY <3>4 DEF ReadableLoadWrite
    <3>5. CASE LoadOffset(t)          BY <3>5 DEF LoadOffset
    <3>6. CASE SetWriteLoadBase(t)    BY <3>6 DEF SetWriteLoadBase
    <3>7. CASE SetWriteLoadWrite(t)   BY <3>7 DEF SetWriteLoadWrite
    <3>8. CASE SetWriteLoadRead(t)    BY <3>8 DEF SetWriteLoadRead
    <3>9. CASE SetWriteStore(t)       BY <3>9 DEF SetWriteStore
    <3>10. CASE SetReadLoadBase(t)    BY <3>10 DEF SetReadLoadBase
    <3>11. CASE SetReadLoadRead(t)    BY <3>11 DEF SetReadLoadRead
    <3>12. CASE SetReadLoadWrite(t)   BY <3>12 DEF SetReadLoadWrite
    <3>13. CASE SetReadMoveBase(t)    BY <3>13 DEF SetReadMoveBase
    <3>14. CASE SetReadStore(t)       BY <3>14 DEF SetReadStore
    <3>15. CASE ReadbufferLoadBase(t)  BY <3>15 DEF ReadbufferLoadBase
    <3>16. CASE WriteBufferLoadBase(t) BY <3>16 DEF WriteBufferLoadBase
    <3>17. CASE WriteBufferLoadRead(t) BY <3>17 DEF WriteBufferLoadRead
    <3> QED BY <2>7, <3>1, <3>2, <3>3, <3>4, <3>5, <3>6, <3>7, <3>8, <3>9, <3>10,
               <3>11, <3>12, <3>13, <3>14, <3>15, <3>16, <3>17 DEF BufStep
  <2>8. CASE UNCHANGED vars
    BY <2>2, <2>8 DEF vars, bufVars
  <2> QED BY <2>4, <2>5, <2>6, <2>7, <2>8 DEF Next, Method
<1>3. CursorInv => ReadBehindWrite
  BY DEF CursorInv
<1> QED BY <1>1, <1>2, <1>3, TypeCorrect, PTL DEF Spec

-----------------------------------------------------------------------------
(* What holds until the application flushes while it reads: one thread at   *)
(* a time takes from the buffer.                                            *)

(* Where each thread is inside the buffer while it does what at says.       *)
PcsAgree ==
    /\ at[C] = "idle" \/ at[F] = "idle"
    /\ at[S] \in {"idle", "room", "region", "copied", "publish"}
    /\ at[C] \in {"idle", "avail", "get", "region", "taken", "cleared", "publish"}
    /\ at[F] \in {"idle", "loadw", "loadr", "loop", "region", "cleared", "publish", "engine"}
    /\ at[S] \in {"idle", "room"} => opc[S] \in Returned
    /\ at[S] = "region"  => opc[S] \in {"wb_base", "wb_read", "gw_offset", "done", "err"}
    /\ at[S] = "copied"  => opc[S] = "done"
    /\ at[S] = "publish" => opc[S] \in {"sw_base", "sw_write", "sw_read", "sw_store", "ok", "err"}
    /\ at[C] \in {"idle", "avail", "get"} => opc[C] \in Returned
    /\ at[F] \in {"idle", "loadw", "loadr", "loop", "engine"} => opc[F] \in Returned
    /\ \A t \in {C, F} :
         /\ at[t] = "region" => opc[t] \in {"rb_base", "gr_offset", "done"}
         /\ at[t] \in {"taken", "cleared"} => opc[t] = "done"
         /\ at[t] = "publish" => opc[t] \in {"sr_base", "sr_read", "sr_write",
                                             "sr_move", "sr_store", "ok"}

(* The cursors; the base is ahead of the read cursor only between the two   *)
(* stores of SetCurReadFrame.                                               *)
CursorsFit ==
    /\ curReadFrame <= curWriteFrame /\ curWriteFrame <= curReadFrame + Total
    /\ basePosInFrame <= curWriteFrame /\ curReadFrame < basePosInFrame + Total
    /\ (\A t \in {C, F} : opc[t] # "sr_store") => basePosInFrame <= curReadFrame

(* The engine's thread works on the write position, and has room for it.    *)
RecorderFits ==
    /\ at[S] \in {"room", "region", "copied"} \/ (at[S] = "publish" /\ opc[S] # "ok") =>
         from[S] = curWriteFrame
    /\ at[S] \in {"region", "copied"} \/ (at[S] = "publish" /\ opc[S] # "ok") =>
         from[S] + 1 <= curReadFrame + Total
    /\ at[S] = "region" => pos[S] = from[S]
    /\ at[S] = "region" /\ opc[S] = "done" => offset[S] = OffsetOf(basePosInFrame, from[S])
    /\ at[S] = "publish" => pos[S] = from[S] + 1

(* Has t zeroed the slot of the read position and not yet given it back?    *)
Clears(t) == at[t] = "cleared" \/ (at[t] = "publish" /\ opc[t] # "ok")

(* Both takers: in a region they have the slot of the read position, and    *)
(* SetCurReadFrame moves that by one.                                       *)
TakersFit ==
    \A t \in {C, F} :
      /\ at[t] \in {"region", "taken", "get"} \/ Clears(t) => curReadFrame < curWriteFrame
      /\ at[t] = "region" => pos[t] = curReadFrame
      /\ (at[t] = "region" /\ opc[t] = "done") \/ at[t] = "taken" =>
           offset[t] = OffsetOf(basePosInFrame, curReadFrame)
      /\ at[t] = "publish" /\ opc[t] # "ok" => pos[t] = curReadFrame + 1
      /\ opc[t] \in {"sr_read", "sr_write", "sr_move"} => seenBase[t] = basePosInFrame
      /\ opc[t] = "sr_move"  => pos[t] >= basePosInFrame + Total
      /\ opc[t] = "sr_store" => basePosInFrame <= pos[t] /\ pos[t] < basePosInFrame + Total

(* What the reader has delivered is before the read position, or at it      *)
(* while that still has to move; what it skipped, the last flush discarded. *)
ReaderFits ==
    /\ at[C] = "avail" => curReadFrame <= mark[C] /\ mark[C] <= curWriteFrame
    /\ IF at[C] = "taken" \/ Clears(C) THEN got = curReadFrame ELSE got < curReadFrame
    /\ floor <= curReadFrame
    /\ at[F] \in {"idle", "engine"} => curReadFrame <= got + 1 \/ curReadFrame <= floor

(* The flush goes from the read position to what was the write position.    *)
FlushFits ==
    /\ at[F] \in {"loadr", "loop", "region", "cleared", "publish"} => mark[F] <= curWriteFrame
    /\ at[F] = "loadr" => curReadFrame <= mark[F]
    /\ at[F] \in {"loop", "region", "cleared", "publish"} => from[F] <= mark[F]
    /\ at[F] \in {"loop", "region"} \/ (at[F] = "publish" /\ opc[F] = "ok") => from[F] = curReadFrame
    /\ at[F] = "region" => from[F] < mark[F]
    /\ Clears(F) => from[F] = curReadFrame + 1

NextUnread == IF Clears(C) \/ Clears(F) THEN curReadFrame + 1 ELSE curReadFrame

(* Is there a span the engine has copied and not yet published?             *)
Copying == at[S] = "copied" \/ (at[S] = "publish" /\ opc[S] \notin {"ok", "err"})
CopiedEnd == IF Copying THEN from[S] + 1 ELSE curWriteFrame

(* Every position from the first unread one to the last one copied is in    *)
(* its slot.                                                                *)
ContentFits ==
    \A p \in Nat : NextUnread <= p /\ p < CopiedEnd =>
        frames[OffsetOf(basePosInFrame, p)] = p

Alone == PcsAgree /\ CursorsFit /\ RecorderFits /\ TakersFit /\ ReaderFits /\ FlushFits
OneTaker == ~overlap => Alone /\ ContentFits

-----------------------------------------------------------------------------
LEMMA AloneStep ==
    ASSUME TypeOK, Alone, ContentFits, Next, ~overlap'
    PROVE  Alone'
<1> USE DEF Alone, PcsAgree, CursorsFit, RecorderFits, TakersFit, ReaderFits, FlushFits, Clears,
            Now, Set, Goto, Calls, Call, cursors, regs, Returned, TypeOK
<1>1. CASE Recorder
  <2>1. CASE Record
    BY <2>1 DEF Record, bufVars
  <2>2. CASE RecordRoom
    BY <2>2 DEF RecordRoom, bufVars
  <2>3. CASE RecordCopy
    BY <2>3 DEF RecordCopy, bufVars
  <2>4. CASE RecordPublish
    BY <2>4 DEF RecordPublish, bufVars
  <2>5. CASE RecordEnd
    BY <2>5 DEF RecordEnd, bufVars
  <2> QED BY <1>1, <2>1, <2>2, <2>3, <2>4, <2>5 DEF Recorder
<1>2. CASE Reader
  <2>1. CASE Read
    <3>1. at[F] = "idle"
      BY <2>1, Zenon DEF Read
    <3> QED BY <2>1, <3>1 DEF Read, bufVars
  <2>2. CASE ReadAvailable
    BY <2>2 DEF ReadAvailable, bufVars
  <2>3. CASE ReadGet
    BY <2>3 DEF ReadGet, bufVars
  <2>4. CASE ReadTake
    <3>1. got' = curReadFrame
      BY <2>4 DEF ReadTake, ContentFits, NextUnread, CopiedEnd, Copying
    <3> QED BY <2>4, <3>1 DEF ReadTake, bufVars
  <2>5. CASE ReadClear
    BY <2>5 DEF ReadClear, bufVars
  <2>6. CASE ReadPublish
    BY <2>6 DEF ReadPublish, bufVars
  <2>7. CASE ReadEnd
    BY <2>7 DEF ReadEnd, bufVars
  <2> QED BY <1>2, <2>1, <2>2, <2>3, <2>4, <2>5, <2>6, <2>7 DEF Reader
<1>3. CASE Flusher
  <2>1. CASE Flush
    <3>1. at[C] = "idle"
      BY <2>1, Zenon DEF Flush
    <3> QED BY <2>1, <3>1 DEF Flush, bufVars
  <2>2. CASE FlushLoadWrite
    BY <2>2 DEF FlushLoadWrite, bufVars
  <2>3. CASE FlushLoadRead
    BY <2>3 DEF FlushLoadRead, bufVars
  <2>4. CASE FlushLoop
    BY <2>4 DEF FlushLoop, bufVars
  <2>5. CASE FlushFails
    BY <2>5 DEF FlushFails, bufVars
  <2>6. CASE FlushClear
    BY <2>6 DEF FlushClear, bufVars
  <2>7. CASE FlushPublish
    BY <2>7 DEF FlushPublish, bufVars
  <2>8. CASE FlushNext
    BY <2>8 DEF FlushNext, bufVars
  <2>9. CASE Flushed
    BY <2>9 DEF Flushed, bufVars
  <2>10. CASE FlushRefused
    BY <2>10 DEF FlushRefused, bufVars
  <2> QED BY <1>3, <2>1, <2>2, <2>3, <2>4, <2>5, <2>6, <2>7, <2>8, <2>9, <2>10 DEF Flusher
<1>4. ASSUME NEW t \in Threads, UNCHANGED useVars,
             BufStep(t) \/ ReadbufferLoadBase(t)
               \/ WriteBufferLoadBase(t) \/ WriteBufferLoadRead(t)
      PROVE  Alone'
  <2> USE <1>4 DEF useVars
  <2>1. CASE WritableLoadBase(t)
    BY <2>1 DEF WritableLoadBase, InTwoLaps, OffsetOf
  <2>2. CASE WritableLoadRead(t)
    BY <2>2 DEF WritableLoadRead, InTwoLaps, OffsetOf
  <2>3. CASE ReadableLoadBase(t)
    BY <2>3 DEF ReadableLoadBase, InTwoLaps, OffsetOf
  <2>4. CASE ReadableLoadWrite(t)
    BY <2>4 DEF ReadableLoadWrite, InTwoLaps, OffsetOf
  <2>5. CASE LoadOffset(t)
    BY <2>5 DEF LoadOffset, InTwoLaps, OffsetOf
  <2>6. CASE SetWriteLoadBase(t)
    BY <2>6 DEF SetWriteLoadBase, InTwoLaps, OffsetOf
  <2>7. CASE SetWriteLoadWrite(t)
    BY <2>7 DEF SetWriteLoadWrite, InTwoLaps, OffsetOf
  <2>8. CASE SetWriteLoadRead(t)
    BY <2>8 DEF SetWriteLoadRead, InTwoLaps, OffsetOf
  <2>9. CASE SetWriteStore(t)
    BY <2>9 DEF SetWriteStore, InTwoLaps, OffsetOf
  <2>10. CASE SetReadLoadBase(t)
    BY <2>10 DEF SetReadLoadBase, InTwoLaps, OffsetOf
  <2>11. CASE SetReadLoadRead(t)
    BY <2>11 DEF SetReadLoadRead, InTwoLaps, OffsetOf
  <2>12. CASE SetReadLoadWrite(t)
    BY <2>12 DEF SetReadLoadWrite, InTwoLaps, OffsetOf
  <2>13. CASE SetReadMoveBase(t)
    BY <2>13 DEF SetReadMoveBase, InTwoLaps, OffsetOf
  <2>14. CASE SetReadStore(t)
    BY <2>14 DEF SetReadStore, InTwoLaps, OffsetOf
  <2>15. CASE ReadbufferLoadBase(t)
    BY <2>15 DEF ReadbufferLoadBase, InTwoLaps, OffsetOf
  <2>16. CASE WriteBufferLoadBase(t)
    BY <2>16 DEF WriteBufferLoadBase, InTwoLaps, OffsetOf
  <2>17. CASE WriteBufferLoadRead(t)
    BY <2>17 DEF WriteBufferLoadRead, InTwoLaps, OffsetOf
  <2> QED BY <2>1, <2>2, <2>3, <2>4, <2>5, <2>6, <2>7, <2>8, <2>9, <2>10, <2>11, <2>12, <2>13, <2>14, <2>15, <2>16, <2>17 DEF BufStep
<1> QED BY <1>1, <1>2, <1>3, <1>4 DEF Next, Method

(* Two positions less than a lap apart have two slots.                      *)
LEMMA SlotsDiffer ==
    ASSUME NEW b \in Nat, NEW p \in Nat, NEW q \in Nat,
           b <= p, p < b + 2 * Total, b <= q, q < b + 2 * Total,
           p < q + Total, q < p + Total, p # q
    PROVE  OffsetOf(b, p) \in Slots /\ OffsetOf(b, q) \in Slots /\ OffsetOf(b, p) # OffsetOf(b, q)
BY DEF OffsetOf, Slots

(* Of the data area a copy or a clear of one span changes one slot.         *)
LEMMA OneSlot ==
    ASSUME NEW f \in [Slots -> Int], NEW o \in Slots, NEW p \in Nat, NEW s \in Slots
    PROVE  /\ Copied(f, o, p, 1)[s] = IF s = o THEN p ELSE f[s]
           /\ s # o => Zeroed(f, o, 1)[s] = f[s]
<1>1. (Dist(o, s) < 1 <=> s = o) /\ (s = o => p + Dist(o, s) = p)
  BY DEF Dist, Slots
<1>2. CASE s = o
  BY <1>1, <1>2 DEF Copied
<1>3. CASE s # o
  BY <1>1, <1>3 DEF Copied, Zeroed
<1> QED BY <1>2, <1>3

(* The spans unread, and the one copied, are in the two laps from the base. *)
LEMMA UnreadRange ==
    ASSUME TypeOK, Alone
    PROVE  /\ NextUnread \in Nat /\ CopiedEnd \in Nat
           /\ basePosInFrame <= NextUnread /\ curReadFrame <= NextUnread
           /\ curWriteFrame <= CopiedEnd /\ CopiedEnd <= curReadFrame + Total
           /\ curReadFrame + Total < basePosInFrame + 2 * Total
<1>0. /\ basePosInFrame \in Nat /\ curReadFrame \in Nat /\ curWriteFrame \in Nat
      /\ \A t \in Threads : from[t] \in Nat /\ pos[t] \in Nat
  BY DEF TypeOK
<1>1. NextUnread \in Nat /\ curReadFrame <= NextUnread
  BY <1>0 DEF NextUnread
<1>2. CopiedEnd \in Nat /\ curWriteFrame <= CopiedEnd /\ CopiedEnd <= curReadFrame + Total
  BY <1>0 DEF CopiedEnd, Copying, Alone, RecorderFits, CursorsFit
<1>3. basePosInFrame <= NextUnread
  <2>1. CASE \A t \in {C, F} : opc[t] # "sr_store"
    BY <1>0, <1>1, <2>1 DEF Alone, CursorsFit
  <2>2. ASSUME NEW t \in {C, F}, opc[t] = "sr_store"
        PROVE  basePosInFrame <= NextUnread
    <3>1. at[t] = "publish"
      BY <2>2 DEF Alone, PcsAgree, Returned
    <3>2. NextUnread = curReadFrame + 1
      BY <2>2, <3>1 DEF NextUnread, Clears
    <3> QED BY <1>0, <2>2, <3>1, <3>2 DEF Alone, TakersFit
  <2> QED BY <2>1, <2>2
<1>4. curReadFrame + Total < basePosInFrame + 2 * Total
  BY <1>0 DEF Alone, CursorsFit
<1> QED BY <1>1, <1>2, <1>3, <1>4

(* Nothing is taken and nothing written.                                    *)
LEMMA ContentStays ==
    ASSUME TypeOK, TypeOK', Alone, Alone', ContentFits, UNCHANGED <<frames, basePosInFrame>>,
           NextUnread' >= NextUnread, CopiedEnd' <= CopiedEnd
    PROVE  ContentFits'
<1>1. NextUnread \in Nat /\ CopiedEnd \in Nat
  BY UnreadRange
<1>2. NextUnread' \in Nat /\ CopiedEnd' \in Nat
  <2>1. curReadFrame' \in Nat /\ curWriteFrame' \in Nat /\ from'[S] \in Nat
    BY DEF TypeOK
  <2>2. NextUnread' = curReadFrame' \/ NextUnread' = curReadFrame' + 1
    BY DEF NextUnread
  <2>3. CopiedEnd' = from'[S] + 1 \/ CopiedEnd' = curWriteFrame'
    BY DEF CopiedEnd
  <2> HIDE DEF NextUnread, CopiedEnd
  <2> QED BY <2>1, <2>2, <2>3
<1> HIDE DEF NextUnread, CopiedEnd
<1>3. \A p \in Nat : NextUnread' <= p /\ p < CopiedEnd' => NextUnread <= p /\ p < CopiedEnd
  BY <1>1, <1>2
<1> QED BY <1>3 DEF ContentFits

(* The span at the read position is cleared.                                *)
LEMMA ContentCleared ==
    ASSUME TypeOK, TypeOK', Alone, Alone', ContentFits, UNCHANGED cursors,
           frames' = Zeroed(frames, OffsetOf(basePosInFrame, curReadFrame), 1),
           basePosInFrame <= curReadFrame,
           NextUnread' = curReadFrame + 1, CopiedEnd' = CopiedEnd, NextUnread = curReadFrame
    PROVE  ContentFits'
<1>0. /\ basePosInFrame \in Nat /\ curReadFrame \in Nat /\ frames \in [Slots -> Int]
      /\ basePosInFrame' = basePosInFrame
  BY DEF TypeOK, cursors
<1>1. /\ CopiedEnd \in Nat /\ CopiedEnd <= curReadFrame + Total
      /\ curReadFrame + Total < basePosInFrame + 2 * Total
  BY UnreadRange
<1> HIDE DEF NextUnread, CopiedEnd
<1>2. ASSUME NEW p \in Nat, curReadFrame + 1 <= p, p < CopiedEnd
      PROVE  frames'[OffsetOf(basePosInFrame, p)] = p
  <2>1. frames[OffsetOf(basePosInFrame, p)] = p
    BY <1>0, <1>2 DEF ContentFits
  <2>2. /\ basePosInFrame <= p /\ p < basePosInFrame + 2 * Total /\ p # curReadFrame
        /\ p < curReadFrame + Total /\ curReadFrame < p + Total
        /\ curReadFrame < basePosInFrame + 2 * Total
    BY <1>0, <1>1, <1>2
  <2>3. /\ OffsetOf(basePosInFrame, p) \in Slots /\ OffsetOf(basePosInFrame, curReadFrame) \in Slots
        /\ OffsetOf(basePosInFrame, p) # OffsetOf(basePosInFrame, curReadFrame)
    BY <1>0, <2>2, SlotsDiffer
  <2> QED BY <1>0, <2>1, <2>3, OneSlot
<1> QED BY <1>0, <1>2 DEF ContentFits

LEMMA ContentCopied ==
    ASSUME TypeOK, TypeOK', Alone, Alone', ContentFits, RecordCopy
    PROVE  ContentFits'
<1>0. /\ basePosInFrame \in Nat /\ curReadFrame \in Nat /\ curWriteFrame \in Nat
      /\ frames \in [Slots -> Int] /\ from[S] \in Nat /\ at \in [Threads -> UsePcs]
  BY DEF TypeOK
<1>1. /\ frames' = Copied(frames, offset[S], from[S], 1) /\ UNCHANGED <<cursors, opc, from>>
      /\ from[S] = curWriteFrame /\ from[S] + 1 <= curReadFrame + Total
      /\ offset[S] = OffsetOf(basePosInFrame, from[S])
      /\ at[S] = "region" /\ at'[S] = "copied" /\ at'[C] = at[C] /\ at'[F] = at[F]
  BY <1>0 DEF RecordCopy, Now, Alone, RecorderFits
<1>2. /\ NextUnread' = NextUnread /\ CopiedEnd = from[S] /\ CopiedEnd' = from[S] + 1
      /\ basePosInFrame' = basePosInFrame
  BY <1>1 DEF NextUnread, Clears, CopiedEnd, Copying, cursors
<1>3. /\ NextUnread \in Nat /\ basePosInFrame <= NextUnread /\ curReadFrame <= NextUnread
      /\ curReadFrame + Total < basePosInFrame + 2 * Total
      /\ basePosInFrame <= from[S]
  BY <1>1, UnreadRange DEF Alone, CursorsFit
<1> HIDE DEF NextUnread, CopiedEnd
<1>4. ASSUME NEW p \in Nat, NextUnread <= p, p < from[S] + 1
      PROVE  frames'[OffsetOf(basePosInFrame, p)] = p
  <2>1. /\ basePosInFrame <= p /\ p < basePosInFrame + 2 * Total
        /\ from[S] < basePosInFrame + 2 * Total /\ from[S] < p + Total /\ p < from[S] + Total
    BY <1>0, <1>1, <1>3, <1>4
  <2>2. OffsetOf(basePosInFrame, p) \in Slots /\ OffsetOf(basePosInFrame, from[S]) \in Slots
    BY <1>0, <1>3, <2>1, OffsetIsSlot DEF InTwoLaps
  <2>3. CASE p = from[S]
    BY <1>0, <1>1, <2>2, <2>3, OneSlot
  <2>4. CASE p # from[S]
    <3>1. OffsetOf(basePosInFrame, p) # OffsetOf(basePosInFrame, from[S])
      BY <1>0, <1>3, <2>1, <2>4, SlotsDiffer
    <3>2. frames[OffsetOf(basePosInFrame, p)] = p
      BY <1>0, <1>2, <1>4, <2>4 DEF ContentFits
    <3> QED BY <1>0, <1>1, <2>2, <3>1, <3>2, OneSlot
  <2> QED BY <2>3, <2>4
<1> QED BY <1>0, <1>2, <1>4 DEF ContentFits

(* The base moves one lap on, and no unread span changes its slot.          *)
LEMMA ContentMoved ==
    ASSUME TypeOK, TypeOK', Alone, Alone', ContentFits, NEW t \in {C, F}, SetReadMoveBase(t),
           UNCHANGED useVars
    PROVE  ContentFits'
<1>0. basePosInFrame \in Nat /\ curReadFrame \in Nat /\ pos[t] \in Nat /\ opc \in [Threads -> MethodPcs]
  BY DEF TypeOK
<1>1. /\ opc[t] = "sr_move" /\ opc'[t] = "sr_store" /\ \A u \in Threads \ {t} : opc'[u] = opc[u]
      /\ basePosInFrame' = seenBase[t] + Total /\ UNCHANGED <<curReadFrame, curWriteFrame, frames, at, from>>
  BY <1>0 DEF SetReadMoveBase, Goto, useVars
<1>2. at[t] = "publish"
  BY <1>1 DEF Alone, PcsAgree, Returned
<1>3. /\ basePosInFrame' = basePosInFrame + Total /\ pos[t] = curReadFrame + 1
      /\ basePosInFrame + Total <= curReadFrame + 1
  BY <1>1, <1>2 DEF Alone, TakersFit
<1>4. /\ NextUnread = curReadFrame + 1 /\ NextUnread' = curReadFrame + 1
      /\ CopiedEnd' = CopiedEnd
  BY <1>1, <1>2 DEF NextUnread, Clears, CopiedEnd, Copying
<1>5. CopiedEnd \in Nat /\ CopiedEnd <= curReadFrame + Total
      /\ curReadFrame + Total < basePosInFrame + 2 * Total
  BY UnreadRange
<1> HIDE DEF NextUnread, CopiedEnd
<1>6. ASSUME NEW p \in Nat, curReadFrame + 1 <= p, p < CopiedEnd
      PROVE  OffsetOf(basePosInFrame + Total, p) = OffsetOf(basePosInFrame, p)
  <2>1. basePosInFrame + Total <= p /\ p < basePosInFrame + 2 * Total
    BY <1>0, <1>3, <1>5, <1>6
  <2> QED BY <1>0, <2>1 DEF OffsetOf
<1> QED BY <1>1, <1>3, <1>4, <1>6 DEF ContentFits

(* A method goes on and does not return "ok" yet.                           *)
Quiet(t) ==
    /\ UNCHANGED <<basePosInFrame, curReadFrame, curWriteFrame, frames>>
    /\ opc[t] \notin Returned /\ opc'[t] # "ok"
    /\ \A u \in Threads \ {t} : opc'[u] = opc[u]

LEMMA ContentQuiet ==
    ASSUME TypeOK, TypeOK', Alone, Alone', ContentFits, UNCHANGED useVars,
           NEW t \in Threads, Quiet(t)
    PROVE  ContentFits'
<1> USE DEF Quiet, Returned, useVars
<1>0. at \in [Threads -> UsePcs] /\ from \in [Threads -> Nat] /\ curReadFrame \in Nat /\ curWriteFrame \in Nat
  BY DEF TypeOK
<1>1. NextUnread' = NextUnread
  BY <1>0 DEF NextUnread, Clears
<1>2. CopiedEnd' = CopiedEnd \/ (Copying /\ ~Copying')
  BY <1>0 DEF CopiedEnd, Copying
<1>3. Copying /\ ~Copying' => from[S] = curWriteFrame
  BY <1>0 DEF Copying, Alone, RecorderFits
<1>4. CopiedEnd' <= CopiedEnd
  BY <1>0, <1>2, <1>3 DEF CopiedEnd
<1>5. NextUnread' >= NextUnread
  BY <1>0, <1>1 DEF NextUnread
<1> QED BY <1>4, <1>5, ContentStays

LEMMA ContentStep ==
    ASSUME TypeOK, TypeOK', Alone, Alone', ContentFits, Next
    PROVE  ContentFits'
<1>0. /\ basePosInFrame \in Nat /\ curReadFrame \in Nat /\ curWriteFrame \in Nat
      /\ from \in [Threads -> Nat] /\ pos \in [Threads -> Nat]
      /\ opc \in [Threads -> MethodPcs] /\ at \in [Threads -> UsePcs]
  BY DEF TypeOK
<1> USE <1>0 DEF Now, Set, Goto, Calls, Call, cursors, regs, Returned,
                 NextUnread, CopiedEnd, Copying, Clears, PcsAgree, Alone
<1>1. CASE Recorder
  <2>1. CASE Record
    BY <2>1, ContentStays DEF Record, bufVars, RecorderFits
  <2>2. CASE RecordRoom
    BY <2>2, ContentStays DEF RecordRoom, bufVars, RecorderFits
  <2>3. CASE RecordPublish
    BY <2>3, ContentStays DEF RecordPublish, bufVars, RecorderFits
  <2>4. CASE RecordEnd
    BY <2>4, ContentStays DEF RecordEnd, bufVars, RecorderFits
  <2>5. CASE RecordCopy
    BY <2>5, ContentCopied
  <2> QED BY <1>1, <2>1, <2>2, <2>3, <2>4, <2>5 DEF Recorder
<1>2. CASE Reader
  <2>1. CASE Read
    BY <2>1, ContentStays DEF Read, bufVars, TakersFit
  <2>2. CASE ReadAvailable
    BY <2>2, ContentStays DEF ReadAvailable, bufVars, TakersFit
  <2>3. CASE ReadGet
    BY <2>3, ContentStays DEF ReadGet, bufVars, TakersFit
  <2>4. CASE ReadTake
    BY <2>4, ContentStays DEF ReadTake, bufVars, TakersFit
  <2>5. CASE ReadPublish
    BY <2>5, ContentStays DEF ReadPublish, bufVars, TakersFit
  <2>6. CASE ReadEnd
    BY <2>6, ContentStays DEF ReadEnd, bufVars, TakersFit
  <2>7. CASE ReadClear
    <3>1. /\ UNCHANGED cursors /\ frames' = Zeroed(frames, OffsetOf(basePosInFrame, curReadFrame), 1)
          /\ NextUnread = curReadFrame /\ NextUnread' = curReadFrame + 1 /\ CopiedEnd' = CopiedEnd
      BY <2>7 DEF ReadClear, TakersFit
    <3>2. basePosInFrame <= curReadFrame
      BY <2>7 DEF ReadClear, CursorsFit
    <3> HIDE DEF NextUnread, CopiedEnd, cursors
    <3> QED BY <3>1, <3>2, ContentCleared
  <2> QED BY <1>2, <2>1, <2>2, <2>3, <2>4, <2>5, <2>6, <2>7 DEF Reader
<1>3. CASE Flusher
  <2>1. CASE Flush
    BY <2>1, ContentStays DEF Flush, bufVars, TakersFit, FlushFits
  <2>2. CASE FlushLoadWrite
    BY <2>2, ContentStays DEF FlushLoadWrite, bufVars, TakersFit, FlushFits
  <2>3. CASE FlushLoadRead
    BY <2>3, ContentStays DEF FlushLoadRead, bufVars, TakersFit, FlushFits
  <2>4. CASE FlushLoop
    BY <2>4, ContentStays DEF FlushLoop, bufVars, TakersFit, FlushFits
  <2>5. CASE FlushFails
    BY <2>5, ContentStays DEF FlushFails, bufVars, TakersFit, FlushFits
  <2>6. CASE FlushPublish
    BY <2>6, ContentStays DEF FlushPublish, bufVars, TakersFit, FlushFits
  <2>7. CASE FlushNext
    BY <2>7, ContentStays DEF FlushNext, bufVars, TakersFit, FlushFits
  <2>8. CASE Flushed
    BY <2>8, ContentStays DEF Flushed, bufVars, TakersFit, FlushFits
  <2>9. CASE FlushClear
    <3>1. /\ UNCHANGED cursors /\ frames' = Zeroed(frames, OffsetOf(basePosInFrame, curReadFrame), 1)
          /\ NextUnread = curReadFrame /\ NextUnread' = curReadFrame + 1 /\ CopiedEnd' = CopiedEnd
      BY <2>9 DEF FlushClear, TakersFit
    <3>2. basePosInFrame <= curReadFrame
      BY <2>9 DEF FlushClear, CursorsFit
    <3> HIDE DEF NextUnread, CopiedEnd, cursors
    <3> QED BY <3>1, <3>2, ContentCleared
  <2>10. CASE FlushRefused
    BY <2>10, ContentStays DEF FlushRefused, bufVars, TakersFit, FlushFits
  <2> QED BY <1>3, <2>1, <2>2, <2>3, <2>4, <2>5, <2>6, <2>7, <2>8, <2>9, <2>10 DEF Flusher
<1>4. ASSUME NEW t \in Threads, UNCHANGED useVars,
             BufStep(t) \/ ReadbufferLoadBase(t)
               \/ WriteBufferLoadBase(t) \/ WriteBufferLoadRead(t)
      PROVE  ContentFits'
  <2>1. CASE WritableLoadBase(t)
    <3>1. Quiet(t)
      BY <1>4, <2>1 DEF WritableLoadBase, Quiet, useVars
    <3> QED BY <1>4, <3>1, ContentQuiet
  <2>2. CASE WritableLoadRead(t)
    <3>1. Quiet(t)
      BY <1>4, <2>2 DEF WritableLoadRead, Quiet, useVars
    <3> QED BY <1>4, <3>1, ContentQuiet
  <2>3. CASE ReadableLoadBase(t)
    <3>1. Quiet(t)
      BY <1>4, <2>3 DEF ReadableLoadBase, Quiet, useVars
    <3> QED BY <1>4, <3>1, ContentQuiet
  <2>4. CASE ReadableLoadWrite(t)
    <3>1. Quiet(t)
      BY <1>4, <2>4 DEF ReadableLoadWrite, Quiet, useVars
    <3> QED BY <1>4, <3>1, ContentQuiet
  <2>5. CASE LoadOffset(t)
    <3>1. Quiet(t)
      BY <1>4, <2>5 DEF LoadOffset, Quiet, useVars
    <3> QED BY <1>4, <3>1, ContentQuiet
  <2>6. CASE SetWriteLoadBase(t)
    <3>1. Quiet(t)
      BY <1>4, <2>6 DEF SetWriteLoadBase, Quiet, useVars
    <3> QED BY <1>4, <3>1, ContentQuiet
  <2>7. CASE SetWriteLoadWrite(t)
    <3>1. Quiet(t)
      BY <1>4, <2>7 DEF SetWriteLoadWrite, Quiet, useVars, RecorderFits
    <3> QED BY <1>4, <3>1, ContentQuiet
  <2>8. CASE SetWriteLoadRead(t)
    <3>1. Quiet(t)
      BY <1>4, <2>8 DEF SetWriteLoadRead, Quiet, useVars
    <3> QED BY <1>4, <3>1, ContentQuiet
  <2>9. CASE SetWriteStore(t)
    BY <1>4, <2>9, ContentStays DEF SetWriteStore, useVars, RecorderFits, TakersFit
  <2>10. CASE SetReadLoadBase(t)
    <3>1. Quiet(t)
      BY <1>4, <2>10 DEF SetReadLoadBase, Quiet, useVars
    <3> QED BY <1>4, <3>1, ContentQuiet
  <2>11. CASE SetReadLoadRead(t)
    <3>1. Quiet(t)
      BY <1>4, <2>11 DEF SetReadLoadRead, Quiet, useVars, TakersFit
    <3> QED BY <1>4, <3>1, ContentQuiet
  <2>12. CASE SetReadLoadWrite(t)
    <3>1. Quiet(t)
      BY <1>4, <2>12 DEF SetReadLoadWrite, Quiet, useVars
    <3> QED BY <1>4, <3>1, ContentQuiet
  <2>13. CASE SetReadStore(t)
    BY <1>4, <2>13, ContentStays DEF SetReadStore, useVars, RecorderFits, TakersFit
  <2>14. CASE ReadbufferLoadBase(t)
    BY <1>4, <2>14, ContentStays DEF ReadbufferLoadBase, useVars, RecorderFits, TakersFit
  <2>15. CASE WriteBufferLoadBase(t)
    BY <1>4, <2>15, ContentStays DEF WriteBufferLoadBase, useVars, RecorderFits, TakersFit
  <2>16. CASE WriteBufferLoadRead(t)
    BY <1>4, <2>16, ContentStays DEF WriteBufferLoadRead, useVars, RecorderFits, TakersFit
  <2>17. CASE SetReadMoveBase(t)
    <3>1. t \in {C, F}
      BY <2>17 DEF SetReadMoveBase
    <3> QED BY <1>4, <2>17, <3>1, ContentMoved DEF useVars
  <2> QED BY <1>4, <2>1, <2>2, <2>3, <2>4, <2>5, <2>6, <2>7, <2>8, <2>9, <2>10, <2>11, <2>12, <2>13, <2>14, <2>15, <2>16, <2>17 DEF BufStep
<1> QED BY <1>1, <1>2, <1>3, <1>4 DEF Next, Method

LEMMA OneTakerInit == Init => OneTaker
<1> SUFFICES ASSUME Init PROVE Alone /\ ContentFits
  BY DEF OneTaker
<1>1. Alone
  BY DEF Init, BufInit, Silence, Alone, PcsAgree, CursorsFit, RecorderFits, TakersFit, ReaderFits,
         FlushFits, Clears, Returned
<1>2. NextUnread = 0 /\ CopiedEnd = 0
  BY DEF Init, BufInit, NextUnread, Clears, CopiedEnd, Copying
<1>3. ContentFits
  BY <1>2 DEF ContentFits
<1> QED BY <1>1, <1>3

LEMMA OneTakerStep == TypeOK /\ TypeOK' /\ OneTaker /\ [Next]_vars => OneTaker'
<1> SUFFICES ASSUME TypeOK, TypeOK', OneTaker, [Next]_vars, ~overlap'
             PROVE  Alone' /\ ContentFits'
  BY DEF OneTaker
<1>1. CASE UNCHANGED vars
  <2>1. Alone /\ ContentFits
    BY <1>1, Zenon DEF vars, useVars, OneTaker
  <2> QED
    BY <1>1, <2>1 DEF vars, bufVars, useVars, Alone, ContentFits, PcsAgree, CursorsFit, RecorderFits,
                      TakersFit, ReaderFits, FlushFits, Clears, NextUnread, CopiedEnd, Copying
<1>2. CASE Next
  <2>1. ~overlap
    BY <1>2, Zenon DEF Next, Method, useVars, Recorder, Record, RecordRoom, RecordCopy, RecordPublish, RecordEnd,
             Reader, Read, ReadAvailable, ReadGet, ReadTake, ReadClear, ReadPublish, ReadEnd,
             Flusher, Flush, FlushLoadWrite, FlushLoadRead, FlushLoop, FlushFails, FlushClear,
             FlushPublish, FlushNext, Flushed, FlushRefused
  <2>2. Alone /\ ContentFits
    BY <2>1 DEF OneTaker
  <2>3. Alone'
    BY <1>2, <2>2, AloneStep
  <2> QED BY <1>2, <2>2, <2>3, ContentStep
<1> QED BY <1>1, <1>2

LEMMA AlwaysOneTaker == Spec => []OneTaker
  BY OneTakerInit, OneTakerStep, TypeCorrect, PTL DEF Spec

(* What the application is given is the span at the read position.          *)
LEMMA GivenInOrder ==
    ASSUME TypeOK, OneTaker, [Next]_vars, ~overlap, got' # got
    PROVE  /\ got' \in Int /\ got \in Int /\ floor \in Nat /\ floor' = floor
           /\ got' > got /\ got' >= floor /\ (got' <= got + 1 \/ got' <= floor)
<1>0. /\ basePosInFrame \in Nat /\ curReadFrame \in Nat /\ curWriteFrame \in Nat
      /\ got \in Int /\ floor \in Nat /\ Alone /\ ContentFits
  BY DEF TypeOK, OneTaker
<1>1. ReadTake
  BY DEF Next, Method, vars, useVars, Recorder, Record, RecordRoom, RecordCopy, RecordPublish, RecordEnd,
         Reader, Read, ReadAvailable, ReadGet, ReadClear, ReadPublish, ReadEnd,
         Flusher, Flush, FlushLoadWrite, FlushLoadRead, FlushLoop, FlushFails, FlushClear,
         FlushPublish, FlushNext, Flushed, FlushRefused
<1>2. at[C] = "region" /\ opc[C] = "done" /\ got' = frames[offset[C]] /\ floor' = floor /\ at[F] = "idle"
  BY <1>0, <1>1 DEF ReadTake, Alone, PcsAgree
<1>3. /\ curReadFrame < curWriteFrame /\ offset[C] = OffsetOf(basePosInFrame, curReadFrame)
      /\ got < curReadFrame /\ floor <= curReadFrame
      /\ curReadFrame <= got + 1 \/ curReadFrame <= floor
  BY <1>0, <1>2 DEF Alone, TakersFit, ReaderFits, Clears
<1>4. got' = curReadFrame
  <2>1. NextUnread = curReadFrame
    BY <1>0, <1>2 DEF NextUnread, Clears
  <2>2. CopiedEnd >= curWriteFrame /\ CopiedEnd \in Nat
    BY <1>0, UnreadRange
  <2> HIDE DEF NextUnread, CopiedEnd
  <2> QED BY <1>0, <1>2, <1>3, <2>1, <2>2 DEF ContentFits
<1> QED BY <1>0, <1>2, <1>3, <1>4

(* Until the application flushes while it reads, what it is given is        *)
(* captured audio, each span later than all before: no cleared or stale     *)
(* span, and none twice.                                                    *)
THEOREM AudioIsDeliveredInOrder == Spec => DeliveredInOrder
<1>1. TypeOK /\ OneTaker /\ [Next]_vars => [~overlap /\ got' # got => got' > got]_vars
  BY GivenInOrder
<1> QED BY <1>1, AlwaysOneTaker, TypeCorrect, PTL DEF Spec, DeliveredInOrder

(* Until then no span that has been published is lost to the application    *)
(* but to a flush, and a flush discards all it found published.             *)
THEOREM OnlyFlushesDiscard == Spec => OnlyFlushDiscards
<1> DEFINE A == ~overlap /\ got' # got =>
                  /\ got' >= floor
                  /\ got' = got + 1 \/ \A p \in got + 1 .. got' - 1 : p < floor'
<1>1. TypeOK /\ OneTaker /\ [Next]_vars => A
  <2> SUFFICES ASSUME TypeOK, OneTaker, [Next]_vars, ~overlap, got' # got
               PROVE  /\ got' >= floor
                      /\ got' = got + 1 \/ \A p \in got + 1 .. got' - 1 : p < floor'
    OBVIOUS
  <2> QED BY GivenInOrder
<1> QED BY <1>1, AlwaysOneTaker, TypeCorrect, PTL DEF Spec, OnlyFlushDiscards
=============================================================================
