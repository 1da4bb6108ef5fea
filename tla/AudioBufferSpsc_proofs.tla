----------------------- MODULE AudioBufferSpsc_proofs -----------------------
(***************************************************************************)
(* Proofs, for every buffer size and every bound on positions, of the      *)
(* invariants of AudioBufferSpsc.                                          *)
(***************************************************************************)
EXTENDS AudioBufferSpsc, TLAPS

(* Where each side is inside the buffer while it does what at says.         *)
PcsAgree ==
    /\ W # R /\ Threads = {W, R} /\ Total \in Nat \ {0} /\ MaxPos \in Nat
    /\ at[W] \in {"idle", "region", "copied", "publish"}
    /\ at[R] \in {"idle", "region", "taken", "cleared", "publish"}
    /\ at[W] = "idle"    => opc[W] \in {"idle", "done", "ok"}
    /\ at[W] = "region"  => opc[W] \in {"gw_base", "gw_read", "gw_offset", "done"}
    /\ at[W] = "copied"  => opc[W] = "done"
    /\ at[W] = "publish" => opc[W] \in {"sw_base", "sw_write", "sw_read", "sw_store", "ok"}
    /\ at[R] = "idle"    => opc[R] \in {"idle", "done", "ok"}
    /\ at[R] = "region"  => opc[R] \in {"gr_base", "gr_write", "gr_offset", "done"}
    /\ at[R] \in {"taken", "cleared"} => opc[R] = "done"
    /\ at[R] = "publish" => opc[R] \in {"sr_base", "sr_read", "sr_write",
                                        "sr_move", "sr_store", "ok"}

(* The cursors; the base is ahead of the read cursor only between the two   *)
(* stores of SetCurReadFrame.                                               *)
CursorInv ==
    /\ curReadFrame <= curWriteFrame
    /\ curWriteFrame <= curReadFrame + Total
    /\ basePosInFrame <= curWriteFrame
    /\ curReadFrame < basePosInFrame + Total
    /\ curWriteFrame <= MaxPos
    /\ opc[R] # "sr_store" => basePosInFrame <= curReadFrame

(* What the writer has loaded is still good for it, however far the reader  *)
(* has moved since.                                                         *)
WriterInv ==
    /\ at[W] = "region" => from[W] = curWriteFrame /\ pos[W] = curWriteFrame
    /\ at[W] = "copied" => from[W] = curWriteFrame
    /\ at[W] = "publish" /\ opc[W] # "ok" =>
         from[W] = curWriteFrame /\ pos[W] = from[W] + len[W]
    /\ at[W] = "copied" \/ (at[W] = "publish" /\ opc[W] # "ok") =>
         /\ len[W] >= 1
         /\ from[W] + len[W] <= curReadFrame + Total
         /\ from[W] + len[W] <= MaxPos
    /\ opc[W] \in {"gw_read", "sw_write"} =>
         /\ seenBase[W] <= basePosInFrame
         /\ pos[W] < seenBase[W] + 2 * Total
    /\ opc[W] = "gw_offset" =>
         size[W] >= 1 /\ pos[W] + size[W] <= curReadFrame + Total
    /\ at[W] = "region" /\ opc[W] = "done" /\ size[W] > 0 =>
         /\ from[W] + size[W] <= curReadFrame + Total
         /\ offset[W] = OffsetOf(basePosInFrame, from[W])

(* What the reader has loaded is exact, but for the write position, which   *)
(* may have grown.                                                          *)
ReaderInv ==
    /\ at[R] = "region" => from[R] = curReadFrame /\ pos[R] = curReadFrame
    /\ at[R] \in {"taken", "cleared"} => from[R] = curReadFrame
    /\ at[R] = "publish" /\ opc[R] # "ok" =>
         from[R] = curReadFrame /\ pos[R] = from[R] + len[R]
    /\ at[R] \in {"taken", "cleared"} \/ (at[R] = "publish" /\ opc[R] # "ok") =>
         len[R] >= 1 /\ from[R] + len[R] <= curWriteFrame
    /\ opc[R] \in {"gr_write", "sr_read", "sr_write", "sr_move"} =>
         seenBase[R] = basePosInFrame
    /\ opc[R] = "gr_offset" =>
         size[R] >= 1 /\ pos[R] + size[R] <= curWriteFrame
    /\ at[R] = "region" /\ opc[R] = "done" /\ size[R] > 0 =>
         from[R] + size[R] <= curWriteFrame
    /\ (at[R] = "region" /\ opc[R] = "done" /\ size[R] > 0)
          \/ at[R] \in {"taken", "cleared"} =>
         /\ seenBase[R] = basePosInFrame
         /\ offset[R] = OffsetOf(basePosInFrame, from[R])
    /\ opc[R] = "sr_move"  => pos[R] >= basePosInFrame + Total
    /\ opc[R] = "sr_store" => /\ basePosInFrame <= pos[R]
                              /\ pos[R] < basePosInFrame + Total
    /\ at[R] = "publish" /\ opc[R] = "ok" => curReadFrame = from[R] + len[R] /\ len[R] >= 1

(* Is there audio the writer has copied and not yet published?              *)
Copying == at[W] = "copied" \/ (at[W] = "publish" /\ opc[W] # "ok")
CopiedEnd == IF Copying THEN from[W] + len[W] ELSE curWriteFrame

(* Every position from the first unread one to the last one copied is in    *)
(* its slot.                                                                *)
ContentInv ==
    \A p \in Nat : NextUnread <= p /\ p < CopiedEnd =>
        frames[OffsetOf(basePosInFrame, p)] = p

OrderInv == PcsAgree /\ CursorInv /\ WriterInv /\ ReaderInv
IInv == TypeOK /\ OrderInv /\ ContentInv

-----------------------------------------------------------------------------
USE TotalAssumption, SpscAssumption DEF TotalAssumption, SpscAssumption

(* Distances round the data area are numbers.                               *)
LEMMA DistIsInt == \A o \in Nat, s \in Slots : Dist(o, s) \in Int
BY DEF Dist, Slots

(* No step leaves the types: counters never underflow, since every          *)
(* subtraction is guarded by the method's own range check.                  *)
THEOREM TypeCorrect == Spec => []TypeOK
<1>1. Init => TypeOK
  BY DEF Init, TypeOK, BufInit, BufTypeOK, Returned, BufPcs, UsePcs, Silence, Slots
<1>2. TypeOK /\ [Next]_vars => TypeOK'
  <2> SUFFICES ASSUME TypeOK, [Next]_vars PROVE TypeOK'
    OBVIOUS
  <2> USE DEF TypeOK, BufTypeOK, BufPcs, UsePcs, Returned, cursors, regs, useVars, Goto, Call, Now
  <2>1. CASE Writer
    <3>1. CASE WriteBegin   BY <3>1 DEF WriteBegin
    <3>2. CASE WriteGiveUp  BY <3>2 DEF WriteGiveUp, bufVars
    <3>3. CASE WriteCopy
      <4>1. PICK n \in 1 .. size[W] :
              /\ frames' = Copied(frames, offset[W], from[W], n)
              /\ len' = [len EXCEPT ![W] = n]
        BY <3>3 DEF WriteCopy
      <4>2. from[W] \in Nat /\ offset[W] \in Nat /\ frames \in [Slots -> Int]
        OBVIOUS
      <4>3. frames' \in [Slots -> Int]
        <5> HIDE DEF TypeOK
        <5> QED BY <4>1, <4>2, DistIsInt DEF Copied
      <4> QED BY <3>3, <4>1, <4>3 DEF WriteCopy
    <3>4. CASE WritePublish BY <3>4 DEF WritePublish
    <3>5. CASE WriteEnd     BY <3>5 DEF WriteEnd, bufVars
    <3> QED BY <2>1, <3>1, <3>2, <3>3, <3>4, <3>5 DEF Writer
  <2>2. CASE Reader
    <3>1. CASE ReadBegin    BY <3>1 DEF ReadBegin
    <3>2. CASE ReadGiveUp   BY <3>2 DEF ReadGiveUp, bufVars
    <3>3. CASE ReadTake     BY <3>3 DEF ReadTake, bufVars
    <3>4. CASE ReadClear    
      <4>1. frames' \in [Slots -> Int]
        BY <3>4 DEF ReadClear, Zeroed, Silence, Slots
      <4> QED BY <3>4, <4>1 DEF ReadClear
    <3>5. CASE ReadPublish  BY <3>5 DEF ReadPublish
    <3>6. CASE ReadEnd      BY <3>6 DEF ReadEnd, bufVars
    <3> QED BY <2>2, <3>1, <3>2, <3>3, <3>4, <3>5, <3>6 DEF Reader
  <2>3. ASSUME NEW t \in Threads, BufStep(t), UNCHANGED useVars PROVE TypeOK'
    <3> USE <2>3
    <3>1. CASE WritableLoadBase(t)  BY <3>1 DEF WritableLoadBase
    <3>2. CASE WritableLoadRead(t)  BY <3>2 DEF WritableLoadRead
    <3>3. CASE ReadableLoadBase(t)  BY <3>3 DEF ReadableLoadBase
    <3>4. CASE ReadableLoadWrite(t) BY <3>4 DEF ReadableLoadWrite
    <3>5. CASE LoadOffset(t)        BY <3>5 DEF LoadOffset, InTwoLaps, OffsetOf
    <3>6. CASE SetWriteLoadBase(t)  BY <3>6 DEF SetWriteLoadBase
    <3>7. CASE SetWriteLoadWrite(t) BY <3>7 DEF SetWriteLoadWrite
    <3>8. CASE SetWriteLoadRead(t)  BY <3>8 DEF SetWriteLoadRead
    <3>9. CASE SetWriteStore(t)     BY <3>9 DEF SetWriteStore
    <3>10. CASE SetReadLoadBase(t)  BY <3>10 DEF SetReadLoadBase
    <3>11. CASE SetReadLoadRead(t)  BY <3>11 DEF SetReadLoadRead
    <3>12. CASE SetReadLoadWrite(t) BY <3>12 DEF SetReadLoadWrite
    <3>13. CASE SetReadMoveBase(t)  BY <3>13 DEF SetReadMoveBase
    <3>14. CASE SetReadStore(t)     BY <3>14 DEF SetReadStore
    <3> QED BY <3>1, <3>2, <3>3, <3>4, <3>5, <3>6, <3>7, <3>8, <3>9, <3>10,
               <3>11, <3>12, <3>13, <3>14 DEF BufStep
  <2>4. CASE UNCHANGED vars BY <2>4 DEF vars, bufVars
  <2> QED BY <2>1, <2>2, <2>3, <2>4 DEF Next, Method
<1> QED BY <1>1, <1>2, PTL DEF Spec

-----------------------------------------------------------------------------
(* The inductive step for the cursors and registers, one writer, reader or  *)
(* buffer step at a time.                                                   *)
LEMMA OrderInit == Init => OrderInv
BY DEF Init, BufInit, OrderInv, PcsAgree, CursorInv, WriterInv, ReaderInv

LEMMA OrderStep == TypeOK /\ OrderInv /\ [Next]_vars => OrderInv'
<1> SUFFICES ASSUME TypeOK, OrderInv, [Next]_vars PROVE OrderInv'
  OBVIOUS
<1> USE DEF TypeOK, BufTypeOK, OrderInv, PcsAgree, CursorInv, WriterInv, ReaderInv,
            cursors, regs, useVars, Goto, Call, Now
<1>1. CASE Writer
  <2>1. CASE WriteBegin   BY <2>1 DEF WriteBegin
  <2>2. CASE WriteGiveUp  BY <2>2 DEF WriteGiveUp, bufVars, NoRegion
  <2>3. CASE WriteCopy    BY <2>3 DEF WriteCopy
  <2>4. CASE WritePublish BY <2>4 DEF WritePublish
  <2>5. CASE WriteEnd     BY <2>5 DEF WriteEnd, bufVars
  <2> QED BY <1>1, <2>1, <2>2, <2>3, <2>4, <2>5 DEF Writer
<1>2. CASE Reader
  <2>1. CASE ReadBegin    BY <2>1 DEF ReadBegin
  <2>2. CASE ReadGiveUp   BY <2>2 DEF ReadGiveUp, bufVars, NoRegion
  <2>3. CASE ReadTake     BY <2>3 DEF ReadTake, bufVars
  <2>4. CASE ReadClear    BY <2>4 DEF ReadClear
  <2>5. CASE ReadPublish  BY <2>5 DEF ReadPublish
  <2>6. CASE ReadEnd      BY <2>6 DEF ReadEnd, bufVars
  <2> QED BY <1>2, <2>1, <2>2, <2>3, <2>4, <2>5, <2>6 DEF Reader
<1>3. ASSUME NEW t \in Threads, BufStep(t), UNCHANGED useVars PROVE OrderInv'
  <2> USE <1>3
  <2>0. t \in {W, R} OBVIOUS
  <2> USE <2>0
  <2>1. CASE WritableLoadBase(t)  BY <2>1 DEF WritableLoadBase
  <2>2. CASE WritableLoadRead(t)  BY <2>2 DEF WritableLoadRead, InTwoLaps
  <2>3. CASE ReadableLoadBase(t)  BY <2>3 DEF ReadableLoadBase
  <2>4. CASE ReadableLoadWrite(t) BY <2>4 DEF ReadableLoadWrite
  <2>5. CASE LoadOffset(t)        BY <2>5 DEF LoadOffset, InTwoLaps
  <2>6. CASE SetWriteLoadBase(t)  BY <2>6 DEF SetWriteLoadBase
  <2>7. CASE SetWriteLoadWrite(t) BY <2>7 DEF SetWriteLoadWrite
  <2>8. CASE SetWriteLoadRead(t)  BY <2>8 DEF SetWriteLoadRead
  <2>9. CASE SetWriteStore(t)     BY <2>9 DEF SetWriteStore
  <2>10. CASE SetReadLoadBase(t)  BY <2>10 DEF SetReadLoadBase
  <2>11. CASE SetReadLoadRead(t)  BY <2>11 DEF SetReadLoadRead
  <2>12. CASE SetReadLoadWrite(t) BY <2>12 DEF SetReadLoadWrite
  <2>13. CASE SetReadMoveBase(t)  BY <2>13 DEF SetReadMoveBase, OffsetOf
  <2>14. CASE SetReadStore(t)     BY <2>14 DEF SetReadStore
  <2> QED BY <2>1, <2>2, <2>3, <2>4, <2>5, <2>6, <2>7, <2>8, <2>9, <2>10,
             <2>11, <2>12, <2>13, <2>14 DEF BufStep
<1>4. CASE UNCHANGED vars BY <1>4 DEF vars, bufVars
<1> QED BY <1>1, <1>2, <1>3, <1>4 DEF Next, Method

-----------------------------------------------------------------------------
(* Slots.  Positions less than one lap apart have different slots, as far   *)
(* apart as the positions are; moving the base one lap on leaves the slot   *)
(* of every position beyond the first lap where it was.                     *)
LEMMA SlotOf ==
    ASSUME NEW b \in Nat, NEW p \in Nat, InTwoLaps(b, p)
    PROVE  OffsetOf(b, p) \in Slots
BY DEF InTwoLaps, OffsetOf, Slots

LEMMA DistAhead ==
    ASSUME NEW b \in Nat, NEW q \in Nat, NEW p \in Nat,
           b <= q, q <= p, p < q + Total, InTwoLaps(b, p)
    PROVE  Dist(OffsetOf(b, q), OffsetOf(b, p)) = p - q
BY DEF InTwoLaps, OffsetOf, Dist

LEMMA DistBehind ==
    ASSUME NEW b \in Nat, NEW q \in Nat, NEW p \in Nat,
           b <= p, p < q, q < p + Total, InTwoLaps(b, q)
    PROVE  Dist(OffsetOf(b, q), OffsetOf(b, p)) = p - q + Total
BY DEF InTwoLaps, OffsetOf, Dist

LEMMA BaseMove ==
    ASSUME NEW b \in Nat, NEW p \in Nat, b + Total <= p, p < b + 2 * Total
    PROVE  OffsetOf(b + Total, p) = OffsetOf(b, p)
BY DEF OffsetOf

(* The positions ContentInv speaks of have one slot each.                   *)
LEMMA ContentRange ==
    ASSUME TypeOK, OrderInv
    PROVE  /\ NextUnread \in Nat /\ CopiedEnd \in Nat
           /\ basePosInFrame <= NextUnread /\ NextUnread <= curWriteFrame
           /\ curReadFrame <= NextUnread /\ curWriteFrame <= CopiedEnd
           /\ CopiedEnd <= curReadFrame + Total
BY DEF TypeOK, BufTypeOK, OrderInv, PcsAgree, CursorInv, WriterInv, ReaderInv,
       NextUnread, Clearing, CopiedEnd, Copying

(* The inductive step for the audio itself: only WriteCopy, ReadClear and   *)
(* SetReadMoveBase change a slot or what slot a position has.               *)
LEMMA ContentStep ==
    TypeOK /\ TypeOK' /\ OrderInv /\ ContentInv /\ [Next]_vars => ContentInv'
<1> SUFFICES ASSUME TypeOK, TypeOK', OrderInv, ContentInv, [Next]_vars
             PROVE  ContentInv'
  OBVIOUS
<1> USE DEF TypeOK, BufTypeOK, PcsAgree, cursors, regs, useVars, Goto, Call, Now
<1>0. OrderInv'
  BY OrderStep
<1>1. CASE WriteCopy
  <2> SUFFICES ASSUME NEW p \in Nat, NextUnread' <= p, p < CopiedEnd'
               PROVE  frames'[OffsetOf(basePosInFrame, p)] = p
    BY <1>1 DEF WriteCopy, ContentInv
  <2>1. PICK n \in 1 .. size[W] :
          /\ frames' = Copied(frames, offset[W], from[W], n)
          /\ len' = [len EXCEPT ![W] = n]
    BY <1>1 DEF WriteCopy
  <2>2. /\ offset[W] = OffsetOf(basePosInFrame, curWriteFrame)
        /\ from[W] = curWriteFrame
        /\ curWriteFrame + n <= curReadFrame + Total
        /\ InTwoLaps(basePosInFrame, curWriteFrame)
    BY <1>1, <2>1 DEF WriteCopy, OrderInv, WriterInv, CursorInv, InTwoLaps
  <2>3. NextUnread' = NextUnread /\ CopiedEnd = curWriteFrame
        /\ CopiedEnd' = curWriteFrame + n
    BY <1>1, <2>1, <2>2 DEF WriteCopy, OrderInv, NextUnread, Clearing, CopiedEnd, Copying
  <2>4. InTwoLaps(basePosInFrame, p) /\ basePosInFrame <= p
    BY <2>2, <2>3, ContentRange DEF OrderInv, CursorInv, InTwoLaps
  <2>5. OffsetOf(basePosInFrame, p) \in Slots
    BY <2>4, SlotOf
  <2>6. CASE p < curWriteFrame
    <3>1. frames[OffsetOf(basePosInFrame, p)] = p
      BY <2>3, <2>6 DEF ContentInv
    <3>2. curWriteFrame + n <= p + Total
      BY <2>2, <2>3, ContentRange
    <3>3. Dist(offset[W], OffsetOf(basePosInFrame, p)) = p - curWriteFrame + Total
      BY <2>2, <2>4, <2>6, <3>2, DistBehind
    <3> QED BY <2>1, <2>5, <3>1, <3>2, <3>3 DEF Copied
  <2>7. CASE curWriteFrame <= p
    <3>1. p < curWriteFrame + Total
      BY <2>2, <2>3 DEF OrderInv, CursorInv
    <3>2. Dist(offset[W], OffsetOf(basePosInFrame, p)) = p - curWriteFrame
      BY <2>2, <2>4, <2>7, <3>1, DistAhead DEF OrderInv, CursorInv
    <3> QED BY <2>1, <2>2, <2>3, <2>5, <3>2 DEF Copied
  <2> QED BY <2>6, <2>7
<1>2. CASE ReadClear
  <2> SUFFICES ASSUME NEW p \in Nat, NextUnread' <= p, p < CopiedEnd'
               PROVE  frames'[OffsetOf(basePosInFrame, p)] = p
    BY <1>2 DEF ReadClear, ContentInv
  <2>1. /\ offset[R] = OffsetOf(basePosInFrame, curReadFrame)
        /\ NextUnread = curReadFrame
        /\ NextUnread' = curReadFrame + len[R]
        /\ CopiedEnd' = CopiedEnd
        /\ basePosInFrame <= curReadFrame
    BY <1>2 DEF ReadClear, OrderInv, ReaderInv, CursorInv, NextUnread, Clearing, CopiedEnd, Copying
  <2>2. /\ p < curReadFrame + Total
        /\ InTwoLaps(basePosInFrame, p)
    BY <2>1, ContentRange DEF OrderInv, CursorInv, InTwoLaps
  <2>3. Dist(offset[R], OffsetOf(basePosInFrame, p)) = p - curReadFrame
    BY <2>1, <2>2, DistAhead DEF ReadClear
  <2>4. frames[OffsetOf(basePosInFrame, p)] = p
    BY <2>1 DEF ContentInv
  <2>5. OffsetOf(basePosInFrame, p) \in Slots
    BY <2>2, SlotOf
  <2> QED BY <1>2, <2>1, <2>3, <2>4, <2>5 DEF ReadClear, Zeroed
<1>3. CASE SetReadMoveBase(R) /\ UNCHANGED useVars
  <2>1. basePosInFrame' = basePosInFrame + Total
    BY <1>3 DEF SetReadMoveBase, OrderInv, ReaderInv
  <2>2. NextUnread' = NextUnread /\ CopiedEnd' = CopiedEnd /\ frames' = frames
    BY <1>3 DEF SetReadMoveBase, NextUnread, Clearing, CopiedEnd, Copying
  <2>3. basePosInFrame + Total <= NextUnread
    BY <1>3 DEF SetReadMoveBase, OrderInv, ReaderInv, NextUnread, Clearing
  <2>4. CopiedEnd <= basePosInFrame + 2 * Total
    BY ContentRange DEF OrderInv, CursorInv
  <2>5. \A p \in Nat : NextUnread <= p /\ p < CopiedEnd =>
          OffsetOf(basePosInFrame + Total, p) = OffsetOf(basePosInFrame, p)
    BY <2>3, <2>4, BaseMove, ContentRange
  <2> QED BY <2>1, <2>2, <2>5 DEF ContentInv
<1>4. NextUnread' \in Nat /\ CopiedEnd' \in Nat
  BY <1>0 DEF OrderInv, NextUnread, Clearing, CopiedEnd, Copying
<1>5. ASSUME frames' = frames, basePosInFrame' = basePosInFrame,
             NextUnread' >= NextUnread, CopiedEnd' <= CopiedEnd
      PROVE  ContentInv'
  BY <1>4, <1>5, ContentRange DEF ContentInv, OrderInv, CursorInv
<1>6. CASE Writer
  <2> USE DEF OrderInv, CursorInv, WriterInv, NextUnread, Clearing, CopiedEnd, Copying
  <2>1. CASE WriteBegin   BY <1>5, <2>1 DEF WriteBegin
  <2>2. CASE WriteGiveUp  BY <1>5, <2>2 DEF WriteGiveUp, bufVars
  <2>3. CASE WritePublish BY <1>5, <2>3 DEF WritePublish
  <2>4. CASE WriteEnd     BY <1>5, <2>4 DEF WriteEnd, bufVars
  <2> QED BY <1>1, <1>6, <2>1, <2>2, <2>3, <2>4 DEF Writer
<1>7. CASE Reader
  <2> USE DEF OrderInv, CursorInv, ReaderInv, NextUnread, Clearing, CopiedEnd, Copying
  <2>1. CASE ReadBegin    BY <1>5, <2>1 DEF ReadBegin
  <2>2. CASE ReadGiveUp   BY <1>5, <2>2 DEF ReadGiveUp, bufVars
  <2>3. CASE ReadTake     BY <1>5, <2>3 DEF ReadTake, bufVars
  <2>4. CASE ReadPublish  BY <1>5, <2>4 DEF ReadPublish
  <2>5. CASE ReadEnd      BY <1>5, <2>5 DEF ReadEnd, bufVars
  <2> QED BY <1>2, <1>7, <2>1, <2>2, <2>3, <2>4, <2>5 DEF Reader
<1>8. ASSUME NEW t \in Threads, BufStep(t), UNCHANGED useVars PROVE ContentInv'
  <2> USE <1>8 DEF OrderInv, CursorInv, WriterInv, ReaderInv,
                   NextUnread, Clearing, CopiedEnd, Copying
  <2>0. t \in {W, R} OBVIOUS
  <2> USE <2>0
  <2>1. CASE WritableLoadBase(t)  BY <1>5, <2>1 DEF WritableLoadBase
  <2>2. CASE WritableLoadRead(t)  BY <1>5, <2>2 DEF WritableLoadRead
  <2>3. CASE ReadableLoadBase(t)  BY <1>5, <2>3 DEF ReadableLoadBase
  <2>4. CASE ReadableLoadWrite(t) BY <1>5, <2>4 DEF ReadableLoadWrite
  <2>5. CASE LoadOffset(t)        BY <1>5, <2>5 DEF LoadOffset
  <2>6. CASE SetWriteLoadBase(t)  BY <1>5, <2>6 DEF SetWriteLoadBase
  <2>7. CASE SetWriteLoadWrite(t) BY <1>5, <2>7 DEF SetWriteLoadWrite
  <2>8. CASE SetWriteLoadRead(t)  BY <1>0, <1>5, <2>8 DEF SetWriteLoadRead
  <2>9. CASE SetWriteStore(t)     BY <1>5, <2>9 DEF SetWriteStore
  <2>10. CASE SetReadLoadBase(t)  BY <1>5, <2>10 DEF SetReadLoadBase
  <2>11. CASE SetReadLoadRead(t)  BY <1>5, <2>11 DEF SetReadLoadRead
  <2>12. CASE SetReadLoadWrite(t) BY <1>5, <2>12 DEF SetReadLoadWrite
  <2>13. CASE SetReadMoveBase(t)  BY <1>3, <2>13 DEF SetReadMoveBase
  <2>14. CASE SetReadStore(t)     BY <1>5, <2>14 DEF SetReadStore
  <2> QED BY <2>1, <2>2, <2>3, <2>4, <2>5, <2>6, <2>7, <2>8, <2>9, <2>10,
             <2>11, <2>12, <2>13, <2>14 DEF BufStep
<1>9. CASE UNCHANGED vars
  BY <1>9 DEF vars, bufVars, ContentInv, NextUnread, Clearing, CopiedEnd, Copying
<1> QED BY <1>6, <1>7, <1>8, <1>9 DEF Next, Method

LEMMA Inductive == Spec => []IInv
<1>1. Init => IInv
  <2> SUFFICES ASSUME Init PROVE IInv
    OBVIOUS
  <2>1. TypeOK
    BY DEF Init, TypeOK, BufInit, BufTypeOK, Returned, BufPcs, UsePcs, Silence, Slots
  <2>2. ContentInv
    BY DEF Init, BufInit, ContentInv, NextUnread, Clearing, CopiedEnd, Copying
  <2> QED BY <2>1, <2>2, OrderInit DEF IInv
<1>2. TypeOK /\ TypeOK' /\ IInv /\ [Next]_vars => IInv'
  BY OrderStep, ContentStep DEF IInv
<1> QED BY <1>1, <1>2, TypeCorrect, PTL DEF Spec

(* The cursors never leave each other's range (SetCurWriteFrame,            *)
(* SetCurReadFrame), whatever either side loads in whatever order.          *)
THEOREM CursorsAlwaysInRange == Spec => []CursorsInRange
<1>1. IInv => CursorsInRange
  BY DEF IInv, TypeOK, BufTypeOK, OrderInv, PcsAgree, CursorInv, CursorsInRange
<1> QED BY <1>1, Inductive, PTL

(* No range check of a buffer method ever fails a caller that works on one  *)
(* region at a time.                                                        *)
THEOREM NeverRefusesACorrectCaller == Spec => []NeverRefused
<1>1. IInv => NeverRefused
  BY DEF IInv, OrderInv, PcsAgree, NeverRefused
<1> QED BY <1>1, Inductive, PTL

(* The reader takes exactly the audio that was written.                     *)
THEOREM ReaderTakesWhatWasWritten == Spec => []TakesWhatWasWritten
<1>1. IInv => TakesWhatWasWritten
  <2> SUFFICES ASSUME IInv, at[R] = "taken", NEW i \in 0 .. len[R] - 1
               PROVE  frames[OffsetOf(seenBase[R], from[R] + i)] = from[R] + i
    BY DEF TakesWhatWasWritten
  <2>1. /\ seenBase[R] = basePosInFrame
        /\ from[R] + i \in Nat
        /\ NextUnread <= from[R] + i
        /\ from[R] + i < CopiedEnd
    <3>1. TypeOK /\ OrderInv
      BY DEF IInv
    <3>2. len[R] \in Nat /\ from[R] \in Nat /\ i \in Nat /\ i < len[R]
      BY <3>1 DEF TypeOK, OrderInv, PcsAgree
    <3>3. NextUnread = from[R] /\ from[R] + len[R] <= curWriteFrame
          /\ seenBase[R] = basePosInFrame
      BY <3>1 DEF OrderInv, ReaderInv, NextUnread, Clearing
    <3> QED BY <3>1, <3>2, <3>3, ContentRange DEF TypeOK, BufTypeOK
  <2> QED BY <2>1 DEF IInv, ContentInv
<1> QED BY <1>1, Inductive, PTL

(* Published audio stays in its slot until it has been taken.               *)
THEOREM UnreadStaysIntact == Spec => []UnreadIntact
<1>1. IInv => UnreadIntact
  <2> SUFFICES ASSUME IInv, NEW p \in 0 .. MaxPos,
                      NextUnread <= p, p < curWriteFrame
               PROVE  frames[OffsetOf(basePosInFrame, p)] = p
    BY DEF UnreadIntact
  <2>1. p \in Nat /\ p < CopiedEnd
    BY ContentRange DEF IInv, TypeOK, BufTypeOK
  <2> QED BY <2>1 DEF IInv, ContentInv
<1> QED BY <1>1, Inductive, PTL

(* One writer and one reader see a bounded FIFO: each step of the buffer    *)
(* is a write, a read or a stutter of AudioFifo.                            *)
THEOREM ImplementsFifo == Spec => FifoSpec
<1>1. Init => Fifo!Init
  BY DEF Init, BufInit, Fifo!Init
<1>2. IInv /\ [Next]_vars => [Fifo!Next]_<<curWriteFrame, curReadFrame>>
  <2> SUFFICES ASSUME IInv, [Next]_vars
               PROVE  [Fifo!Next]_<<curWriteFrame, curReadFrame>>
    OBVIOUS
  <2> USE DEF IInv, TypeOK, BufTypeOK, OrderInv, PcsAgree, CursorInv, WriterInv, ReaderInv
  <2>1. ASSUME SetWriteStore(W) PROVE Fifo!Next
    <3>1. len[W] \in 1 .. Total /\ Fifo!Write(len[W])
      BY <2>1 DEF SetWriteStore, Fifo!Write
    <3> QED BY <3>1 DEF Fifo!Next
  <2>2. ASSUME SetReadStore(R) PROVE Fifo!Next
    <3>1. len[R] \in 1 .. Total /\ Fifo!Read(len[R])
      BY <2>2 DEF SetReadStore, Fifo!Read
    <3> QED BY <3>1 DEF Fifo!Next
  <2>3. CASE UNCHANGED <<curWriteFrame, curReadFrame>>
    BY <2>3
  <2>4. CASE Writer
    BY <2>3, <2>4 DEF Writer, WriteBegin, WriteGiveUp, WriteCopy, WritePublish,
                      WriteEnd, bufVars, cursors
  <2>5. CASE Reader
    BY <2>3, <2>5 DEF Reader, ReadBegin, ReadGiveUp, ReadTake, ReadClear,
                      ReadPublish, ReadEnd, bufVars, cursors
  <2>6. ASSUME NEW t \in Threads, BufStep(t)
        PROVE  [Fifo!Next]_<<curWriteFrame, curReadFrame>>
    BY <2>1, <2>2, <2>3, <2>6
       DEF BufStep, WritableLoadBase, WritableLoadRead, ReadableLoadBase,
           ReadableLoadWrite, LoadOffset, SetWriteLoadBase, SetWriteLoadWrite,
           SetWriteLoadRead, SetReadLoadBase, SetReadLoadRead,
           SetReadLoadWrite, SetReadMoveBase, SetWriteStore, SetReadStore, cursors
  <2> QED BY <2>3, <2>4, <2>5, <2>6 DEF Next, Method, vars, bufVars
<1> QED BY <1>1, <1>2, Inductive, PTL DEF Spec, FifoSpec, Fifo!Spec
=============================================================================
