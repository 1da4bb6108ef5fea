-------------------------- MODULE AudioBufferSpsc --------------------------
(***************************************************************************)
(* One writer and one reader on an OHAudioBuffer, each executing the       *)
(* buffer methods step by step: the discipline every owner of a buffer     *)
(* claims to follow (the client writes and the server reads a playback     *)
(* stream; a recording stream is the other way round).                     *)
(*                                                                         *)
(* The writer asks for the writable region, copies audio into it and       *)
(* publishes the new write position; the reader asks for the readable      *)
(* region, takes len frames, zeroes them and publishes the new read        *)
(* position.  AudioBufferSpsc_proofs proves its invariants for every       *)
(* buffer size.                                                            *)
(***************************************************************************)
EXTENDS OHAudioBuffer

CONSTANTS
    W,        \* the writing thread
    R,        \* the reading thread
    MaxPos    \* bound on positions

ASSUME SpscAssumption == W # R /\ Threads = {W, R} /\ MaxPos \in Nat

VARIABLES
    at,    \* what a thread is doing between its calls of the buffer
    from,  \* first position of the region it works on
    len    \* number of frames it copies or takes

useVars == <<at, from, len>>
vars == <<bufVars, useVars>>

Init ==
    /\ BufInit
    /\ at = [t \in Threads |-> "idle"]
    /\ from = [t \in Threads |-> 0]
    /\ len = [t \in Threads |-> 0]

(* The buffer returned an error or an empty region.                         *)
NoRegion(t) == opc[t] = "err" \/ (opc[t] = "done" /\ size[t] = 0)

Now(t, s) == at' = [at EXCEPT ![t] = s]

-----------------------------------------------------------------------------
(* Writer: WriteCacheData / WriteDataChunk / CapturerInServer::OnReadData.  *)

WriteBegin ==
    /\ at[W] = "idle"
    /\ curWriteFrame < MaxPos
    /\ Call(W, "gw_base", curWriteFrame)
    /\ Now(W, "region")
    /\ from' = [from EXCEPT ![W] = curWriteFrame]
    /\ UNCHANGED <<cursors, frames, seenBase, seenPos, size, offset, len>>

(* No room, or the region was refused: the caller returns.                  *)
WriteGiveUp ==
    /\ at[W] = "region" /\ NoRegion(W)
    /\ Now(W, "idle")
    /\ UNCHANGED <<bufVars, from, len>>

WriteCopy ==
    /\ at[W] = "region" /\ opc[W] = "done"
    /\ \E n \in 1 .. size[W] :
         /\ from[W] + n <= MaxPos
         /\ frames' = Copied(frames, offset[W], from[W], n)
         /\ len' = [len EXCEPT ![W] = n]
    /\ Now(W, "copied")
    /\ UNCHANGED <<cursors, opc, regs, from>>

WritePublish ==
    /\ at[W] = "copied"
    /\ Call(W, "sw_base", from[W] + len[W])
    /\ Now(W, "publish")
    /\ UNCHANGED <<cursors, frames, seenBase, seenPos, size, offset, from, len>>

WriteEnd ==
    /\ at[W] = "publish" /\ opc[W] \in {"ok", "err"}
    /\ Now(W, "idle")
    /\ UNCHANGED <<bufVars, from, len>>

-----------------------------------------------------------------------------
(* Reader: RendererInServer::WriteData / CapturerInClientInner.             *)

ReadBegin ==
    /\ at[R] = "idle"
    /\ Call(R, "gr_base", curReadFrame)
    /\ Now(R, "region")
    /\ from' = [from EXCEPT ![R] = curReadFrame]
    /\ UNCHANGED <<cursors, frames, seenBase, seenPos, size, offset, len>>

ReadGiveUp ==
    /\ at[R] = "region" /\ NoRegion(R)
    /\ Now(R, "idle")
    /\ UNCHANGED <<bufVars, from, len>>

(* Some of the frames are copied out; then their slots are cleared.         *)
ReadTake ==
    /\ at[R] = "region" /\ opc[R] = "done"
    /\ \E n \in 1 .. size[R] : len' = [len EXCEPT ![R] = n]
    /\ Now(R, "taken")
    /\ UNCHANGED <<bufVars, from>>

(* Mutant of ReadClear: clears the whole readable region, not only what was *)
(* taken from it.                                                           *)
ReadClearRegion ==
    /\ at[R] = "taken"
    /\ frames' = Zeroed(frames, offset[R], size[R])
    /\ Now(R, "cleared")
    /\ UNCHANGED <<cursors, opc, regs, from, len>>

ReadClear ==
    /\ at[R] = "taken"
    /\ frames' = Zeroed(frames, offset[R], len[R])
    /\ Now(R, "cleared")
    /\ UNCHANGED <<cursors, opc, regs, from, len>>

ReadPublish ==
    /\ at[R] = "cleared"
    /\ Call(R, "sr_base", from[R] + len[R])
    /\ Now(R, "publish")
    /\ UNCHANGED <<cursors, frames, seenBase, seenPos, size, offset, from, len>>

ReadEnd ==
    /\ at[R] = "publish" /\ opc[R] \in {"ok", "err"}
    /\ Now(R, "idle")
    /\ UNCHANGED <<bufVars, from, len>>

-----------------------------------------------------------------------------
Writer == WriteBegin \/ WriteGiveUp \/ WriteCopy \/ WritePublish \/ WriteEnd
Reader == ReadBegin \/ ReadGiveUp \/ ReadTake \/ ReadClear \/ ReadPublish \/ ReadEnd
Method == \E t \in Threads : BufStep(t) /\ UNCHANGED useVars

Next == Writer \/ Reader \/ Method

Spec == Init /\ [][Next]_vars

-----------------------------------------------------------------------------
UsePcs == {"idle", "region", "copied", "taken", "cleared", "publish"}

TypeOK ==
    /\ BufTypeOK
    /\ at \in [Threads -> UsePcs]
    /\ from \in [Threads -> Nat]
    /\ len \in [Threads -> Nat]

(* Has the reader already zeroed frames it has not yet given back?          *)
Clearing == at[R] \in {"cleared", "publish"} /\ curReadFrame = from[R]
NextUnread == IF Clearing THEN from[R] + len[R] ELSE curReadFrame

(* The cursors stay in order and within one lap of each other, and the      *)
(* reader never leaves the lap whose first position is the base, so every   *)
(* position either side uses has exactly one slot.                          *)
CursorsInRange ==
    /\ curReadFrame <= curWriteFrame
    /\ curWriteFrame - curReadFrame <= Total
    /\ basePosInFrame <= curWriteFrame
    /\ curReadFrame - basePosInFrame < Total
    /\ curWriteFrame - basePosInFrame < 2 * Total

(* Although each method loads base, read and write position in separate     *)
(* steps while the other side moves them, its range checks never refuse a   *)
(* correct caller: SetCurReadFrame moves the base before it publishes the   *)
(* read position so that a writer that has seen the new read position also  *)
(* sees a base that admits its write position.                              *)
NeverRefused == \A t \in Threads : opc[t] # "err"

(* What the reader takes is the audio the writer put at those positions.    *)
TakesWhatWasWritten ==
    at[R] = "taken" =>
        \A i \in 0 .. len[R] - 1 :
            frames[OffsetOf(seenBase[R], from[R] + i)] = from[R] + i

(* Everything published and not yet taken is intact in its slot: no copy of *)
(* the writer and no clear of the reader touches it.                        *)
UnreadIntact ==
    \A p \in 0 .. MaxPos : (NextUnread <= p /\ p < curWriteFrame) =>
        frames[OffsetOf(basePosInFrame, p)] = p

(* Every buffer of one writer and one reader is a bounded FIFO.             *)
Fifo == INSTANCE AudioFifo WITH written <- curWriteFrame, read <- curReadFrame
FifoSpec == Fifo!Spec
=============================================================================
