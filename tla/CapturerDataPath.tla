-------------------------- MODULE CapturerDataPath --------------------------
(***************************************************************************)
(* A recording stream: the engine's thread puts spans of captured audio    *)
(* into the shared buffer (CapturerInServer::ReadData), a thread of the    *)
(* application takes them out (CapturerInClientInner::HandleCapturerRead), *)
(* and CapturerInServer::Flush, asked for by another thread of the         *)
(* application, discards what is unread by moving the reader's own cursor. *)
(* No lock spans the two processes, and FlushAudioStream does not take the *)
(* client's readMutex_ either.                                             *)
(*                                                                         *)
(* Positions are multiples of the span (CheckWriteOrReadFrame), so a slot  *)
(* of OHAudioBuffer is a span here.  AudioRingCache on both sides only     *)
(* regroups bytes; what the reader puts into it is delivered.              *)
(***************************************************************************)
EXTENDS OHAudioBuffer

CONSTANTS
    S, C, F,     \* threads: the server's engine, the client's reader, Flush
    Hpae,        \* which engine: HPAE's OnReadData looks at the status
    MaxPos,      \* bound on positions
    MaxFlushes   \* bound on flushes

ASSUME CapturerAssumption ==
    /\ Threads = {S, C, F} /\ S # C /\ S # F /\ C # F
    /\ Hpae \in BOOLEAN
    /\ MaxPos \in Nat /\ MaxFlushes \in Nat

VARIABLES
    at,       \* what a thread does between its calls of the buffer
    from,     \* the position it works on
    mark,     \* the write position it has loaded
    status,   \* server: status_
    flushes,  \* number of flushes begun
    got,      \* position of the audio delivered last
    floor,    \* the write position found by the last flush that ended its loop
    overlap,  \* has the application flushed while a thread of it was reading?
    refused   \* has the engine refused a flush, or not answered it?

useVars == <<at, from, mark, status, flushes, got, floor, overlap, refused>>
vars == <<bufVars, useVars>>

Init ==
    /\ BufInit
    /\ at = [t \in Threads |-> "idle"]
    /\ from = [t \in Threads |-> 0]
    /\ mark = [t \in Threads |-> 0]
    /\ status = "STARTED"
    /\ flushes = 0
    /\ got = Silence
    /\ floor = 0
    /\ overlap = FALSE
    /\ refused = FALSE

Now(t, s) == at' = [at EXCEPT ![t] = s]
Set(r, t, v) == [r EXCEPT ![t] = v]

-----------------------------------------------------------------------------
(* GetReadbuffer(pos[t]) and GetWriteBuffer(pos[t]): GetOffsetByFrameForRead*)
(* and ...ForWrite check the position and leave the rest to LoadOffset.     *)

ReadbufferLoadBase(t) ==
    /\ opc[t] = "rb_base"
    /\ Goto(t, IF pos[t] >= basePosInFrame /\ pos[t] - basePosInFrame < Total
               THEN "gr_offset" ELSE "err")
    /\ UNCHANGED <<cursors, frames, regs>>

WriteBufferLoadBase(t) ==
    /\ opc[t] = "wb_base"
    /\ seenBase' = Set(seenBase, t, basePosInFrame)
    /\ Goto(t, "wb_read")
    /\ UNCHANGED <<cursors, frames, pos, seenPos, size, offset>>

WriteBufferLoadRead(t) ==
    /\ opc[t] = "wb_read"
    /\ Goto(t, IF InTwoLaps(seenBase[t], pos[t]) /\ pos[t] >= curReadFrame
               THEN "gw_offset" ELSE "err")
    /\ UNCHANGED <<cursors, frames, regs>>

Method ==
    /\ \E t \in Threads :
         \/ BufStep(t)
         \/ ReadbufferLoadBase(t) \/ WriteBufferLoadBase(t) \/ WriteBufferLoadRead(t)
    /\ UNCHANGED useVars

(* Thread t calls the method that begins at l, on position p.               *)
Calls(t, l, p) ==
    /\ Call(t, l, p)
    /\ UNCHANGED <<cursors, frames, seenBase, seenPos, size, offset>>

-----------------------------------------------------------------------------
(* The engine's thread: ReadData.                                           *)

Record ==
    /\ at[S] = "idle" /\ curWriteFrame < MaxPos
    /\ Hpae => status = "STARTED"
    /\ from' = Set(from, S, curWriteFrame)
    /\ Now(S, "room")
    /\ UNCHANGED <<bufVars, mark, status, flushes, got, floor, overlap, refused>>

(* Mutant of RecordRoom: a full buffer is no reason to drop the span.       *)
RecordAlways ==
    /\ at[S] = "room"
    /\ Calls(S, "wb_base", curWriteFrame) /\ Now(S, "region")
    /\ UNCHANGED <<from, mark, status, flushes, got, floor, overlap, refused>>

(* IsReadDataOverFlow (GetWritableDataFrames): the span is dropped.         *)
RecordRoom ==
    LET room == curReadFrame <= from[S] /\ Total - (from[S] - curReadFrame) > 1
    IN  /\ at[S] = "room"
        /\ IF room
           THEN Calls(S, "wb_base", curWriteFrame) /\ Now(S, "region")
           ELSE Now(S, "idle") /\ UNCHANGED bufVars
        /\ UNCHANGED <<from, mark, status, flushes, got, floor, overlap, refused>>

RecordCopy ==
    /\ at[S] = "region" /\ opc[S] = "done"
    /\ frames' = Copied(frames, offset[S], from[S], 1)
    /\ Now(S, "copied")
    /\ UNCHANGED <<cursors, opc, regs, from, mark, status, flushes, got,
                   floor, overlap, refused>>

RecordPublish ==
    /\ at[S] = "copied"
    /\ Calls(S, "sw_base", from[S] + 1)
    /\ Now(S, "publish")
    /\ UNCHANGED <<from, mark, status, flushes, got, floor, overlap, refused>>

(* Published, or refused by one of the buffer's checks.                     *)
RecordEnd ==
    /\ \/ at[S] = "region" /\ opc[S] = "err"
       \/ at[S] = "publish" /\ opc[S] \in {"ok", "err"}
    /\ Now(S, "idle")
    /\ UNCHANGED <<bufVars, from, mark, status, flushes, got, floor, overlap, refused>>

Recorder == Record \/ RecordRoom \/ RecordCopy \/ RecordPublish \/ RecordEnd

-----------------------------------------------------------------------------
(* The application's reader: one turn of HandleCapturerRead.                *)

(* GetCurWriteFrame() - GetCurReadFrame() > 0, unsigned, is two loads.      *)
Read ==
    /\ at[C] = "idle"
    /\ overlap' = (overlap \/ at[F] # "idle")
    /\ curWriteFrame # curReadFrame    \* until then it waits in WaitFor
    /\ mark' = Set(mark, C, curWriteFrame)
    /\ Now(C, "avail")
    /\ UNCHANGED <<bufVars, from, status, flushes, got, floor, refused>>

ReadAvailable ==
    /\ at[C] = "avail"
    /\ Now(C, IF mark[C] # curReadFrame THEN "get" ELSE "idle")
    /\ UNCHANGED <<bufVars, from, mark, status, flushes, got, floor, overlap, refused>>

ReadGet ==
    /\ at[C] = "get"
    /\ Calls(C, "rb_base", curReadFrame)
    /\ Now(C, "region")
    /\ UNCHANGED <<from, mark, status, flushes, got, floor, overlap, refused>>

(* The result of GetReadbuffer is not looked at; without a buffer Enqueue   *)
(* refuses.                                                                 *)
ReadTake ==
    /\ at[C] = "region" /\ opc[C] \in {"done", "err"}
    /\ got' = IF opc[C] = "done" THEN frames[offset[C]] ELSE got
    /\ Now(C, "taken")
    /\ UNCHANGED <<bufVars, from, mark, status, flushes, floor, overlap, refused>>

ReadClear ==
    /\ at[C] = "taken"
    /\ frames' = IF opc[C] = "done" THEN Zeroed(frames, offset[C], 1) ELSE frames
    /\ Now(C, "cleared")
    /\ UNCHANGED <<cursors, opc, regs, from, mark, status, flushes, got,
                   floor, overlap, refused>>

(* Mutant of ReadPublish: everything that was available is given back.      *)
ReadPublishAll ==
    /\ at[C] = "cleared"
    /\ Calls(C, "sr_base", mark[C])
    /\ Now(C, "publish")
    /\ UNCHANGED <<from, mark, status, flushes, got, floor, overlap, refused>>

ReadPublish ==
    /\ at[C] = "cleared"
    /\ Calls(C, "sr_base", curReadFrame + 1)
    /\ Now(C, "publish")
    /\ UNCHANGED <<from, mark, status, flushes, got, floor, overlap, refused>>

ReadEnd ==
    /\ at[C] = "publish" /\ opc[C] \in {"ok", "err"}
    /\ Now(C, "idle")
    /\ UNCHANGED <<bufVars, from, mark, status, flushes, got, floor, overlap, refused>>

Reader ==
    \/ Read \/ ReadAvailable \/ ReadGet \/ ReadTake \/ ReadClear
    \/ ReadPublish \/ ReadEnd

-----------------------------------------------------------------------------
(* Flush: the loop over the unread spans, then the engine's own flush.      *)

Flush ==
    /\ at[F] = "idle" /\ flushes < MaxFlushes
    /\ overlap' = (overlap \/ at[C] # "idle")
    /\ flushes' = flushes + 1
    /\ IF status = "STARTED"
       THEN status' = "FLUSHING" /\ Now(F, "loadw")
       ELSE UNCHANGED <<status, at>>
    /\ UNCHANGED <<bufVars, from, mark, got, floor, refused>>

FlushLoadWrite ==
    /\ at[F] = "loadw"
    /\ mark' = Set(mark, F, curWriteFrame)
    /\ Now(F, "loadr")
    /\ UNCHANGED <<bufVars, from, status, flushes, got, floor, overlap, refused>>

FlushLoadRead ==
    /\ at[F] = "loadr"
    /\ from' = Set(from, F, curReadFrame)
    /\ Now(F, "loop")
    /\ UNCHANGED <<bufVars, mark, status, flushes, got, floor, overlap, refused>>

(* Mutant of FlushLoop: the last unread span is kept.                       *)
FlushLoopShort ==
    /\ at[F] = "loop"
    /\ IF from[F] + 1 < mark[F]
       THEN Calls(F, "rb_base", from[F]) /\ Now(F, "region") /\ UNCHANGED floor
       ELSE Now(F, "engine") /\ floor' = mark[F] /\ UNCHANGED bufVars
    /\ UNCHANGED <<from, mark, status, flushes, got, overlap, refused>>

FlushLoop ==
    /\ at[F] = "loop"
    /\ IF from[F] < mark[F]
       THEN Calls(F, "rb_base", from[F]) /\ Now(F, "region") /\ UNCHANGED floor
       ELSE Now(F, "engine") /\ floor' = mark[F] /\ UNCHANGED bufVars
    /\ UNCHANGED <<from, mark, status, flushes, got, overlap, refused>>

(* GetReadbuffer fails: ERR_OPERATION_FAILED, the status stays as it is.    *)
FlushFails ==
    /\ at[F] = "region" /\ opc[F] = "err"
    /\ Now(F, "idle")
    /\ UNCHANGED <<bufVars, from, mark, status, flushes, got, floor, overlap, refused>>

FlushClear ==
    /\ at[F] = "region" /\ opc[F] = "done"
    /\ frames' = Zeroed(frames, offset[F], 1)
    /\ from' = Set(from, F, from[F] + 1)
    /\ Now(F, "cleared")
    /\ UNCHANGED <<cursors, opc, regs, mark, status, flushes, got,
                   floor, overlap, refused>>

(* Mutant of FlushPublish: the spans are cleared but not given back.        *)
FlushClearOnly ==
    /\ at[F] = "cleared"
    /\ Now(F, "loop")
    /\ UNCHANGED <<bufVars, from, mark, status, flushes, got, floor, overlap, refused>>

FlushPublish ==
    /\ at[F] = "cleared"
    /\ Calls(F, "sr_base", from[F])
    /\ Now(F, "publish")
    /\ UNCHANGED <<from, mark, status, flushes, got, floor, overlap, refused>>

(* The result of SetCurReadFrame is not looked at.                          *)
FlushNext ==
    /\ at[F] = "publish" /\ opc[F] \in {"ok", "err"}
    /\ Now(F, "loop")
    /\ UNCHANGED <<bufVars, from, mark, status, flushes, got, floor, overlap, refused>>

(* Mutant of Flushed: the status stays FLUSHING_WHEN_STARTED.               *)
FlushedKeeps ==
    /\ at[F] = "engine"
    /\ Now(F, "idle")
    /\ UNCHANGED <<bufVars, from, mark, status, flushes, got, floor, overlap, refused>>

(* The engine has flushed: HandleOperationFlushed, then FLUSH_STREAM to the *)
(* client, which ends the wait in FlushAudioStream.                         *)
Flushed ==
    /\ at[F] = "engine"
    /\ status' = "STARTED"
    /\ Now(F, "idle")
    /\ UNCHANGED <<bufVars, from, mark, flushes, got, floor, overlap, refused>>

(* stream_->Flush fails and its error is returned (PulseAudio); or the      *)
(* engine drops a request it has accepted (HPAE, for a session whose device *)
(* is not there) and the wait in FlushAudioStream reaches its limit.        *)
(* Either way nobody changes the status back.                               *)
FlushRefused ==
    /\ at[F] = "engine"
    /\ refused' = TRUE
    /\ Now(F, "idle")
    /\ UNCHANGED <<bufVars, from, mark, status, flushes, got, floor, overlap>>

Flusher ==
    \/ Flush \/ FlushLoadWrite \/ FlushLoadRead \/ FlushLoop \/ FlushFails
    \/ FlushClear \/ FlushPublish \/ FlushNext \/ Flushed \/ FlushRefused

Next == Method \/ Recorder \/ Reader \/ Flusher

(* The three threads go on; the application goes on reading, and a flush    *)
(* once begun ends; nobody has to begin one.                                *)
Spec ==
    /\ Init /\ [][Next]_vars
    /\ \A t \in Threads :
         /\ WF_vars(Method /\ opc'[t] # opc[t])
         /\ WF_vars((Recorder \/ Reader \/ (Flusher /\ at[F] # "idle"))
                    /\ at'[t] # at[t])

-----------------------------------------------------------------------------
MethodPcs == BufPcs \cup {"rb_base", "wb_base", "wb_read"}

UsePcs == {"idle", "room", "region", "copied", "publish", "avail", "get", "taken",
           "cleared", "loadw", "loadr", "loop", "engine"}

(* The types; above all, whatever the overlap, a region begins in a slot.   *)
TypeOK ==
    /\ basePosInFrame \in Nat /\ curReadFrame \in Nat /\ curWriteFrame \in Nat
    /\ frames \in [Slots -> Int]
    /\ opc \in [Threads -> MethodPcs]
    /\ pos \in [Threads -> Nat]
    /\ seenBase \in [Threads -> Nat]
    /\ offset \in [Threads -> Slots]
    /\ at \in [Threads -> UsePcs]
    /\ from \in [Threads -> Nat]
    /\ mark \in [Threads -> Nat]
    /\ status \in {"STARTED", "FLUSHING"}
    /\ flushes \in 0 .. MaxFlushes
    /\ got \in Int /\ floor \in Nat
    /\ overlap \in BOOLEAN /\ refused \in BOOLEAN

(* But for ReadBehindWrite, and for the return of a flush, these are about  *)
(* the time until the application flushes while it reads.                   *)

(* What is delivered is captured audio, later than all delivered before:    *)
(* no cleared or stale span, none twice.                                    *)
DeliveredInOrder == [][~overlap /\ got' # got => got' > got]_vars

(* A span is dropped before it enters the buffer or by a flush, never else, *)
(* and a flush drops all that was published before it looked.               *)
OnlyFlushDiscards ==
    [][~overlap /\ got' # got =>
       /\ got' >= floor
       /\ got' = got + 1 \/ \A p \in got + 1 .. got' - 1 : p < floor']_vars

(* A flush returns, whatever it meets.  And a flush that the engine answers *)
(* leads back to STARTED, so that recording goes on; a refused one does not *)
(* (and every later flush is then illegal).                                 *)
FlushEnds ==
    /\ at[F] # "idle" ~> at[F] = "idle"
    /\ status = "FLUSHING" ~> status = "STARTED" \/ overlap \/ refused

(* All that is published is delivered or flushed in the end.                *)
AllDelivered ==
    \A p \in 1 .. MaxPos :
        (curWriteFrame >= p) ~> (got >= p - 1 \/ floor >= p \/ overlap)

(* However the threads overlap, the reader's cursor does not pass the       *)
(* writer's.                                                                *)
ReadBehindWrite == curReadFrame <= curWriteFrame
=============================================================================
