----------------------- MODULE RendererClient_proofs ------------------------
(***************************************************************************)
(* The threads of a playback client.  What they wait for: control calls    *)
(* for the notification of the server (RendererHandshake), the writer and  *)
(* the callback loop on a futex (FutexSignal).  And what comes of the      *)
(* audio meanwhile (RendererDataPath).                                     *)
(*                                                                         *)
(* For any number of threads making any number of control calls, client    *)
(* and server tell the same story whenever they are at rest, and a call    *)
(* that succeeds has had its effect.  The invariant, Story, has two parts. *)
(* As long as nothing is refused, the status of the server is what the     *)
(* client will have been told once its notifications have arrived, or a    *)
(* request that is with the engine will change it - however late answers   *)
(* come.  And as long as no answer comes late, one request is under way at *)
(* a time, and the place of its call says where it is.                     *)
(*                                                                         *)
(* No wake-up of a futex is lost, for any number of wakers and any         *)
(* WAIT_TRY_COUNT.                                                         *)
(*                                                                         *)
(* And whatever the sizes of ring, buffers and queue: the engine plays no  *)
(* frame twice or after a later one (Forward), the loop gives up no buffer *)
(* of a stream that is RUNNING (KeepsBuffers: the wait for room never runs *)
(* out of tries, for wakers wake it in vain twice at most), and until a    *)
(* second call is made no frame is left out (Solo) - all of it until the   *)
(* stream is started again.                                                *)
(***************************************************************************)
EXTENDS RendererHandshake, FutexSignal, RendererDataPath, SequenceTheorems, TLAPS

-----------------------------------------------------------------------------
(* Where the calls are.                                                     *)

Place(o, l) ==
    \/ l = "idle"
    \/ l = "lock" /\ o \in {"start", "pause", "stop", "flush", "release"}
    \/ o = "start"   /\ l \in {"ipc", "wait", "undo", "wake"}
    \/ o = "pause"   /\ l \in {"ipc", "wait", "wake"}
    \/ o = "stop"    /\ l \in {"wlock", "drain", "drainwait", "mark", "ipc", "wait", "wake"}
    \/ o = "flush"   /\ l \in {"wlock", "ipc", "wait"}
    \/ o = "release" /\ l \in {"ipc", "join"}

Places == \A a \in Apps : Place(op[a], pc[a])

(* A call other than Release, past its first check; there is one at a time. *)
Inside(a) == op[a] # "release" /\ pc[a] \notin {"idle", "lock"}

Mutex == \A a \in Apps : Inside(a) => statusMutex = a

-----------------------------------------------------------------------------
(* What both sides will have in the end.                                    *)

(* The state that each notification gives the client.                       *)
Gives == [start |-> "RUNNING", pause |-> "PAUSED", stop |-> "STOPPED"]

(* The states the client gives itself: in Stop, in Release, and when a Stop *)
(* is not answered.                                                         *)
OwnStates == {"STOPPING", "INVALID", "RELEASED"}

(* Once it has all notifications on their way, the client's state is s, or  *)
(* one it has given itself.                                                 *)
WillBe(s) ==
    LET telling == {k \in 1 .. Len(pending) : pending[k] \in DOMAIN Gives}
    IN  /\ telling = {} => state \in {s} \cup OwnStates
        /\ \A k \in telling : (\A j \in telling : j <= k) => Gives[pending[k]] = s

Holds(s, r) == \E i \in 1 .. Len(s) : s[i] = r

(* The server's status is what the client has been or will be told, ...     *)
StatusTold ==
    /\ status = "IDLE" => WillBe("PREPARED")
    /\ drained \/ status \in {"STARTED", "DRAINING", "FLUSHING_WHEN_STARTED"} =>
         WillBe("RUNNING")
    /\ status \in {"PAUSED", "FLUSHING_WHEN_PAUSED"} => WillBe("PAUSED")
    /\ status \in {"STOPPED", "FLUSHING_WHEN_STOPPED"} => WillBe("STOPPED")

(* ... or a request the engine has accepted will change it.                 *)
StatusPasses ==
    /\ status = "STARTING" => Holds(engine, "start")
    /\ status = "PAUSING"  => Holds(engine, "pause")
    /\ status = "STOPPING" => Holds(engine, "stop")
    /\ status = "DRAINING" => drained \/ Holds(engine, "drain")
    /\ status \in Flushing => Holds(engine, "flush")
    /\ status # "INVALID"

-----------------------------------------------------------------------------
(* What holds as long as no answer came late: one request is under way at a *)
(* time, but for drains that nobody waits for any more.                     *)

Quiet(s) == \A i \in 1 .. Len(s) : s[i] = "drain"

Only(s, r) ==
    \E i \in 1 .. Len(s) : s[i] = r /\ \A j \in 1 .. Len(s) : j # i => s[j] = "drain"

(* The request of a call that waits is with the engine, or the answer is on *)
(* its way, or here.                                                        *)
Asked(r) == Only(engine, r) /\ Quiet(pending)
Done(r)  == Quiet(engine) /\ Only(pending, r)
Told     == Quiet(engine) /\ Quiet(pending)

CanStart == {"PREPARED", "PAUSED", "STOPPED"}
CanFlush == {"RUNNING", "PAUSED", "STOPPED"}

WaitsFor(r) ==
    /\ r # "flush" => notified # "flush"
    /\ CASE r = "start" ->
              \/ Asked(r) /\ status = "STARTING" /\ state \in CanStart
              \/ Done(r) /\ status = "STARTED" /\ state \in CanStart
              \/ Told /\ status = "STARTED" /\ state = "RUNNING"
         [] r = "pause" ->
              \/ Asked(r) /\ status = "PAUSING" /\ state = "RUNNING"
              \/ Done(r) /\ status = "PAUSED" /\ state = "RUNNING"
              \/ Told /\ status = "PAUSED" /\ state = "PAUSED"
         [] r = "stop" ->
              \/ Asked(r) /\ status \in {"STOPPING", "STARTED"} /\ state = "STOPPING"
              \/ Done(r) /\ status = "STOPPED" /\ state = "STOPPING" /\ ~drained
              \/ Told /\ status = "STOPPED" /\ state = "STOPPED" /\ ~drained
         [] r = "flush" ->
              /\ state \in CanFlush
              /\ \/ Asked(r) /\ status \in Flushing /\ notified # "flush"
                 \/ Done(r) /\ status \notin Flushing /\ notified # "flush"
                 \/ Told /\ status \notin Flushing

(* Before a call asks, the state is still the one it has checked, ...       *)
MayAsk(r) ==
    /\ Told /\ notified # "flush"
    /\ r = "start" => state \in CanStart
    /\ r = "pause" => state = "RUNNING"
    /\ r = "flush" => state \in CanFlush
    /\ r = "stop"  => /\ state = "STOPPING"
                      /\ failure = "none" => status \in {"STARTED", "DRAINING", "PAUSED"}

(* ... and once it has its answer, that is so.                              *)
Answer(r) == Told /\ notified # "flush" /\ state = Gives[r] /\ Achieved(r)

InPlace(a) ==
    CASE pc[a] = "wlock" -> Told /\ notified # "flush" /\ (failure = "none" => state # "STOPPING")
      [] pc[a] \in {"drain", "drainwait"} -> Told /\ notified # "flush" /\ state = "RUNNING"
      [] pc[a] = "mark" -> Told /\ notified # "flush" /\ (failure = "none" => state # "STOPPING")
      [] pc[a] = "ipc"  -> MayAsk(op[a])
      [] pc[a] = "wait" -> WaitsFor(op[a])
      [] pc[a] = "wake" -> Answer(op[a])
      [] OTHER -> FALSE

Releases(a) == op[a] = "release" /\ pc[a] \in {"ipc", "join"}

(* Who is in a Stop, where it may have sent a drain.                        *)
Drains(a) ==
    /\ op[a] = "stop"
    /\ \/ pc[a] \in {"drainwait", "ipc", "wait"}
       \/ pc[a] = "mark" /\ state = "RUNNING"

NoneInside == \A a \in Apps : ~Inside(a)

Ends ==
    /\ state # "INVALID"
    /\ \A a \in Apps : Releases(a) => state = "RELEASED"
    /\ drained \/ status = "DRAINING" =>
         \/ \E a \in Apps : Drains(a)
         \/ failure = "refused" /\ state \in {"STOPPING", "RELEASED"}
    /\ failure = "none" =>
         /\ state = "STOPPING" => \E a \in Apps : op[a] = "stop" /\ pc[a] \in {"ipc", "wait"}
         /\ status = "RELEASED" => state = "RELEASED"
         /\ state = "RELEASED" => status = "RELEASED" \/ \E a \in Apps : At(a, "release", "ipc")

OneAtATime ==
    /\ \A a \in Apps : Inside(a) => InPlace(a)
    /\ NoneInside => Told /\ notified # "flush"
    /\ Ends

Story ==
    /\ Places /\ Mutex
    /\ failure # "refused" => StatusTold /\ StatusPasses
    /\ failure # "late" => OneAtATime

-----------------------------------------------------------------------------
USE ControlAssumption DEF ControlAssumption

Requests == {"start", "pause", "flush", "drain", "stop"}

(* Sequences of requests: what is left when one is taken out of the middle, *)
(* or at the head.                                                          *)
LEMMA WithoutIs ==
    ASSUME NEW s \in Seq(Requests), NEW i \in 1 .. Len(s)
    PROVE  /\ Without(s, i) \in Seq(Requests) /\ Len(Without(s, i)) = Len(s) - 1
           /\ \A k \in 1 .. Len(s) - 1 :
                Without(s, i)[k] = IF k < i THEN s[k] ELSE s[k + 1]
<1>1. /\ Len(s) \in Nat /\ i \in Nat /\ 1 <= i /\ i <= Len(s)
      /\ \A k \in 1 .. Len(s) : s[k] \in Requests
  OBVIOUS
<1> DEFINE a == SubSeq(s, 1, i - 1)
           b == SubSeq(s, i + 1, Len(s))
<1>2. a \in Seq(Requests) /\ Len(a) = i - 1 /\ \A k \in 1 .. i - 1 : a[k] = s[k]
  BY <1>1
<1>3. b \in Seq(Requests) /\ Len(b) = Len(s) - i /\ \A k \in 1 .. Len(s) - i : b[k] = s[k + i]
  BY <1>1
<1> HIDE DEF a, b
<1>4. /\ a \o b \in Seq(Requests) /\ Len(a \o b) = Len(s) - 1
      /\ \A k \in 1 .. Len(s) - 1 : (a \o b)[k] = IF k <= i - 1 THEN a[k] ELSE b[k - (i - 1)]
  <2>1. Len(a) + Len(b) = Len(s) - 1
    BY <1>1, <1>2, <1>3
  <2>2. Len(a) = i - 1 /\ a \in Seq(Requests) /\ b \in Seq(Requests)
    BY <1>2, <1>3
  <2> HIDE DEF Requests
  <2>3. /\ a \o b \in Seq(Requests) /\ Len(a \o b) = Len(a) + Len(b)
        /\ \A k \in 1 .. Len(a) + Len(b) :
             (a \o b)[k] = IF k <= Len(a) THEN a[k] ELSE b[k - Len(a)]
    BY <2>2, ConcatProperties, Zenon
  <2> QED BY <2>1, <2>2, <2>3, Zenon
<1>5. ASSUME NEW k \in 1 .. Len(s) - 1 PROVE (a \o b)[k] = IF k < i THEN s[k] ELSE s[k + 1]
  <2>1. CASE k < i
    BY <1>1, <1>2, <1>4, <2>1
  <2>2. CASE ~(k < i)
    <3>1. k - (i - 1) \in 1 .. Len(s) - i /\ k - (i - 1) + i = k + 1 /\ ~(k <= i - 1) /\ ~(k < i)
      BY <1>1, <2>2
    <3>2. (a \o b)[k] = b[k - (i - 1)]
      BY <1>4, <3>1, Zenon
    <3>3. b[k - (i - 1)] = s[k - (i - 1) + i]
      BY <1>3, <3>1
    <3> QED BY <3>1, <3>2, <3>3
  <2> QED BY <2>1, <2>2
<1> QED BY <1>4, <1>5 DEF Without, a, b

\* The head and the rest of a sequence of requests.
LEMMA TailIs ==
    ASSUME NEW s \in Seq(Requests), s # <<>>
    PROVE  /\ Tail(s) \in Seq(Requests) /\ Len(Tail(s)) = Len(s) - 1 /\ Len(s) >= 1
           /\ Head(s) = s[1] /\ Head(s) \in Requests
           /\ \A k \in 1 .. Len(s) - 1 : Tail(s)[k] = s[k + 1]
  OBVIOUS

\* A sequence of requests with one more.
LEMMA AppendIs ==
    ASSUME NEW s \in Seq(Requests), NEW r \in Requests
    PROVE  /\ Append(s, r) \in Seq(Requests) /\ Len(Append(s, r)) = Len(s) + 1
           /\ \A k \in 1 .. Len(s) : Append(s, r)[k] = s[k]
           /\ Append(s, r)[Len(s) + 1] = r
  OBVIOUS

\* What a sequence holds it keeps, but for what is taken out.
LEMMA HoldsStep ==
    ASSUME NEW s \in Seq(Requests), NEW r \in Requests
    PROVE  /\ \A q \in Requests : Holds(s, r) \/ r = q => Holds(Append(s, q), r)
           /\ \A i \in 1 .. Len(s) : Holds(s, r) /\ s[i] # r => Holds(Without(s, i), r)
<1>0. Len(s) \in Nat
  OBVIOUS
<1>1. ASSUME NEW q \in Requests, Holds(s, r) \/ r = q PROVE Holds(Append(s, q), r)
  <2>1. CASE r = q
    <3>1. Len(s) + 1 \in 1 .. Len(Append(s, q)) /\ Append(s, q)[Len(s) + 1] = r
      BY <1>0, <2>1, AppendIs
    <3> QED BY <3>1 DEF Holds
  <2>2. CASE Holds(s, r)
    <3>1. PICK k \in 1 .. Len(s) : s[k] = r
      BY <2>2 DEF Holds
    <3>2. k \in 1 .. Len(Append(s, q)) /\ Append(s, q)[k] = r
      BY <1>0, <3>1, AppendIs
    <3> QED BY <3>2 DEF Holds
  <2> QED BY <1>1, <2>1, <2>2
<1>2. ASSUME NEW i \in 1 .. Len(s), Holds(s, r), s[i] # r PROVE Holds(Without(s, i), r)
  <2>1. PICK k \in 1 .. Len(s) : s[k] = r
    BY <1>2 DEF Holds
  <2>2. /\ Len(Without(s, i)) = Len(s) - 1
        /\ \A j \in 1 .. Len(s) - 1 : Without(s, i)[j] = IF j < i THEN s[j] ELSE s[j + 1]
    BY WithoutIs
  <2>3. CASE k < i
    <3>1. k \in 1 .. Len(s) - 1
      BY <1>0, <2>3
    <3> QED BY <2>1, <2>2, <2>3, <3>1 DEF Holds
  <2>4. CASE k > i
    <3>1. k - 1 \in 1 .. Len(s) - 1 /\ ~(k - 1 < i) /\ k - 1 + 1 = k
      BY <1>0, <2>4
    <3>2. Without(s, i)[k - 1] = r
      BY <2>1, <2>2, <3>1
    <3> QED BY <2>2, <3>1, <3>2 DEF Holds
  <2> QED BY <1>0, <1>2, <2>1, <2>3, <2>4
<1> QED BY <1>1, <1>2

(* What a sequence with one request that is no drain, or none, becomes.     *)
LEMMA QuietStep ==
    ASSUME NEW s \in Seq(Requests), Quiet(s)
    PROVE  /\ Quiet(Append(s, "drain"))
           /\ \A r \in Requests : Only(Append(s, r), r)
           /\ \A i \in 1 .. Len(s) : s[i] = "drain" /\ Quiet(Without(s, i))
           /\ s # <<>> => Head(s) = "drain" /\ Quiet(Tail(s))
<1>0. Len(s) \in Nat
  OBVIOUS
<1>1. ASSUME NEW r \in Requests PROVE Only(Append(s, r), r) /\ (r = "drain" => Quiet(Append(s, r)))
  <2>1. /\ Len(Append(s, r)) = Len(s) + 1 /\ Append(s, r)[Len(s) + 1] = r
        /\ \A k \in 1 .. Len(s) : Append(s, r)[k] = "drain"
    BY AppendIs DEF Quiet
  <2> QED BY <1>0, <2>1 DEF Only, Quiet
<1>2. ASSUME NEW i \in 1 .. Len(s) PROVE s[i] = "drain" /\ Quiet(Without(s, i))
  <2>1. /\ Len(Without(s, i)) = Len(s) - 1
        /\ \A k \in 1 .. Len(s) - 1 : Without(s, i)[k] \in {s[k], s[k + 1]}
    BY WithoutIs
  <2>2. \A k \in 1 .. Len(s) - 1 : k \in 1 .. Len(s) /\ k + 1 \in 1 .. Len(s)
    BY <1>0
  <2> QED BY <1>0, <2>1, <2>2 DEF Quiet
<1>3. s # <<>> => Head(s) = "drain" /\ Quiet(Tail(s))
  BY <1>0, TailIs DEF Quiet
<1>4. Quiet(Append(s, "drain"))
  BY <1>1 DEF Requests
<1> QED BY <1>1, <1>2, <1>3, <1>4

\* ... and what one with a request that is no drain becomes.
LEMMA OnlyStep ==
    ASSUME NEW s \in Seq(Requests), NEW r \in Requests, r # "drain", Only(s, r)
    PROVE  /\ \A i \in 1 .. Len(s) : s[i] = "drain" => Only(Without(s, i), r)
           /\ \A i \in 1 .. Len(s) : s[i] # "drain" => s[i] = r /\ Quiet(Without(s, i))
           /\ Only(Append(s, "drain"), r)
           /\ s # <<>> /\ Head(s) = "drain" => Only(Tail(s), r)
           /\ s # <<>> /\ Head(s) # "drain" => Head(s) = r /\ Quiet(Tail(s))
<1>0. Len(s) \in Nat
  OBVIOUS
<1>1. PICK k \in 1 .. Len(s) : s[k] = r /\ \A j \in 1 .. Len(s) : j # k => s[j] = "drain"
  BY DEF Only
<1>2. ASSUME NEW i \in 1 .. Len(s)
      PROVE  IF s[i] = "drain" THEN Only(Without(s, i), r) ELSE s[i] = r /\ Quiet(Without(s, i))
  <2>1. /\ Len(Without(s, i)) = Len(s) - 1
        /\ \A j \in 1 .. Len(s) - 1 : Without(s, i)[j] = IF j < i THEN s[j] ELSE s[j + 1]
    BY WithoutIs
  <2>2. \A j \in 1 .. Len(s) - 1 : j \in 1 .. Len(s) /\ j + 1 \in 1 .. Len(s)
    BY <1>0
  <2>3. CASE s[i] # "drain"
    <3>1. i = k
      BY <1>1, <2>3
    <3>2. \A j \in 1 .. Len(s) - 1 : Without(s, i)[j] = "drain"
      BY <1>0, <1>1, <2>1, <2>2, <3>1
    <3> QED BY <1>1, <2>1, <2>3, <3>1, <3>2 DEF Quiet
  <2>4. CASE s[i] = "drain"
    <3> DEFINE m == IF k < i THEN k ELSE k - 1
    <3>1. k # i /\ m \in 1 .. Len(s) - 1
      BY <1>0, <1>1, <2>4
    <3>2. Without(s, i)[m] = r
      BY <1>0, <1>1, <2>1, <3>1
    <3>3. ASSUME NEW j \in 1 .. Len(s) - 1, j # m PROVE Without(s, i)[j] = "drain"
      <4>1. CASE j < i
        BY <1>0, <1>1, <2>1, <2>2, <3>1, <3>3, <4>1
      <4>2. CASE ~(j < i)
        <5>1. j + 1 # k
          BY <1>0, <3>1, <3>3, <4>2
        <5> QED BY <1>1, <2>1, <2>2, <4>2, <5>1
      <4> QED BY <4>1, <4>2
    <3> HIDE DEF m
    <3> QED BY <2>1, <2>4, <3>1, <3>2, <3>3 DEF Only
  <2> QED BY <2>3, <2>4
<1>3. Only(Append(s, "drain"), r)
  <2>1. /\ Len(Append(s, "drain")) = Len(s) + 1 /\ Append(s, "drain")[Len(s) + 1] = "drain"
        /\ \A j \in 1 .. Len(s) : Append(s, "drain")[j] = s[j]
    BY AppendIs DEF Requests
  <2> QED BY <1>0, <1>1, <2>1 DEF Only
<1>4. ASSUME s # <<>>
      PROVE  IF Head(s) = "drain" THEN Only(Tail(s), r) ELSE Head(s) = r /\ Quiet(Tail(s))
  <2>1. /\ Len(Tail(s)) = Len(s) - 1 /\ Head(s) = s[1] /\ Len(s) >= 1
        /\ \A j \in 1 .. Len(s) - 1 : Tail(s)[j] = s[j + 1]
    BY <1>4, TailIs
  <2>2. CASE Head(s) = "drain"
    <3>1. k - 1 \in 1 .. Len(s) - 1 /\ k - 1 + 1 = k
      BY <1>0, <1>1, <2>1, <2>2
    <3>2. \A j \in 1 .. Len(s) - 1 : j + 1 \in 1 .. Len(s) /\ (j # k - 1 => j + 1 # k)
      BY <1>0
    <3> QED BY <1>1, <2>1, <2>2, <3>1, <3>2 DEF Only
  <2>3. CASE Head(s) # "drain"
    <3>1. k = 1
      BY <1>0, <1>1, <2>1, <2>3
    <3>2. \A j \in 1 .. Len(s) - 1 : j + 1 \in 1 .. Len(s) /\ j + 1 # 1
      BY <1>0
    <3> QED BY <1>1, <2>1, <2>3, <3>1, <3>2 DEF Quiet
  <2> QED BY <2>2, <2>3
<1> QED BY <1>2, <1>3, <1>4

\* The two are not the same.
LEMMA OnlyIsNotQuiet ==
    ASSUME NEW s, NEW r, r # "drain", Only(s, r) PROVE ~Quiet(s)
  BY DEF Only, Quiet

-----------------------------------------------------------------------------
(* What the client will have: a notification is sent, is received, and the  *)
(* client changes its state itself.                                         *)
LEMMA WillBeSent ==
    ASSUME pending \in Seq(Requests), NEW r \in Requests, pending' = Append(pending, r),
           state' = state
    PROVE  /\ r \in DOMAIN Gives => WillBe(Gives[r])'
           /\ \A s : r \notin DOMAIN Gives /\ WillBe(s) => WillBe(s)'
<1> DEFINE telling == {k \in 1 .. Len(pending) : pending[k] \in DOMAIN Gives}
           telling1 == {k \in 1 .. Len(pending') : pending'[k] \in DOMAIN Gives}
<1>0. Len(pending) \in Nat
  OBVIOUS
<1>1. /\ Len(pending') = Len(pending) + 1 /\ pending'[Len(pending) + 1] = r
      /\ \A k \in 1 .. Len(pending) : pending'[k] = pending[k]
  BY AppendIs
<1>2. ASSUME r \in DOMAIN Gives PROVE WillBe(Gives[r])'
  <2>1. Len(pending) + 1 \in telling1
    BY <1>0, <1>1, <1>2
  <2>2. ASSUME NEW k \in telling1, \A j \in telling1 : j <= k PROVE Gives[pending'[k]] = Gives[r]
    <3>1. k = Len(pending) + 1
      BY <1>0, <1>1, <2>1, <2>2
    <3> QED BY <1>1, <3>1
  <2> QED BY <2>1, <2>2 DEF WillBe
<1>3. ASSUME NEW s, r \notin DOMAIN Gives, WillBe(s) PROVE WillBe(s)'
  <2>1. telling1 = telling
    BY <1>0, <1>1, <1>3
  <2>2. \A k \in telling : pending'[k] = pending[k]
    BY <1>1
  <2> QED BY <1>3, <2>1, <2>2 DEF WillBe
<1> QED BY <1>2, <1>3

\* A notification arrives.
LEMMA WillBeHandled ==
    ASSUME pending \in Seq(Requests), NEW s, OnOperationHandled, WillBe(s)
    PROVE  WillBe(s)'
<1> DEFINE telling == {k \in 1 .. Len(pending) : pending[k] \in DOMAIN Gives}
           telling1 == {k \in 1 .. Len(pending') : pending'[k] \in DOMAIN Gives}
<1>0. Len(pending) \in Nat
  OBVIOUS
<1>1. /\ Len(pending') = Len(pending) - 1 /\ Len(pending) >= 1
      /\ \A k \in 1 .. Len(pending) - 1 : pending'[k] = pending[k + 1]
      /\ Head(pending) = pending[1]
  BY TailIs DEF OnOperationHandled
<1>2. \A k : k \in telling1 <=> k \in 1 .. Len(pending) - 1 /\ k + 1 \in telling
  BY <1>0, <1>1
<1>3. telling \subseteq 1 .. Len(pending) /\ telling1 \subseteq 1 .. Len(pending) - 1
  BY <1>1
<1>4. /\ telling = {} => state \in {s} \cup OwnStates
      /\ \A k \in telling : (\A j \in telling : j <= k) => Gives[pending[k]] = s
  BY DEF WillBe
<1>5. pending[1] \in DOMAIN Gives => state' = Gives[pending[1]]
  BY <1>1 DEF OnOperationHandled, Gives
<1>6. pending[1] \notin DOMAIN Gives => state' = state
  BY <1>1 DEF OnOperationHandled, Gives
<1>7. 1 \in telling <=> pending[1] \in DOMAIN Gives
  BY <1>0, <1>1
<1> HIDE DEF telling, telling1
<1>8. telling1 = {} => state' \in {s} \cup OwnStates
  <2> SUFFICES ASSUME telling1 = {} PROVE state' \in {s} \cup OwnStates
    OBVIOUS
  <2>1. \A k \in telling : k = 1
    <3> SUFFICES ASSUME NEW k \in telling, k # 1 PROVE FALSE
      OBVIOUS
    <3>1. k - 1 \in 1 .. Len(pending) - 1 /\ k - 1 + 1 = k
      BY <1>0, <1>3
    <3> QED BY <1>2, <3>1
  <2>2. CASE 1 \in telling
    BY <1>4, <1>5, <1>7, <2>1, <2>2
  <2>3. CASE 1 \notin telling
    BY <1>4, <1>6, <1>7, <2>1, <2>3
  <2> QED BY <2>2, <2>3
<1>9. ASSUME NEW k \in telling1, \A j \in telling1 : j <= k PROVE Gives[pending'[k]] = s
  <2>1. k \in 1 .. Len(pending) - 1 /\ k + 1 \in telling
    BY <1>2, <1>9
  <2>2. ASSUME NEW j \in telling PROVE j <= k + 1
    <3>1. CASE j = 1
      BY <1>0, <2>1, <3>1
    <3>2. CASE j # 1
      <4>1. j - 1 \in 1 .. Len(pending) - 1 /\ j - 1 + 1 = j
        BY <1>0, <1>3, <3>2
      <4>2. j - 1 \in telling1
        BY <1>2, <4>1
      <4> QED BY <1>0, <1>9, <2>1, <4>1, <4>2
    <3> QED BY <3>1, <3>2
  <2> QED BY <1>1, <1>4, <2>1, <2>2
<1> QED BY <1>8, <1>9 DEF WillBe, telling, telling1

\* The client gives itself a state.
LEMMA WillBeOwn ==
    ASSUME NEW s, WillBe(s), pending' = pending, state' = state \/ state' \in OwnStates
    PROVE  WillBe(s)'
  BY DEF WillBe

-----------------------------------------------------------------------------
(* Types, places and the mutex.                                             *)

Statuses == {"IDLE", "STARTING", "STARTED", "PAUSING", "PAUSED", "DRAINING", "STOPPING",
             "STOPPED", "RELEASED", "INVALID"} \cup Flushing

\* What ServerAccepts and ServerRefuses change.
LEMMA ServerSteps ==
    ASSUME TypeOK, NEW r \in Requests, ServerAccepts(r) \/ ServerRefuses(r)
    PROVE  /\ status' \in Statuses /\ engine' \in Seq(Requests)
           /\ UNCHANGED <<drained, pending>>
           /\ engine' = engine \/ engine' = Append(engine, r)
<1>0. status \in Statuses /\ engine \in Seq(Requests)
  BY DEF TypeOK, ControlTypeOK, Statuses, Requests
<1>1. status \in Legal(r) => Entered(r) \in Statuses
  BY <1>0 DEF Legal, Entered, Statuses, Flushing, Requests
<1> QED BY <1>0, <1>1, AppendIs DEF ServerAccepts, ServerRefuses

\* A call that is not Release makes the request of its name.
LEMMA AskedFor ==
    ASSUME TypeOK, Places, NEW a \in Apps, pc[a] # "idle", op[a] # "release"
    PROVE  op[a] \in Requests /\ op[a] # "drain"
BY DEF Places, Place, Requests

\* What the first step of a call does.
Locked(a, l, holder) == pc' = [pc EXCEPT ![a] = l] /\ statusMutex' = holder

LEMMA LockIs ==
    ASSUME TypeOK, Places, NEW a \in Apps, Lock(a)
    PROVE  /\ pc[a] = "lock" /\ statusMutex = Free /\ op' = op
           /\ writeMutex' \in {writeMutex, Free} /\ state' \in {state, "RELEASED"}
           /\ UNCHANGED <<notified, ops, status, drained, engine, pending>>
           /\ \/ Locked(a, "idle", Free)
              \/ op[a] = "release" /\ Locked(a, "ipc", Free)
              \/ op[a] \in {"start", "pause"} /\ Locked(a, "ipc", a)
              \/ op[a] \in {"stop", "flush"} /\ Locked(a, "wlock", a)
<1> USE DEF Lock, Goto, Return, Stay, serverVars, Locked
<1>1. pc[a] = "lock" /\ statusMutex = Free
  BY Zenon
<1>2. op[a] \in {"start", "pause", "stop", "flush", "release"}
  BY <1>1 DEF Places, Place
<1>3. op' = op /\ UNCHANGED <<notified, ops, status, drained, engine, pending>>
  BY Zenon
<1>4. CASE op[a] = "start"
  BY <1>1, <1>3, <1>4
<1>5. CASE op[a] = "pause"
  BY <1>1, <1>3, <1>5
<1>6. CASE op[a] \in {"stop", "flush"}
  BY <1>1, <1>3, <1>6
<1>7. CASE op[a] = "release"
  BY <1>1, <1>3, <1>7
<1> QED BY <1>2, <1>4, <1>5, <1>6, <1>7

\* Every step keeps the types.
LEMMA TypeStep == ASSUME TypeOK, Places, [Next]_vars PROVE TypeOK'
<1>0. /\ engine \in Seq(Requests) /\ pending \in Seq(Requests)
      /\ pc \in [Apps -> CallPcs] /\ op \in [Apps -> Ops \cup {"none"}]
  BY DEF TypeOK, ControlTypeOK, Requests
<1>1. CASE UNCHANGED vars
  BY <1>1 DEF TypeOK, ControlTypeOK, vars, controlVars, clientVars, serverVars
<1>2. ASSUME NEW a \in Apps, App(a) PROVE TypeOK'
  <2>0. failure' \in {"none", "late", "refused"}
    BY <1>2 DEF App, Failing, TypeOK
  <2> USE DEF TypeOK, ControlTypeOK, CallPcs, Goto, Return, Stay, serverVars
  <2>1. CASE Lock(a)
    <3> HIDE DEF CallPcs
    <3>1. "idle" \in CallPcs /\ "ipc" \in CallPcs /\ "wlock" \in CallPcs
      BY DEF CallPcs
    <3>2. pc' \in [Apps -> CallPcs] /\ statusMutex' \in Apps \cup {Free}
      BY <2>1, <3>1, LockIs DEF Locked
    <3>3. /\ UNCHANGED <<op, notified, ops, status, drained, engine, pending>>
          /\ writeMutex' \in {writeMutex, Free} /\ state' \in {state, "RELEASED"}
      BY <2>1, LockIs
    <3> QED BY <2>0, <3>2, <3>3
  <2>2. CASE LockWrite(a)
    BY <2>0, <2>2 DEF LockWrite
  <2>3. CASE Drain(a)
    <3>1. status' \in Statuses /\ engine' \in Seq(Requests) /\ UNCHANGED <<drained, pending>>
      BY <2>3, ServerSteps DEF Drain, Requests
    <3> QED BY <2>0, <2>3, <3>1 DEF Drain, Statuses, Requests
  <2>4. CASE DrainWaitEnds(a)
    BY <2>0, <2>4 DEF DrainWaitEnds
  <2>5. CASE MarkStopping(a)
    BY <2>0, <2>5 DEF MarkStopping
  <2>6. CASE Ask(a)
    <3>1. op[a] \in Requests
      BY <2>6, AskedFor DEF Ask
    <3>2. status' \in Statuses /\ engine' \in Seq(Requests) /\ UNCHANGED <<drained, pending>>
      BY <2>6, <3>1, ServerSteps DEF Ask
    <3> QED BY <2>0, <2>6, <3>2 DEF Ask, Statuses, Requests
  <2>7. CASE FlushAnswered(a)
    BY <2>0, <2>7 DEF FlushAnswered
  <2>8. CASE OtherAnswered(a)
    BY <2>0, <2>8 DEF OtherAnswered
  <2>9. CASE TimeOut(a)
    BY <2>0, <2>9 DEF TimeOut
  <2>10. CASE Undo(a)
    <3>1. status' \in Statuses /\ engine' \in Seq(Requests) /\ UNCHANGED <<drained, pending>>
      BY <2>10, ServerSteps DEF Undo, Requests
    <3> QED BY <2>0, <2>10, <3>1 DEF Undo, Statuses, Requests
  <2>11. CASE Release(a)
    <3>1. <<>> \in Seq(Requests) /\ status' \in Statuses /\ engine' \in {<<>>, engine}
      BY <2>11 DEF Release, ServerRelease, Statuses
    <3>2. engine' \in Seq(Requests)
      BY <1>0, <3>1
    <3> HIDE DEF CallPcs
    <3>3. pc' \in [Apps -> CallPcs]
      BY <2>11 DEF Release, CallPcs
    <3> QED BY <2>0, <2>11, <3>1, <3>2, <3>3 DEF Release, ServerRelease, Statuses, Requests
  <2>12. CASE Wake(a)
    BY <2>0, <2>12 DEF Wake
  <2>13. CASE Join(a)
    BY <2>0, <2>13 DEF Join
  <2> QED
    BY <1>2, <2>1, <2>2, <2>3, <2>4, <2>5, <2>6, <2>7, <2>8, <2>9, <2>10, <2>11, <2>12, <2>13
       DEF App, CallStep
<1>3. CASE Engine /\ UNCHANGED failure
  <2> USE DEF TypeOK, ControlTypeOK, clientVars
  <2>1. CASE DrainEnds
    <3>1. pending' \in Seq(Requests)
      BY <1>0, <2>1, AppendIs DEF DrainEnds, Requests
    <3> QED BY <1>3, <2>1, <3>1 DEF DrainEnds, Requests
  <2>2. ASSUME NEW i \in 1 .. Len(engine), EngineDone(i) PROVE TypeOK'
    <3>1. engine[i] \in Requests \ {"drain"}
      BY <1>0, <2>2 DEF EngineDone
    <3>2. pending' \in Seq(Requests) /\ engine' \in Seq(Requests)
      BY <1>0, <2>2, <3>1, AppendIs, WithoutIs DEF EngineDone
    <3>3. status' \in Statuses
      BY <2>2, <3>1 DEF EngineDone, Statuses, Requests
    <3> QED BY <1>3, <2>2, <3>2, <3>3 DEF EngineDone, Statuses, Requests
  <2>3. ASSUME NEW i \in 1 .. Len(engine), EngineDrained(i) PROVE TypeOK'
    <3>1. engine' \in Seq(Requests)
      BY <1>0, <2>3, WithoutIs DEF EngineDrained
    <3> QED BY <1>3, <2>3, <3>1 DEF EngineDrained, Requests
  <2> QED BY <1>3, <2>1, <2>2, <2>3 DEF Engine
<1>4. CASE OnOperationHandled /\ UNCHANGED failure
  <2>1. Head(pending) \in Requests /\ pending' \in Seq(Requests)
    BY <1>0, <1>4, TailIs DEF OnOperationHandled
  <2> QED BY <1>4, <2>1 DEF OnOperationHandled, TypeOK, ControlTypeOK, Requests
<1>5. ASSUME NEW a \in Apps, NEW o \in Ops, Call(a, o), UNCHANGED failure PROVE TypeOK'
  BY <1>5 DEF Call, Goto, Stay, serverVars, TypeOK, ControlTypeOK, CallPcs
<1> QED BY <1>1, <1>2, <1>3, <1>4, <1>5 DEF Next

\* Every step keeps each call in a place of its kind, and one at a time inside.
LEMMA PlacesStep ==
    ASSUME TypeOK, Places, Mutex, [Next]_vars PROVE Places' /\ Mutex'
<1>0. /\ pc \in [Apps -> CallPcs] /\ op \in [Apps -> Ops \cup {"none"}]
      /\ statusMutex \in Apps \cup {Free}
  BY DEF TypeOK, ControlTypeOK
<1> USE DEF Places, Mutex, Inside, Place
<1>1. CASE UNCHANGED <<pc, op, statusMutex>>
  BY <1>1
<1>2. ASSUME NEW a \in Apps, App(a) PROVE Places' /\ Mutex'
  <2> USE <1>0 DEF Goto, Return, Stay, serverVars, At
  <2>1. CASE Lock(a)
    <3>1. /\ pc[a] = "lock" /\ op' = op
          /\ \A b \in Apps : ~Inside(b)
          /\ \/ Locked(a, "idle", Free)
             \/ op[a] = "release" /\ Locked(a, "ipc", Free)
             \/ op[a] \in {"start", "pause"} /\ Locked(a, "ipc", a)
             \/ op[a] \in {"stop", "flush"} /\ Locked(a, "wlock", a)
      BY <2>1, LockIs
    <3>2. \A b \in Apps \ {a} : pc'[b] = pc[b]
      BY <3>1 DEF Locked
    <3>3. CASE Locked(a, "idle", Free) \/ (op[a] = "release" /\ Locked(a, "ipc", Free))
      BY <3>1, <3>2, <3>3 DEF Locked
    <3>4. CASE \/ op[a] \in {"start", "pause"} /\ Locked(a, "ipc", a)
               \/ op[a] \in {"stop", "flush"} /\ Locked(a, "wlock", a)
      BY <3>1, <3>2, <3>4 DEF Locked
    <3> QED BY <3>1, <3>3, <3>4
  <2>2. CASE LockWrite(a)
    BY <2>2 DEF LockWrite
  <2>3. CASE Drain(a)
    BY <2>3 DEF Drain
  <2>4. CASE DrainWaitEnds(a)
    BY <2>4 DEF DrainWaitEnds
  <2>5. CASE MarkStopping(a)
    BY <2>5 DEF MarkStopping
  <2>6. CASE Ask(a)
    BY <2>6 DEF Ask
  <2>7. CASE FlushAnswered(a)
    BY <2>7 DEF FlushAnswered
  <2>8. CASE OtherAnswered(a)
    BY <2>8 DEF OtherAnswered
  <2>9. CASE TimeOut(a)
    BY <2>9 DEF TimeOut
  <2>10. CASE Undo(a)
    BY <2>10 DEF Undo
  <2>11. CASE Release(a)
    BY <2>11 DEF Release
  <2>12. CASE Wake(a)
    BY <2>12 DEF Wake
  <2>13. CASE Join(a)
    BY <2>13 DEF Join
  <2> QED
    BY <1>2, <2>1, <2>2, <2>3, <2>4, <2>5, <2>6, <2>7, <2>8, <2>9, <2>10, <2>11, <2>12, <2>13
       DEF App, CallStep
<1>3. ASSUME NEW a \in Apps, NEW o \in Ops, Call(a, o) PROVE Places' /\ Mutex'
  BY <1>0, <1>3 DEF Call, Goto, Stay
<1> QED
  BY <1>1, <1>2, <1>3 DEF Next, Engine, DrainEnds, EngineDone, EngineDrained, OnOperationHandled,
     vars, controlVars, clientVars

-----------------------------------------------------------------------------
(* The server's status is what the client has been or will be told, or      *)
(* passes, as long as nothing was refused.                                  *)

\* What a step that is not a failure does.
LEMMA NotRefused ==
    ASSUME TypeOK, NEW a \in Apps, App(a), failure' # "refused", status' # status
    PROVE  /\ pc[a] \in {"drain", "ipc", "undo"} /\ op[a] # "release" => engine' # engine
           /\ At(a, "release", "ipc") /\ pc'[a] = "join" => status' = "RELEASED"
<1>1. ~Late
  BY DEF Late, TimeOut, serverVars
<1>2. ~Refused
  BY <1>1 DEF App, Failing
<1> QED BY <1>2 DEF Refused

(* The server is not asked: the client's state is its own doing.            *)
LEMMA ClientAlone ==
    ASSUME StatusTold, StatusPasses, UNCHANGED serverVars,
           state' = state \/ state' \in OwnStates
    PROVE  (StatusTold /\ StatusPasses)'
<1>1. \A s : WillBe(s) => WillBe(s)'
  BY WillBeOwn DEF serverVars
<1> QED BY <1>1 DEF StatusTold, StatusPasses, serverVars

\* A request is accepted.
LEMMA AcceptedStep ==
    ASSUME TypeOK, StatusTold, StatusPasses, NEW r \in Requests, ServerAccepts(r),
           state' = state
    PROVE  (StatusTold /\ StatusPasses)'
<1>1. \A s : WillBe(s) => WillBe(s)'
  BY WillBeOwn DEF ServerAccepts
<1>2. engine \in Seq(Requests)
  BY DEF TypeOK, ControlTypeOK, Requests
<1>3. Holds(engine, r)'
  BY <1>2, HoldsStep DEF ServerAccepts
<1>4. CASE r = "start"
  BY <1>1, <1>3, <1>4 DEF ServerAccepts, Legal, Entered, StatusTold, StatusPasses, Flushing
<1>5. CASE r = "pause"
  BY <1>1, <1>3, <1>5 DEF ServerAccepts, Legal, Entered, StatusTold, StatusPasses, Flushing
<1>6. CASE r = "flush"
  <2>1. CASE status = "STARTED"
    BY <1>1, <1>3, <1>6, <2>1 DEF ServerAccepts, Entered, StatusTold, StatusPasses, Flushing
  <2>2. CASE status = "PAUSED"
    BY <1>1, <1>3, <1>6, <2>2 DEF ServerAccepts, Entered, StatusTold, StatusPasses, Flushing
  <2>3. CASE status = "STOPPED"
    BY <1>1, <1>3, <1>6, <2>3 DEF ServerAccepts, Entered, StatusTold, StatusPasses, Flushing
  <2> QED BY <1>6, <2>1, <2>2, <2>3 DEF ServerAccepts, Legal
<1>7. CASE r = "drain"
  BY <1>1, <1>3, <1>7 DEF ServerAccepts, Legal, Entered, StatusTold, StatusPasses, Flushing
<1>8. CASE r = "stop"
  BY <1>1, <1>3, <1>8 DEF ServerAccepts, Legal, Entered, StatusTold, StatusPasses, Flushing
<1> QED BY <1>4, <1>5, <1>6, <1>7, <1>8 DEF Requests

\* Nothing is accepted, and the status stays.
LEMMA RefusedStep ==
    ASSUME TypeOK, StatusTold, StatusPasses, NEW a \in Apps, App(a), failure' # "refused",
           pc[a] \in {"drain", "ipc", "undo"}, op[a] # "release",
           NEW r \in Requests, ServerRefuses(r), state' = state
    PROVE  (StatusTold /\ StatusPasses)'
<1>1. status' = status
  BY NotRefused DEF ServerRefuses
<1> QED BY <1>1, ClientAlone DEF ServerRefuses, serverVars

\* The engine completes a request.
LEMMA EngineStatusStep ==
    ASSUME TypeOK, StatusTold, StatusPasses, Engine
    PROVE  (StatusTold /\ StatusPasses)'
<1>0. engine \in Seq(Requests) /\ pending \in Seq(Requests)
  BY DEF TypeOK, ControlTypeOK, Requests
<1>1. CASE DrainEnds
  <2>1. \A s : WillBe(s) => WillBe(s)'
    BY <1>0, <1>1, WillBeSent DEF DrainEnds, clientVars, Gives, Requests
  <2> QED BY <1>1, <2>1 DEF DrainEnds, StatusTold, StatusPasses, Flushing
<1>2. ASSUME NEW i \in 1 .. Len(engine), EngineDone(i) PROVE (StatusTold /\ StatusPasses)'
  <2>1. /\ engine[i] \in Requests \ {"drain"} /\ ~drained /\ ~drained'
        /\ engine' = Without(engine, i) /\ pending' = Append(pending, engine[i])
        /\ state' = state
    BY <1>0, <1>2 DEF EngineDone, Completable, clientVars, TypeOK, ControlTypeOK
  <2> PICK r \in Requests \ {"drain"} : engine[i] = r
    BY <2>1
  <2>2. /\ r \in DOMAIN Gives => WillBe(Gives[r])'
        /\ \A s : r \notin DOMAIN Gives /\ WillBe(s) => WillBe(s)'
    BY <1>0, <2>1, WillBeSent
  <2>3. CASE r = "start"
    <3>1. r \in DOMAIN Gives /\ Gives[r] = "RUNNING"
      BY <2>3 DEF Gives
    <3>2. WillBe("RUNNING")'
      BY <2>2, <3>1
    <3>3. status' = "STARTED"
      BY <1>2, <2>3 DEF EngineDone
    <3> QED BY <2>1, <3>2, <3>3 DEF StatusTold, StatusPasses, Flushing
  <2>4. CASE r = "pause"
    <3>1. r \in DOMAIN Gives /\ Gives[r] = "PAUSED"
      BY <2>4 DEF Gives
    <3>2. WillBe("PAUSED")'
      BY <2>2, <3>1
    <3>3. status' = "PAUSED"
      BY <1>2, <2>4 DEF EngineDone
    <3> QED BY <2>1, <3>2, <3>3 DEF StatusTold, StatusPasses, Flushing
  <2>5. CASE r = "stop"
    <3>1. r \in DOMAIN Gives /\ Gives[r] = "STOPPED"
      BY <2>5 DEF Gives
    <3>2. WillBe("STOPPED")'
      BY <2>2, <3>1
    <3>3. status' = "STOPPED"
      BY <1>2, <2>5 DEF EngineDone
    <3> QED BY <2>1, <3>2, <3>3 DEF StatusTold, StatusPasses, Flushing
  <2>6. CASE r = "flush"
    <3>1. \A s : WillBe(s) => WillBe(s)'
      BY <2>2, <2>6 DEF Gives
    <3>2. CASE status = "FLUSHING_WHEN_STARTED"
      BY <1>2, <2>1, <2>6, <3>1, <3>2 DEF EngineDone, StatusTold, StatusPasses, Flushing
    <3>3. CASE status = "FLUSHING_WHEN_PAUSED"
      BY <1>2, <2>1, <2>6, <3>1, <3>3 DEF EngineDone, StatusTold, StatusPasses, Flushing
    <3>4. CASE status = "FLUSHING_WHEN_STOPPED"
      BY <1>2, <2>1, <2>6, <3>1, <3>4 DEF EngineDone, StatusTold, StatusPasses, Flushing
    <3>5. CASE status \notin Flushing
      <4>1. status' = status
        BY <1>2, <2>6, <3>5 DEF EngineDone, Flushing
      <4>2. \A q \in {"start", "pause", "stop", "drain"} :
              Holds(engine, q) => Holds(engine, q)'
        BY <1>0, <2>1, <2>6, HoldsStep DEF Requests
      <4> QED BY <2>1, <3>1, <3>5, <4>1, <4>2 DEF StatusTold, StatusPasses
    <3> QED BY <3>2, <3>3, <3>4, <3>5 DEF Flushing
  <2> QED BY <2>1, <2>3, <2>4, <2>5, <2>6 DEF Requests
<1>3. ASSUME NEW i \in 1 .. Len(engine), EngineDrained(i) PROVE (StatusTold /\ StatusPasses)'
  <2>1. \A s : WillBe(s) => WillBe(s)'
    BY <1>3, WillBeOwn DEF EngineDrained, clientVars
  <2>2. \A r \in {"start", "pause", "stop", "flush"} : Holds(engine, r) => Holds(engine, r)'
    BY <1>0, <1>3, HoldsStep DEF EngineDrained, Requests
  <2> QED BY <1>3, <2>1, <2>2 DEF EngineDrained, StatusTold, StatusPasses
<1> QED BY <1>1, <1>2, <1>3 DEF Engine

\* Every step keeps the status told or passing.
LEMMA StatusStep ==
    ASSUME TypeOK, Places, [Next]_vars, failure' # "refused",
           failure # "refused" => StatusTold /\ StatusPasses
    PROVE  (StatusTold /\ StatusPasses)'
<1>1. CASE UNCHANGED vars
  BY <1>1, ClientAlone DEF vars, controlVars, clientVars
<1>2. ASSUME NEW a \in Apps, App(a) PROVE (StatusTold /\ StatusPasses)'
  <2>0. StatusTold /\ StatusPasses
    BY <1>2 DEF App, Failing
  <2>1. CASE Lock(a)
    <3>1. state' \in {state, "RELEASED"} /\ UNCHANGED serverVars
      BY <2>1 DEF Lock, Places, Place
    <3> QED BY <2>0, <3>1, ClientAlone DEF OwnStates
  <2>2. CASE LockWrite(a)
    BY <2>0, <2>2, ClientAlone DEF LockWrite
  <2>3. CASE Drain(a)
    <3>1. CASE ServerAccepts("drain")
      BY <2>0, <2>3, <3>1, AcceptedStep DEF Drain, Requests
    <3>2. CASE ServerRefuses("drain")
      <4>1. op[a] # "release"
        BY <2>3 DEF Drain, Places, Place
      <4> QED BY <1>2, <2>0, <2>3, <3>2, <4>1, RefusedStep DEF Drain, Requests
    <3> QED BY <2>3, <3>1, <3>2 DEF Drain
  <2>4. CASE DrainWaitEnds(a)
    BY <2>0, <2>4, ClientAlone DEF DrainWaitEnds
  <2>5. CASE MarkStopping(a)
    BY <2>0, <2>5, ClientAlone DEF MarkStopping, OwnStates
  <2>6. CASE Ask(a)
    <3>1. op[a] \in Requests /\ state' = state
      BY <2>6, AskedFor DEF Ask
    <3>2. CASE ServerAccepts(op[a])
      BY <2>0, <3>1, <3>2, AcceptedStep
    <3>3. CASE ServerRefuses(op[a])
      BY <1>2, <2>0, <2>6, <3>1, <3>3, RefusedStep DEF Ask
    <3> QED BY <2>6, <3>2, <3>3 DEF Ask
  <2>7. CASE FlushAnswered(a)
    BY <2>0, <2>7, ClientAlone DEF FlushAnswered
  <2>8. CASE OtherAnswered(a)
    BY <2>0, <2>8, ClientAlone DEF OtherAnswered
  <2>9. CASE TimeOut(a)
    BY <2>0, <2>9, ClientAlone DEF TimeOut, OwnStates
  <2>10. CASE Undo(a)
    <3>1. CASE ServerAccepts("stop")
      BY <2>0, <2>10, <3>1, AcceptedStep DEF Undo, Requests
    <3>2. CASE ServerRefuses("stop")
      <4>1. op[a] # "release"
        BY <2>10 DEF Undo, Places, Place
      <4> QED BY <1>2, <2>0, <2>10, <3>2, <4>1, RefusedStep DEF Undo, Requests
    <3> QED BY <2>10, <3>1, <3>2 DEF Undo
  <2>11. CASE Release(a)
    <3>0. state' = state /\ drained' = drained /\ pending' = pending /\ pc'[a] = "join"
      BY <2>11 DEF Release, ServerRelease, Goto, At, TypeOK, ControlTypeOK
    <3>1. \A s : WillBe(s) => WillBe(s)'
      BY <3>0, WillBeOwn
    <3>2. CASE status' = status /\ engine' = engine
      BY <2>0, <3>0, <3>2, ClientAlone DEF serverVars
    <3>3. CASE status' = "RELEASED"
      BY <2>0, <3>0, <3>1, <3>3 DEF StatusTold, StatusPasses, Flushing
    <3>4. CASE status' = "INVALID"
      <4>1. status # "INVALID"
        BY <2>0 DEF StatusPasses
      <4> QED BY <1>2, <2>11, <3>0, <3>4, <4>1, NotRefused DEF Release
    <3> QED BY <2>11, <3>2, <3>3, <3>4 DEF Release, ServerRelease
  <2>12. CASE Wake(a)
    BY <2>0, <2>12, ClientAlone DEF Wake
  <2>13. CASE Join(a)
    BY <2>0, <2>13, ClientAlone DEF Join
  <2> QED
    BY <1>2, <2>1, <2>2, <2>3, <2>4, <2>5, <2>6, <2>7, <2>8, <2>9, <2>10, <2>11, <2>12, <2>13
       DEF App, CallStep
<1>3. CASE Engine /\ UNCHANGED failure
  BY <1>3, EngineStatusStep
<1>4. CASE OnOperationHandled /\ UNCHANGED failure
  <2>1. \A s : WillBe(s) => WillBe(s)'
    BY <1>4, WillBeHandled DEF TypeOK, ControlTypeOK, Requests
  <2> QED BY <1>4, <2>1 DEF OnOperationHandled, StatusTold, StatusPasses
<1>5. ASSUME NEW a \in Apps, NEW o \in Ops, Call(a, o), UNCHANGED failure
      PROVE (StatusTold /\ StatusPasses)'
  BY <1>5, ClientAlone DEF Call
<1> QED BY <1>1, <1>2, <1>3, <1>4, <1>5 DEF Next

-----------------------------------------------------------------------------
(* One request at a time, as long as no answer came late.                   *)

\* A call inside is not Release.
LEMMA InsideAsks ==
    ASSUME Places, NEW a \in Apps, Inside(a)
    PROVE  op[a] \in {"start", "pause", "stop", "flush"}
BY DEF Places, Place, Inside

\* There is one call inside.
LEMMA Alone ==
    ASSUME Mutex, NEW a \in Apps, Inside(a)
    PROVE  \A b \in Apps : b # a => ~Inside(b) /\ ~Drains(b)
BY DEF Mutex, Inside, Drains

\* A call that may have sent a drain is inside.
LEMMA NobodyDrains == ASSUME NoneInside PROVE \A b \in Apps : ~Drains(b)
BY DEF NoneInside, Inside, Drains

\* Of a client that is released, only a call that has yet to look is inside.
LEMMA ReleasedIsQuiet ==
    ASSUME Places, Mutex, OneAtATime, state = "RELEASED"
    PROVE  /\ Told /\ \A b \in Apps : ~Drains(b)
           /\ \A b \in Apps : Inside(b) => pc[b] \in {"wlock", "mark"}
<1>1. ASSUME NEW a \in Apps, Inside(a) PROVE pc[a] \in {"wlock", "mark"} /\ Told /\ ~Drains(a)
  <2>1. op[a] \in {"start", "pause", "stop", "flush"} /\ InPlace(a)
    BY <1>1, InsideAsks DEF OneAtATime
  <2>2. pc[a] \notin {"ipc", "wait", "wake", "drain", "drainwait"}
    <3>1. pc[a] \notin {"drain", "drainwait"}
      BY <2>1 DEF InPlace
    <3>2. pc[a] # "ipc"
      BY <2>1 DEF InPlace, MayAsk, CanStart, CanFlush
    <3>3. pc[a] # "wait"
      <4> SUFFICES ASSUME WaitsFor(op[a]) PROVE FALSE
        BY <2>1 DEF InPlace
      <4> QED BY <2>1 DEF WaitsFor, CanStart, CanFlush
    <3>4. pc[a] # "wake"
      <4> SUFFICES ASSUME pc[a] = "wake", state = Gives[op[a]] PROVE FALSE
        BY <2>1 DEF InPlace, Answer
      <4>1. op[a] # "flush"
        BY <1>1 DEF Places, Place
      <4> QED BY <2>1, <4>1 DEF Gives
    <3> QED BY <3>1, <3>2, <3>3, <3>4
  <2>3. pc[a] \in {"wlock", "mark"}
    BY <2>1, <2>2 DEF InPlace
  <2> QED BY <2>1, <2>3 DEF InPlace, Drains
<1>2. CASE NoneInside
  BY <1>2, NobodyDrains DEF OneAtATime, NoneInside
<1>3. CASE ~NoneInside
  BY <1>1, <1>3, Alone DEF NoneInside
<1> QED BY <1>1, <1>2, <1>3

\* A behaviour without a late answer has had none before.
LEMMA FailureStep ==
    ASSUME [Next]_vars, TypeOK, failure' # "late"
    PROVE  /\ failure # "late" /\ (failure' = "none" => failure = "none")
           /\ failure = "refused" => failure' = "refused"
           /\ \A a \in Apps : App(a) => ~TimeOut(a)
<1>1. \A a \in Apps : App(a) =>
        /\ ~TimeOut(a) /\ failure \in {"none", failure'}
        /\ failure' \in {failure, "refused"}
  BY DEF App, Failing, Late
<1>2. CASE UNCHANGED failure
  BY <1>1, <1>2
<1>3. CASE \E a \in Apps : App(a)
  BY <1>1, <1>3
<1> QED BY <1>2, <1>3 DEF Next, vars

\* What is left to show of a step of the call that is inside: that it stays
\* in place or leaves nothing behind, and what becomes of the state.
LEMMA InsideStep ==
    ASSUME TypeOK, Places, Mutex, OneAtATime, [Next]_vars, failure' # "late",
           NEW a \in Apps, Inside(a), op' = op, \A b \in Apps : b # a => pc'[b] = pc[b],
           Inside(a)' => InPlace(a)',
           ~Inside(a)' => Told' /\ notified' # "flush",
           state' = state \/ (state # "RELEASED" /\ state' \notin {"RELEASED", "INVALID"}),
           drained' \/ status' = "DRAINING" =>
             Drains(a)' \/ (failure' = "refused" /\ state' \in {"STOPPING", "RELEASED"}),
           failure' = "none" =>
             /\ state' = "STOPPING" => op[a] = "stop" /\ pc'[a] \in {"ipc", "wait"}
             /\ status' = "RELEASED" <=> status = "RELEASED"
    PROVE  OneAtATime'
<1>1. \A b \in Apps : b # a => ~Inside(b)'
  BY Alone DEF Inside
<1>2. /\ \A b \in Apps : Inside(b)' => InPlace(b)'
      /\ NoneInside' => Told' /\ notified' # "flush"
  BY <1>1 DEF NoneInside
<1>3. \A b \in Apps : Releases(b)' => state' = "RELEASED"
  <2> SUFFICES ASSUME NEW b \in Apps, Releases(b)' PROVE state' = "RELEASED"
    OBVIOUS
  <2>1. b # a /\ Releases(b)
    BY DEF Releases, Inside
  <2> QED BY <2>1 DEF OneAtATime, Ends
<1>4. ASSUME failure' = "none"
      PROVE  /\ state' = "STOPPING" =>
                    \E b \in Apps : (op[b] = "stop" /\ pc[b] \in {"ipc", "wait"})'
             /\ status' = "RELEASED" => state' = "RELEASED"
             /\ state' = "RELEASED" =>
                  status' = "RELEASED" \/ \E b \in Apps : At(b, "release", "ipc")'
  <2>1. failure = "none"
    BY <1>4, FailureStep
  <2>2. /\ status = "RELEASED" => state = "RELEASED"
        /\ state = "RELEASED" => status = "RELEASED" \/ \E b \in Apps : At(b, "release", "ipc")
    BY <2>1 DEF OneAtATime, Ends
  <2>3. \A b \in Apps : At(b, "release", "ipc") => At(b, "release", "ipc")'
    BY DEF At, Inside
  <2> QED BY <1>4, <2>2, <2>3
<1>5. state' # "INVALID"
  BY DEF OneAtATime, Ends
<1> QED BY <1>2, <1>3, <1>4, <1>5 DEF OneAtATime, Ends

\* Nothing is under way, and the state is one a stream runs or rests in.
LEMMA SettledStatus ==
    ASSUME TypeOK, StatusTold, StatusPasses, Told, Ends, failure = "none",
           state \in {"RUNNING", "PAUSED"}
    PROVE  status \in {"STARTED", "DRAINING", "PAUSED"}
<1>1. \A r \in {"start", "pause", "stop", "flush"} : ~Holds(engine, r)
  BY DEF Told, Quiet, Holds
<1>2. \A s \in {"PREPARED", "STOPPED"} : ~WillBe(s)
  BY DEF Told, Quiet, WillBe, Gives, OwnStates
<1>3. status # "RELEASED"
  BY DEF Ends
<1> QED BY <1>1, <1>2, <1>3 DEF StatusTold, StatusPasses, TypeOK, ControlTypeOK, Flushing

\* Stop and Flush take writeMutex_.
LEMMA LockWriteOne ==
    ASSUME TypeOK, Places, Mutex, OneAtATime, [Next]_vars, failure' # "late",
           NEW a \in Apps, LockWrite(a)
    PROVE  OneAtATime'
<1>0. op[a] \in {"stop", "flush"} /\ pc[a] = "wlock" /\ Inside(a)
  BY DEF LockWrite, Places, Place, Inside
<1>1. /\ Told /\ notified # "flush" /\ (failure = "none" => state # "STOPPING")
  BY <1>0 DEF OneAtATime, InPlace
<1>2. Told' /\ notified' # "flush"
  BY <1>1 DEF LockWrite, serverVars, Told, Quiet
<1>3. /\ op' = op /\ \A b \in Apps : b # a => pc'[b] = pc[b]
      /\ state' = state /\ status' = status /\ drained' = drained
  BY DEF LockWrite, Goto, Return, serverVars, TypeOK, ControlTypeOK
<1>4. /\ failure' = "none" => failure = "none" 
      /\ failure = "refused" => failure' = "refused"
  BY FailureStep
<1>5. \/ pc'[a] = "idle"
      \/ op[a] = "flush" /\ state \in CanFlush /\ pc'[a] = "ipc"
      \/ op[a] = "stop" /\ state = "RUNNING" /\ pc'[a] = "drain"
      \/ op[a] = "stop" /\ state # "RUNNING" /\ pc'[a] = "mark"
  BY <1>0 DEF LockWrite, Goto, Return, TypeOK, ControlTypeOK, CanFlush
<1>6. Inside(a)' => InPlace(a)'
  BY <1>1, <1>2, <1>3, <1>4, <1>5 DEF Inside, InPlace, MayAsk
<1>7. ~Drains(a)
  BY <1>0 DEF Drains
<1>8. drained \/ status = "DRAINING" => failure' = "refused" /\ state \in {"STOPPING", "RELEASED"}
  BY <1>0, <1>4, <1>7, Alone DEF OneAtATime, Ends
<1>9. failure' = "none" => state # "STOPPING"
  BY <1>1, <1>4
<1> QED BY <1>0, <1>2, <1>3, <1>6, <1>8, <1>9, InsideStep

\* Stop sends its drain, ...
LEMMA DrainOne ==
    ASSUME TypeOK, Places, Mutex, OneAtATime, [Next]_vars, failure' # "late",
           NEW a \in Apps, Drain(a)
    PROVE  OneAtATime'
<1>0. op[a] = "stop" /\ pc[a] = "drain" /\ Inside(a) /\ engine \in Seq(Requests)
  BY DEF Drain, Places, Place, Inside, TypeOK, ControlTypeOK, Requests
<1>1. Told /\ notified # "flush" /\ state = "RUNNING"
  BY <1>0 DEF OneAtATime, InPlace
<1>2. Told' /\ notified' # "flush"
  <2>1. engine' \in {engine, Append(engine, "drain")} /\ pending' = pending /\ notified' = notified
    BY DEF Drain, ServerAccepts, ServerRefuses
  <2>2. Quiet(Append(engine, "drain"))
    BY <1>0, <1>1, QuietStep DEF Told
  <2>3. Quiet(engine') /\ Quiet(pending')
    BY <1>1, <2>1, <2>2 DEF Told
  <2> QED BY <1>1, <2>1, <2>3 DEF Told, Quiet
<1>3. /\ op' = op /\ \A b \in Apps : b # a => pc'[b] = pc[b]
      /\ state' = state /\ pc'[a] \in {"drainwait", "mark"}
  BY <1>0 DEF Drain, Goto, TypeOK, ControlTypeOK
<1>4. Inside(a)' /\ InPlace(a)' /\ Drains(a)'
  BY <1>0, <1>1, <1>2, <1>3 DEF Inside, InPlace, Drains
<1>5. status # "RELEASED" => status' # "RELEASED"
  BY DEF Drain, ServerAccepts, ServerRefuses, Entered
<1>6. status = "RELEASED" => status' = "RELEASED"
  BY DEF Drain, ServerAccepts, ServerRefuses, Legal
<1>7. /\ state' # "STOPPING"
      /\ status' = "RELEASED" <=> status = "RELEASED"
  BY <1>1, <1>3, <1>5, <1>6
<1> QED BY <1>0, <1>3, <1>4, <1>7, InsideStep

\* ... ends its wait for it, ...
LEMMA DrainWaitOne ==
    ASSUME TypeOK, Places, Mutex, OneAtATime, [Next]_vars, failure' # "late",
           NEW a \in Apps, DrainWaitEnds(a)
    PROVE  OneAtATime'
<1>0. op[a] = "stop" /\ pc[a] = "drainwait" /\ Inside(a)
  BY DEF DrainWaitEnds, Places, Place, Inside
<1>1. Told /\ notified # "flush" /\ state = "RUNNING"
  BY <1>0 DEF OneAtATime, InPlace
<1>2. Told' /\ notified' # "flush"
  BY <1>1 DEF DrainWaitEnds, serverVars, Told, Quiet
<1>3. /\ op' = op /\ \A b \in Apps : b # a => pc'[b] = pc[b]
      /\ state' = state /\ pc'[a] = "mark" /\ status' = status
  BY <1>0 DEF DrainWaitEnds, Goto, serverVars, TypeOK, ControlTypeOK
<1>4. Inside(a)' /\ InPlace(a)' /\ Drains(a)'
  BY <1>0, <1>1, <1>2, <1>3 DEF Inside, InPlace, Drains
<1>5. /\ state' # "STOPPING"
      /\ status' = "RELEASED" <=> status = "RELEASED"
  BY <1>1, <1>3
<1> QED BY <1>0, <1>3, <1>4, <1>5, InsideStep

\* ... and marks the state.
LEMMA MarkOne ==
    ASSUME TypeOK, Places, Mutex, OneAtATime, [Next]_vars, failure' # "late",
           failure # "refused" => StatusTold /\ StatusPasses,
           NEW a \in Apps, MarkStopping(a)
    PROVE  OneAtATime'
<1>0. op[a] = "stop" /\ pc[a] = "mark" /\ Inside(a)
  BY DEF MarkStopping, Places, Place, Inside
<1>1. Told /\ notified # "flush" /\ (failure = "none" => state # "STOPPING")
  BY <1>0 DEF OneAtATime, InPlace
<1>2. Told' /\ notified' # "flush"
  BY <1>1 DEF MarkStopping, serverVars, Told, Quiet
<1>3. /\ op' = op /\ \A b \in Apps : b # a => pc'[b] = pc[b]
      /\ status' = status /\ drained' = drained
  BY <1>0 DEF MarkStopping, Goto, Return, serverVars, TypeOK, ControlTypeOK
<1>4. /\ failure' = "none" => failure = "none" 
      /\ failure = "refused" => failure' = "refused"
  BY FailureStep
<1>5. CASE state \in {"RUNNING", "PAUSED"}
  <2>1. state' = "STOPPING" /\ pc'[a] = "ipc"
    BY <1>5 DEF MarkStopping, Goto, TypeOK, ControlTypeOK
  <2>2. failure' = "none" => status' \in {"STARTED", "DRAINING", "PAUSED"}
    BY <1>1, <1>3, <1>4, <1>5, SettledStatus DEF OneAtATime
  <2>3. Inside(a)' /\ InPlace(a)' /\ Drains(a)'
    BY <1>0, <1>2, <1>3, <2>1, <2>2 DEF Inside, InPlace, MayAsk, Drains
  <2> QED BY <1>0, <1>3, <1>5, <2>1, <2>3, InsideStep
<1>6. CASE state \notin {"RUNNING", "PAUSED"}
  <2>1. state' = state /\ pc'[a] = "idle"
    BY <1>6 DEF MarkStopping, Return, Goto, TypeOK, ControlTypeOK
  <2>2. ~Drains(a) /\ ~Inside(a)'
    BY <1>0, <1>3, <1>6, <2>1 DEF Drains, Inside
  <2>3. drained \/ status = "DRAINING" =>
          failure' = "refused" /\ state \in {"STOPPING", "RELEASED"}
    BY <1>0, <1>4, <2>2, Alone DEF OneAtATime, Ends
  <2>4. failure' = "none" => state # "STOPPING"
    BY <1>1, <1>4
  <2> QED BY <1>0, <1>2, <1>3, <2>1, <2>2, <2>3, <2>4, InsideStep
<1> QED BY <1>5, <1>6

\* A call asks the server.
LEMMA AskOne ==
    ASSUME TypeOK, Places, Mutex, OneAtATime, [Next]_vars, failure' # "late",
           NEW a \in Apps, App(a), Ask(a)
    PROVE  OneAtATime'
<1>0. /\ op[a] \in {"start", "pause", "stop", "flush"} /\ pc[a] = "ipc" /\ Inside(a)
      /\ engine \in Seq(Requests)
  BY InsideAsks DEF Ask, Inside, TypeOK, ControlTypeOK, Requests
<1>1. MayAsk(op[a])
  BY <1>0 DEF OneAtATime, InPlace
<1>2. /\ op' = op /\ \A b \in Apps : b # a => pc'[b] = pc[b]
      /\ state' = state /\ notified' = notified /\ pending' = pending /\ drained' = drained
  BY <1>0 DEF Ask, Goto, Return, ServerAccepts, ServerRefuses, TypeOK, ControlTypeOK
<1>3. /\ failure' = "none" => failure = "none"
      /\ failure = "refused" => failure' = "refused"
  BY FailureStep
<1>4. drained \/ status = "DRAINING" =>
        Drains(a) \/ (failure = "refused" /\ state \in {"STOPPING", "RELEASED"})
  BY <1>0, Alone DEF OneAtATime, Ends
<1>5. PICK r \in {"start", "pause", "stop", "flush"} : op[a] = r
  BY <1>0
<1>6. /\ r # "stop" => state \notin {"STOPPING", "RELEASED"} /\ ~Drains(a)
      /\ r = "stop" => state = "STOPPING"
  BY <1>1, <1>5 DEF MayAsk, CanStart, CanFlush, Drains
<1>7. CASE ServerAccepts(r) /\ Goto(a, "wait")
  <2>1. pc'[a] = "wait" /\ Inside(a)'
    BY <1>0, <1>2, <1>7 DEF Goto, TypeOK, ControlTypeOK, Inside
  <2>2. Only(engine, r)' /\ Quiet(pending)'
    BY <1>0, <1>1, <1>2, <1>7, QuietStep DEF ServerAccepts, MayAsk, Told, Requests
  <2>3. /\ r = "start" => status' = "STARTING"
        /\ r = "pause" => status' = "PAUSING"
        /\ r = "flush" => status' \in Flushing
        /\ r = "stop"  => status' = "STOPPING"
    BY <1>7 DEF ServerAccepts, Entered, Legal, Flushing
  <2>4. WaitsFor(r)'
    BY <1>1, <1>2, <1>5, <2>2, <2>3 DEF WaitsFor, Asked, MayAsk
  <2>5. InPlace(a)'
    BY <1>2, <1>5, <2>1, <2>4 DEF InPlace
  <2>6. status' # "DRAINING" /\ status' # "RELEASED" /\ status # "RELEASED"
    BY <1>7, <2>3 DEF Flushing, ServerAccepts, Legal
  <2>7. drained' \/ status' = "DRAINING" => Drains(a)'
    BY <1>2, <1>4, <1>5, <1>6, <2>1, <2>6 DEF Drains
  <2>8. state' = "STOPPING" => op[a] = "stop" /\ pc'[a] \in {"ipc", "wait"}
    BY <1>2, <1>5, <1>6, <2>1
  <2> QED BY <1>0, <1>2, <2>1, <2>5, <2>6, <2>7, <2>8, InsideStep
<1>8. CASE ServerRefuses(r) /\ Return(a)
  <2>1. ~Inside(a)'
    BY <1>0, <1>8 DEF Return, Goto, TypeOK, ControlTypeOK, Inside
  <2>2. Told' /\ notified' # "flush"
    BY <1>1, <1>2, <1>8 DEF MayAsk, Told, Quiet, ServerRefuses
  <2>3. status' \in {status, "STARTING", "PAUSING", "STOPPING"} \cup Flushing
    BY <1>8 DEF ServerRefuses, Entered, Legal, Flushing
  <2>4. failure' = "none" => status' = status
    BY <1>0, <1>8, NotRefused DEF ServerRefuses, Inside
  <2>5. r = "stop" => failure' = "refused"
    <3> SUFFICES ASSUME r = "stop", failure = "none" PROVE failure' # "none"
      BY <1>3, FailureStep DEF TypeOK, App, Failing
    <3>1. status \in {"STARTED", "DRAINING", "PAUSED"}
      BY <1>1, <1>5 DEF MayAsk
    <3>2. status' # status
      BY <1>8, <3>1 DEF ServerRefuses, Legal, Entered
    <3> QED BY <2>4, <3>2
  <2>6. drained' \/ status' = "DRAINING" => drained \/ status = "DRAINING"
    BY <1>2, <2>3 DEF Flushing
  <2>7. drained' \/ status' = "DRAINING" =>
          failure' = "refused" /\ state' \in {"STOPPING", "RELEASED"}
    BY <1>2, <1>4, <1>6, <2>5, <2>6
  <2>8. failure' = "none" =>
          state' # "STOPPING" /\ (status' = "RELEASED" <=> status = "RELEASED")
    BY <1>2, <1>6, <2>4, <2>5
  <2> QED BY <1>0, <1>2, <2>1, <2>2, <2>7, <2>8, InsideStep
<1> QED BY <1>5, <1>7, <1>8 DEF Ask

\* The ends of a wait.
LEMMA AnsweredOne ==
    ASSUME TypeOK, Places, Mutex, OneAtATime, [Next]_vars, failure' # "late",
           NEW a \in Apps, FlushAnswered(a) \/ OtherAnswered(a) \/ Wake(a)
    PROVE  OneAtATime'
<1>0. op[a] \in {"start", "pause", "stop", "flush"} /\ pc[a] \in {"wait", "wake"} /\ Inside(a)
  BY InsideAsks DEF FlushAnswered, OtherAnswered, Wake, At, Inside, Places, Place
<1>1. /\ op' = op /\ \A b \in Apps : b # a => pc'[b] = pc[b]
      /\ state' = state /\ status' = status /\ drained' = drained
      /\ engine' = engine /\ pending' = pending
  BY <1>0 DEF FlushAnswered, OtherAnswered, Wake, Goto, Return, serverVars, TypeOK, ControlTypeOK
<1>2. /\ failure' = "none" => failure = "none"
      /\ failure = "refused" => failure' = "refused"
  BY FailureStep
<1>3. drained \/ status = "DRAINING" =>
        Drains(a) \/ (failure = "refused" /\ state \in {"STOPPING", "RELEASED"})
  BY <1>0, Alone DEF OneAtATime, Ends
<1>4. CASE FlushAnswered(a)
  <2>1. op[a] = "flush" /\ notified = "flush" /\ WaitsFor("flush")
    BY <1>4 DEF FlushAnswered, At, Answered, OneAtATime, InPlace, Inside
  <2>2. Told /\ state \in CanFlush
    BY <2>1 DEF WaitsFor
  <2>3. Told' /\ notified' # "flush"
    BY <1>1, <1>4, <2>2 DEF FlushAnswered, Told, Quiet
  <2>4. ~Inside(a)' /\ ~Drains(a) /\ state \notin {"STOPPING", "RELEASED"}
    BY <1>4, <2>1, <2>2 DEF FlushAnswered, Return, Goto, Inside, TypeOK, ControlTypeOK,
       CanFlush, Drains
  <2> QED BY <1>0, <1>1, <1>3, <2>3, <2>4, InsideStep
<1>5. CASE OtherAnswered(a)
  <2>1. op[a] \in {"start", "pause", "stop"} /\ WaitsFor(op[a]) /\ pc'[a] = "wake"
    BY <1>0, <1>5 DEF OtherAnswered, Goto, OneAtATime, InPlace, TypeOK, ControlTypeOK
  <2>2. /\ Told /\ notified # "flush" /\ state = Gives[op[a]] /\ Achieved(op[a])
        /\ state \notin {"STOPPING", "RELEASED"}
        /\ op[a] = "stop" => ~drained /\ status = "STOPPED"
    <3>1. CASE op[a] = "start"
      BY <1>5, <2>1, <3>1 DEF OtherAnswered, Answered, WaitsFor, CanStart, Achieved, Gives
    <3>2. CASE op[a] = "pause"
      BY <1>5, <2>1, <3>2 DEF OtherAnswered, Answered, WaitsFor, Achieved, Gives
    <3>3. CASE op[a] = "stop"
      BY <1>5, <2>1, <3>3 DEF OtherAnswered, Answered, WaitsFor, Achieved, Gives
    <3> QED BY <2>1, <3>1, <3>2, <3>3
  <2>3. Answer(op[a])'
    BY <1>1, <1>5, <2>2 DEF OtherAnswered, Answer, Told, Quiet, Achieved
  <2>4. Inside(a)' /\ InPlace(a)'
    BY <1>1, <2>1, <2>3 DEF Inside, InPlace
  <2>5. ~drained /\ status # "DRAINING"
    <3>1. CASE op[a] = "stop"
      BY <2>2, <3>1
    <3>2. CASE op[a] # "stop"
      BY <1>3, <2>2, <3>2 DEF Drains
    <3> QED BY <3>1, <3>2
  <2> QED BY <1>0, <1>1, <2>2, <2>4, <2>5, InsideStep
<1>6. CASE Wake(a)
  <2>1. op[a] \in {"start", "pause", "stop"} /\ Answer(op[a])
    BY <1>0, <1>6 DEF Wake, OneAtATime, InPlace, Places, Place
  <2>2. state \notin {"STOPPING", "RELEASED"} /\ ~Drains(a)
    BY <1>6, <2>1 DEF Wake, Answer, Gives, Drains
  <2>3. Told' /\ notified' # "flush" /\ ~Inside(a)'
    BY <1>1, <1>6, <2>1 DEF Wake, Answer, Told, Quiet, Return, Goto, Inside, TypeOK, ControlTypeOK
  <2> QED BY <1>0, <1>1, <1>3, <2>2, <2>3, InsideStep
<1> QED BY <1>4, <1>5, <1>6

\* A call that is not inside: it makes its first check, or it releases.
LEMMA OutsideStep ==
    ASSUME TypeOK, OneAtATime, [Next]_vars, failure' # "late",
           NEW a \in Apps, ~Inside(a), ~Inside(a)',
           \A b \in Apps : b # a => op'[b] = op[b] /\ pc'[b] = pc[b],
           UNCHANGED <<state, notified, serverVars>>,
           Releases(a)' => Releases(a),
           At(a, "release", "ipc") => At(a, "release", "ipc")'
    PROVE  OneAtATime'
<1>0. /\ failure # "late" /\ (failure' = "none" => failure = "none")
      /\ failure = "refused" => failure' = "refused"
      /\ UNCHANGED <<status, drained, engine, pending>>
  BY FailureStep DEF serverVars
<1>1. \A b \in Apps : /\ Inside(b)' <=> Inside(b)
                      /\ Drains(b)' <=> Drains(b)
                      /\ At(b, "release", "ipc") => At(b, "release", "ipc")'
                      /\ Releases(b)' => Releases(b)
  <2> SUFFICES ASSUME NEW b \in Apps
               PROVE  /\ Inside(b)' <=> Inside(b)
                      /\ Drains(b)' <=> Drains(b)
                      /\ At(b, "release", "ipc") => At(b, "release", "ipc")'
                      /\ Releases(b)' => Releases(b)
    OBVIOUS
  <2>1. CASE b = a
    BY <2>1 DEF Inside, Drains
  <2>2. CASE b # a
    BY <2>2 DEF Inside, Drains, At, Releases
  <2> QED BY <2>1, <2>2
<1>2. Told' <=> Told
  BY <1>0 DEF Told, Quiet
<1>3. ASSUME NEW b \in Apps, Inside(b)' PROVE InPlace(b)'
  <2>1. Inside(b) /\ InPlace(b) /\ pc'[b] = pc[b] /\ op'[b] = op[b]
    BY <1>1, <1>3 DEF OneAtATime
  <2>2. PICK r : op[b] = r
    OBVIOUS
  <2>3. MayAsk(r) => MayAsk(r)'
    BY <1>0, <1>2 DEF MayAsk
  <2>4. Answer(r) => Answer(r)'
    BY <1>0, <1>2 DEF Answer, Achieved
  <2>5. WaitsFor(r) => WaitsFor(r)'
    <3>1. (Asked(r)' <=> Asked(r)) /\ (Done(r)' <=> Done(r))
      BY <1>0 DEF Asked, Done, Only, Quiet
    <3> QED BY <1>0, <1>2, <3>1, Zenon DEF WaitsFor
  <2> QED BY <1>0, <1>2, <2>1, <2>2, <2>3, <2>4, <2>5 DEF InPlace
<1>4. NoneInside' => Told' /\ notified' # "flush"
  BY <1>1, <1>2 DEF NoneInside, OneAtATime
<1>5. Ends'
  <2>1. Ends
    BY DEF OneAtATime
  <2>2. /\ state' # "INVALID"
        /\ \A b \in Apps : Releases(b)' => state' = "RELEASED"
    BY <1>1, <2>1 DEF Ends
  <2>3. drained' \/ status' = "DRAINING" =>
          \/ \E b \in Apps : Drains(b)'
          \/ failure' = "refused" /\ state' \in {"STOPPING", "RELEASED"}
    BY <1>0, <1>1, <2>1 DEF Ends
  <2>4. ASSUME failure' = "none"
        PROVE  /\ state' = "STOPPING" =>
                    \E b \in Apps : (op[b] = "stop" /\ pc[b] \in {"ipc", "wait"})'
               /\ status' = "RELEASED" => state' = "RELEASED"
               /\ state' = "RELEASED" =>
                    status' = "RELEASED" \/ \E b \in Apps : At(b, "release", "ipc")'
    <3>1. ASSUME NEW b \in Apps, op[b] = "stop" /\ pc[b] \in {"ipc", "wait"}
          PROVE (op[b] = "stop" /\ pc[b] \in {"ipc", "wait"})'
      BY <3>1 DEF Inside
    <3> QED BY <1>0, <1>1, <2>1, <2>4, <3>1 DEF Ends
  <2> QED BY <2>2, <2>3, <2>4 DEF Ends
<1> QED BY <1>3, <1>4, <1>5 DEF OneAtATime

\* A call begins.
LEMMA CallOne ==
    ASSUME TypeOK, OneAtATime, [Next]_vars, failure' # "late",
           NEW a \in Apps, NEW o \in Ops, Call(a, o)
    PROVE  OneAtATime'
<1>1. /\ pc[a] = "idle" /\ pc'[a] = "lock"
      /\ \A b \in Apps : b # a => op'[b] = op[b] /\ pc'[b] = pc[b]
  BY DEF Call, Goto, TypeOK, ControlTypeOK
<1>2. ~Inside(a) /\ ~Inside(a)' /\ ~Releases(a)' /\ ~At(a, "release", "ipc")
  BY <1>1 DEF Inside, Releases, At
<1> QED BY <1>1, <1>2, OutsideStep DEF Call

\* Release ends.
LEMMA JoinOne ==
    ASSUME TypeOK, Places, OneAtATime, [Next]_vars, failure' # "late", NEW a \in Apps, Join(a)
    PROVE  OneAtATime'
<1>1. pc[a] = "join" /\ pc'[a] = "idle" /\ op' = op /\ \A b \in Apps : b # a => pc'[b] = pc[b]
  BY DEF Join, Return, Goto, TypeOK, ControlTypeOK
<1>2. op[a] = "release"
  BY <1>1 DEF Places, Place
<1>3. ~Inside(a) /\ ~Inside(a)' /\ ~Releases(a)' /\ ~At(a, "release", "ipc")
  BY <1>1, <1>2 DEF Inside, Releases, At
<1> QED BY <1>1, <1>3, OutsideStep DEF Join

\* The first check of a call.
LEMMA LockOne ==
    ASSUME TypeOK, Places, Mutex, OneAtATime, [Next]_vars, failure' # "late",
           NEW a \in Apps, Lock(a)
    PROVE  OneAtATime'
<1>0. /\ pc[a] = "lock" /\ statusMutex = Free
      /\ op[a] \in {"start", "pause", "stop", "flush", "release"}
  BY DEF Lock, Places, Place
<1>1. /\ op' = op /\ \A b \in Apps : b # a => pc'[b] = pc[b]
      /\ UNCHANGED <<notified, serverVars>>
  BY <1>0 DEF Lock, Goto, Return, TypeOK, ControlTypeOK
<1>2. NoneInside /\ Told /\ notified # "flush"
  BY <1>0 DEF NoneInside, Mutex, OneAtATime
<1>3. /\ failure' = "none" => failure = "none"
      /\ failure = "refused" => failure' = "refused"
      /\ failure' \in {"none", "refused"}
  BY FailureStep, TypeStep DEF TypeOK
<1>4. /\ \/ ~drained /\ status # "DRAINING"
         \/ failure' = "refused" /\ state \in {"STOPPING", "RELEASED"}
      /\ failure' = "none" => state # "STOPPING"
  <2>1. \A b \in Apps : ~Drains(b) /\ ~(op[b] = "stop" /\ pc[b] \in {"ipc", "wait"})
    BY <1>2, NobodyDrains DEF NoneInside, Inside
  <2> QED BY <1>3, <2>1 DEF OneAtATime, Ends
<1>5. Told' /\ notified' # "flush"
  BY <1>1, <1>2 DEF serverVars, Told, Quiet
<1>6. \/ pc'[a] = "idle" /\ state' = state
      \/ op[a] = "start" /\ state \in CanStart /\ pc'[a] = "ipc" /\ state' = state
      \/ op[a] = "pause" /\ state = "RUNNING" /\ pc'[a] = "ipc" /\ state' = state
      \/ op[a] \in {"stop", "flush"} /\ pc'[a] = "wlock" /\ state' = state
      \/ op[a] = "release" /\ state # "RELEASED" /\ pc'[a] = "ipc" /\ state' = "RELEASED"
  <2>1. CASE op[a] = "start"
    BY <2>1 DEF Lock, Goto, Return, TypeOK, ControlTypeOK, CanStart
  <2>2. CASE op[a] = "pause"
    BY <2>2 DEF Lock, Goto, Return, TypeOK, ControlTypeOK
  <2>3. CASE op[a] \in {"stop", "flush"}
    BY <2>3 DEF Lock, Goto, TypeOK, ControlTypeOK
  <2>4. CASE op[a] = "release"
    BY <2>4 DEF Lock, Goto, Return, TypeOK, ControlTypeOK
  <2> QED BY <1>0, <2>1, <2>2, <2>3, <2>4
<1>7. CASE pc'[a] = "idle" /\ state' = state
  <2>1. ~Inside(a) /\ ~Inside(a)' /\ ~Releases(a)' /\ ~At(a, "release", "ipc")
    BY <1>0, <1>7 DEF Inside, Releases, At
  <2> QED BY <1>1, <1>7, <2>1, OutsideStep
<1>8. CASE pc'[a] # "idle"
  <2>1. \A b \in Apps : b # a => ~Inside(b)'
    BY <1>1, <1>2 DEF NoneInside, Inside
  <2>2. Inside(a)' => InPlace(a)'
    BY <1>1, <1>4, <1>5, <1>6, <1>8 DEF Inside, InPlace, MayAsk
  <2>3. ASSUME NEW b \in Apps, Releases(b)' PROVE state' = "RELEASED"
    <3>1. CASE b = a
      BY <1>1, <1>6, <1>8, <2>3, <3>1 DEF Releases
    <3>2. CASE b # a
      <4>1. Releases(b)
        BY <1>1, <2>3, <3>2 DEF Releases
      <4> QED BY <1>6, <4>1 DEF OneAtATime, Ends
    <3> QED BY <3>1, <3>2
  <2>4. ASSUME failure' = "none"
        PROVE  /\ state' # "STOPPING"
               /\ status' = "RELEASED" => state' = "RELEASED"
               /\ state' = "RELEASED" =>
                    status' = "RELEASED" \/ \E b \in Apps : At(b, "release", "ipc")'
    <3>1. /\ status = "RELEASED" => state = "RELEASED"
          /\ state = "RELEASED" =>
               status = "RELEASED" \/ \E b \in Apps : At(b, "release", "ipc")
      BY <1>3, <2>4 DEF OneAtATime, Ends
    <3>2. \A b \in Apps : At(b, "release", "ipc") => At(b, "release", "ipc")'
      BY <1>0, <1>1 DEF At
    <3>3. CASE state' = "RELEASED" /\ state # "RELEASED"
      <4>1. At(a, "release", "ipc")'
        BY <1>1, <1>6, <3>3 DEF At
      <4> QED BY <3>3, <4>1
    <3>4. CASE state' = state
      BY <1>1, <1>4, <2>4, <3>1, <3>2, <3>4 DEF serverVars
    <3> QED BY <1>6, <3>3, <3>4
  <2>5. drained' \/ status' = "DRAINING" =>
          failure' = "refused" /\ state' \in {"STOPPING", "RELEASED"}
    BY <1>1, <1>4, <1>6 DEF serverVars
  <2>6. state' # "INVALID"
    BY <1>6 DEF OneAtATime, Ends
  <2>7. Ends'
    BY <2>3, <2>4, <2>5, <2>6 DEF Ends
  <2> QED BY <1>5, <2>1, <2>2, <2>7 DEF OneAtATime
<1> QED BY <1>6, <1>7, <1>8

\* Release asks the server.
LEMMA ReleaseOne ==
    ASSUME TypeOK, Places, Mutex, OneAtATime, [Next]_vars, failure' # "late",
           NEW a \in Apps, App(a), Release(a)
    PROVE  OneAtATime'
<1>0. op[a] = "release" /\ pc[a] = "ipc" /\ Releases(a)
  BY DEF Release, At, Releases
<1>1. /\ op' = op /\ \A b \in Apps : b # a => pc'[b] = pc[b]
      /\ UNCHANGED <<notified, state, drained, pending>> /\ pc'[a] = "join"
  BY <1>0 DEF Release, ServerRelease, Goto, TypeOK, ControlTypeOK
<1>2. state = "RELEASED" /\ Told /\ \A b \in Apps : ~Drains(b)
  BY <1>0, ReleasedIsQuiet DEF OneAtATime, Ends
<1>3. /\ failure # "late" /\ (failure' = "none" => failure = "none")
      /\ failure = "refused" => failure' = "refused"
  BY FailureStep
<1>4. Told'
  BY <1>1, <1>2 DEF Release, ServerRelease, Told, Quiet
<1>5. ASSUME NEW b \in Apps, Inside(b)' PROVE InPlace(b)' /\ notified' # "flush"
  <2>1. Inside(b) /\ b # a
    BY <1>0, <1>1, <1>5 DEF Inside
  <2>2. pc[b] \in {"wlock", "mark"} /\ InPlace(b)
    BY <1>2, <2>1, ReleasedIsQuiet DEF OneAtATime
  <2> QED BY <1>1, <1>2, <1>4, <2>1, <2>2 DEF InPlace
<1>6. NoneInside' => notified' # "flush"
  <2>1. ASSUME NoneInside' PROVE NoneInside
    BY <1>0, <1>1, <2>1 DEF NoneInside, Inside
  <2> QED BY <1>1, <2>1 DEF OneAtATime
<1>7. failure' = "none" => status' = "RELEASED"
  <2>1. status' # "RELEASED" => Refused
    BY <1>1, <1>0 DEF Refused, At
  <2> QED BY <2>1, FailureStep DEF App, Failing, Late
<1>8. drained \/ status' = "DRAINING" => failure' = "refused"
  <2>1. failure' \in {"none", "late", "refused"}
    BY TypeStep DEF TypeOK
  <2> QED BY <1>2, <1>3, <1>7, <2>1 DEF OneAtATime, Ends
<1> QED BY <1>1, <1>2, <1>4, <1>5, <1>6, <1>7, <1>8 DEF OneAtATime, Ends

\* Drains that nobody waits for.
LEMMA ToldThroughEngine ==
    ASSUME TypeOK, Told, Engine
    PROVE  /\ Told' /\ state' = state /\ notified' = notified
           /\ status' = status \/ (drained /\ status' = "STARTED")
           /\ drained' => status = "DRAINING"
<1>0. engine \in Seq(Requests) /\ pending \in Seq(Requests)
  BY DEF TypeOK, ControlTypeOK, Requests
<1>1. CASE DrainEnds
  <2>1. pending' = Append(pending, "drain") /\ engine' = engine
    BY <1>1 DEF DrainEnds
  <2> QED BY <1>0, <1>1, <2>1, QuietStep DEF DrainEnds, clientVars, Told, Quiet
<1>2. ASSUME NEW i \in 1 .. Len(engine), EngineDone(i) PROVE FALSE
  BY <1>2 DEF Told, Quiet, EngineDone
<1>3. ASSUME NEW i \in 1 .. Len(engine), EngineDrained(i)
      PROVE  /\ Told' /\ state' = state /\ notified' = notified /\ status' = status
             /\ drained' => status = "DRAINING"
  <2>1. engine' = Without(engine, i) /\ pending' = pending
    BY <1>3 DEF EngineDrained
  <2>2. Quiet(engine)' /\ Quiet(pending)'
    BY <1>0, <2>1, QuietStep DEF Told, Quiet
  <2> QED BY <1>3, <2>2 DEF EngineDrained, clientVars, Told
<1> QED BY <1>1, <1>2, <1>3 DEF Engine

\* What a call waits for, while the engine completes a request.
LEMMA WaitsThroughEngine ==
    ASSUME TypeOK, Engine, NEW r \in {"start", "pause", "stop", "flush"}, WaitsFor(r),
           drained => r = "stop"
    PROVE  /\ WaitsFor(r)' /\ state' = state /\ notified' = notified
           /\ drained' \/ status' = "DRAINING" => drained \/ status = "DRAINING"
           /\ status' = "RELEASED" => status = "RELEASED"
<1>0. /\ engine \in Seq(Requests) /\ pending \in Seq(Requests)
      /\ state' = state /\ notified' = notified
  BY DEF TypeOK, ControlTypeOK, Requests, Engine, DrainEnds, EngineDone, EngineDrained, clientVars
<1>1. CASE Told
  <2>1. /\ Told' /\ (status' = status \/ (drained /\ status' = "STARTED"))
        /\ drained' => status = "DRAINING"
    BY <1>1, ToldThroughEngine
  <2>2. ~Asked(r) /\ ~Done(r)
    BY <1>1, OnlyIsNotQuiet DEF Told, Asked, Done
  <2>3. ~drained
    BY <2>2 DEF WaitsFor
  <2> QED BY <1>0, <2>1, <2>2, <2>3 DEF WaitsFor
<1>2. CASE Done(r)
  <2>0. ~Asked(r) /\ ~Told
    BY <1>2, OnlyIsNotQuiet DEF Told, Asked, Done
  <2>1. ~drained
    BY <2>0 DEF WaitsFor
  <2>2. PICK i \in 1 .. Len(engine) : EngineDone(i) \/ EngineDrained(i)
    BY <2>1 DEF Engine, DrainEnds
  <2>3. engine[i] = "drain" /\ Quiet(Without(engine, i))
    BY <1>0, <1>2, QuietStep DEF Done
  <2>4. engine' = Without(engine, i) /\ pending' = pending /\ status' = status
        /\ drained' = (status = "DRAINING")
    BY <2>2, <2>3 DEF EngineDone, EngineDrained
  <2>5. Done(r)'
    BY <1>2, <2>3, <2>4 DEF Done, Quiet, Only
  <2> QED BY <1>0, <2>0, <2>4, <2>5 DEF WaitsFor
<1>3. CASE Asked(r)
  <2>0. ~Done(r) /\ ~Told
    BY <1>3, OnlyIsNotQuiet DEF Told, Asked, Done
  <2>1. CASE DrainEnds
    <3>1. engine' = engine /\ pending' = Append(pending, "drain") /\ status' = "STARTED" /\ ~drained'
          /\ r = "stop"
      BY <2>1 DEF DrainEnds
    <3>2. Asked(r)'
      BY <1>0, <1>3, <3>1, QuietStep DEF Asked, Only, Quiet
    <3> QED BY <1>0, <2>0, <3>1, <3>2 DEF WaitsFor
  <2>2. ASSUME NEW i \in 1 .. Len(engine), EngineDrained(i)
        PROVE  /\ WaitsFor(r)'
               /\ drained' \/ status' = "DRAINING" => drained \/ status = "DRAINING"
               /\ status' = "RELEASED" => status = "RELEASED"
    <3>1. engine' = Without(engine, i) /\ pending' = pending /\ status' = status
          /\ drained' = (status = "DRAINING") /\ engine[i] = "drain"
      BY <2>2 DEF EngineDrained
    <3>2. Only(Without(engine, i), r)
      BY <1>0, <1>3, <3>1, OnlyStep DEF Asked, Requests
    <3>3. Asked(r)'
      BY <1>3, <3>1, <3>2 DEF Asked, Quiet, Only
    <3> QED BY <1>0, <2>0, <3>1, <3>3 DEF WaitsFor
  <2>3. ASSUME NEW i \in 1 .. Len(engine), EngineDone(i)
        PROVE  /\ WaitsFor(r)'
               /\ drained' \/ status' = "DRAINING" => drained \/ status = "DRAINING"
               /\ status' = "RELEASED" => status = "RELEASED"
    <3>1. engine[i] = r /\ Quiet(Without(engine, i))
      BY <1>0, <1>3, <2>3, OnlyStep DEF Asked, EngineDone, Requests
    <3>2. engine' = Without(engine, i) /\ pending' = Append(pending, r) /\ ~drained /\ ~drained'
      BY <2>3, <3>1 DEF EngineDone, Completable
    <3>3. Only(Append(pending, r), r)
      BY <1>0, <1>3, QuietStep DEF Asked, Requests
    <3>4. Done(r)'
      BY <3>1, <3>2, <3>3 DEF Done, Quiet, Only
    <3>5. /\ r = "start" => status' = "STARTED"
          /\ r = "pause" => status' = "PAUSED"
          /\ r = "stop"  => status' = "STOPPED"
      BY <2>3, <3>1 DEF EngineDone
    <3>6. r = "flush" => status' \in {"STARTED", "PAUSED", "STOPPED"}
      <4> SUFFICES ASSUME r = "flush" PROVE status' \in {"STARTED", "PAUSED", "STOPPED"}
        OBVIOUS
      <4>1. status \in Flushing
        BY <2>0 DEF WaitsFor
      <4> QED BY <2>3, <3>1, <4>1 DEF EngineDone, Flushing
    <3>7. WaitsFor(r)'
      BY <1>0, <2>0, <3>2, <3>4, <3>5, <3>6 DEF WaitsFor, Flushing
    <3> QED BY <3>2, <3>5, <3>6, <3>7
  <2> QED BY <1>0, <2>1, <2>2, <2>3 DEF Engine, DrainEnds
<1> QED BY <1>1, <1>2, <1>3 DEF WaitsFor

\* The engine completes a request.
LEMMA EngineOne ==
    ASSUME TypeOK, Places, Mutex, OneAtATime, [Next]_vars, failure' # "late",
           Engine, UNCHANGED failure
    PROVE  OneAtATime'
<1>0. UNCHANGED clientVars
  BY DEF Engine, DrainEnds, EngineDone, EngineDrained
<1>1. drained \/ status = "DRAINING" =>
        \/ \E b \in Apps : Drains(b)
        \/ failure = "refused" /\ state \in {"STOPPING", "RELEASED"}
  BY DEF OneAtATime, Ends
<1>2. ASSUME NEW a \in Apps, Inside(a)
      PROVE  /\ InPlace(a)'
             /\ drained' \/ status' = "DRAINING" => drained \/ status = "DRAINING"
             /\ status' = "RELEASED" => status = "RELEASED"
  <2>1. op[a] \in {"start", "pause", "stop", "flush"} /\ InPlace(a)
    BY <1>2, InsideAsks DEF OneAtATime
  <2>2. PICK r \in {"start", "pause", "stop", "flush"} : op[a] = r
    BY <2>1
  <2>3. drained => Drains(a) \/ (failure = "refused" /\ state \in {"STOPPING", "RELEASED"})
    BY <1>1, <1>2, Alone
  <2>4. CASE pc[a] = "wait"
    <3>1. WaitsFor(r)
      BY <2>1, <2>2, <2>4 DEF InPlace
    <3>2. r # "stop" => state \notin {"STOPPING", "RELEASED"} /\ ~Drains(a)
      BY <2>2, <3>1 DEF WaitsFor, CanStart, CanFlush, Drains
    <3>3. drained => r = "stop"
      BY <2>3, <3>2
    <3>4. WaitsFor(r)' /\ (drained' \/ status' = "DRAINING" => drained \/ status = "DRAINING")
          /\ (status' = "RELEASED" => status = "RELEASED")
      BY <3>1, <3>3, WaitsThroughEngine
    <3>5. InPlace(a)'
      BY <1>0, <2>2, <2>4, <3>4 DEF InPlace, clientVars
    <3> QED BY <3>4, <3>5
  <2>5. CASE pc[a] # "wait"
    <3>1. Told
      BY <2>1, <2>5 DEF InPlace, MayAsk, Answer
    <3>2. /\ Told' /\ (status' = status \/ (drained /\ status' = "STARTED"))
          /\ drained' => status = "DRAINING"
      BY <3>1, ToldThroughEngine
    <3>3. CASE pc[a] = "wlock"
      BY <1>0, <2>1, <3>2, <3>3 DEF InPlace, clientVars
    <3>4. CASE pc[a] \in {"drain", "drainwait", "mark"}
      BY <1>0, <2>1, <3>2, <3>4 DEF InPlace, clientVars
    <3>5. CASE pc[a] = "ipc"
      <4>1. MayAsk(r)
        BY <2>1, <2>2, <3>5 DEF InPlace
      <4>2. failure = "none" /\ r = "stop" => status' \in {"STARTED", "DRAINING", "PAUSED"}
        BY <3>2, <4>1 DEF MayAsk
      <4>3. MayAsk(r)'
        BY <1>0, <3>2, <4>1, <4>2 DEF MayAsk, clientVars
      <4> QED BY <1>0, <2>2, <3>2, <3>5, <4>3 DEF InPlace, clientVars
    <3>6. CASE pc[a] = "wake"
      <4>1. Answer(r) /\ r # "flush"
        BY <1>2, <2>1, <2>2, <3>6 DEF InPlace, Places, Place
      <4>2. ~drained
        BY <2>3, <3>6, <4>1 DEF Drains, Answer, Gives
      <4>3. Answer(r)'
        BY <1>0, <3>2, <4>1, <4>2 DEF Answer, Achieved, clientVars
      <4> QED BY <1>0, <2>2, <3>2, <3>6, <4>3 DEF InPlace, clientVars
    <3> QED BY <2>1, <2>5, <3>2, <3>3, <3>4, <3>5, <3>6 DEF InPlace
  <2> QED BY <2>4, <2>5
<1>3. ASSUME NoneInside
      PROVE  /\ Told' /\ notified' # "flush"
             /\ drained' \/ status' = "DRAINING" => drained \/ status = "DRAINING"
             /\ status' = "RELEASED" => status = "RELEASED"
  <2>1. Told /\ notified # "flush"
    BY <1>3 DEF OneAtATime
  <2> QED BY <2>1, ToldThroughEngine
<1>4. /\ drained' \/ status' = "DRAINING" => drained \/ status = "DRAINING"
      /\ status' = "RELEASED" => status = "RELEASED"
  BY <1>2, <1>3 DEF NoneInside
<1>5. failure = "none" /\ state = "RELEASED" => status' = status
  <2> SUFFICES ASSUME failure = "none", state = "RELEASED" PROVE status' = status
    OBVIOUS
  <2>1. Told /\ \A b \in Apps : ~Drains(b)
    BY ReleasedIsQuiet
  <2>2. ~drained
    BY <1>1, <2>1
  <2> QED BY <2>1, <2>2, ToldThroughEngine
<1>6. Ends'
  <2>1. \A b \in Apps : (Drains(b)' <=> Drains(b)) /\ (Releases(b)' <=> Releases(b))
                        /\ (At(b, "release", "ipc")' <=> At(b, "release", "ipc"))
    BY <1>0 DEF clientVars, Drains, Releases, At
  <2>2. state' = state /\ failure' = failure /\ pc' = pc /\ op' = op
    BY <1>0 DEF clientVars
  <2>3. Ends
    BY DEF OneAtATime
  <2>4. /\ state' # "INVALID" /\ \A b \in Apps : Releases(b)' => state' = "RELEASED"
        /\ drained' \/ status' = "DRAINING" =>
             \/ \E b \in Apps : Drains(b)'
             \/ failure' = "refused" /\ state' \in {"STOPPING", "RELEASED"}
    BY <1>4, <2>1, <2>2, <2>3 DEF Ends
  <2>5. ASSUME failure' = "none"
        PROVE  /\ state' = "STOPPING" =>
                    \E b \in Apps : (op[b] = "stop" /\ pc[b] \in {"ipc", "wait"})'
               /\ status' = "RELEASED" => state' = "RELEASED"
               /\ state' = "RELEASED" =>
                    status' = "RELEASED" \/ \E b \in Apps : At(b, "release", "ipc")'
    BY <1>4, <1>5, <2>1, <2>2, <2>3, <2>5 DEF Ends
  <2> QED BY <2>4, <2>5 DEF Ends
<1>7. \A b \in Apps : Inside(b)' <=> Inside(b)
  BY <1>0 DEF clientVars, Inside
<1> QED BY <1>2, <1>3, <1>6, <1>7 DEF OneAtATime, NoneInside

\* A notification arrives.
LEMMA HandledOne ==
    ASSUME TypeOK, Places, Mutex, OneAtATime, [Next]_vars, failure' # "late",
           OnOperationHandled, UNCHANGED failure
    PROVE  OneAtATime'
<1>0. /\ UNCHANGED <<statusMutex, writeMutex, pc, op, ops, status, drained, engine>>
      /\ pending # <<>> /\ pending \in Seq(Requests)
      /\ pending' = Tail(pending) /\ notified' = Head(pending)
  BY DEF OnOperationHandled, TypeOK, ControlTypeOK, Requests
<1>1. Quiet(pending) =>
        /\ Quiet(pending)' /\ notified' = "drain" /\ state' = state
  BY <1>0, QuietStep DEF OnOperationHandled, Quiet
<1>2. Told => Told' /\ notified' = "drain" /\ state' = state
  BY <1>0, <1>1 DEF Told, Quiet
<1>3. ASSUME NEW a \in Apps, Inside(a)
      PROVE  /\ InPlace(a)'
             /\ \/ state' = state
                \/ /\ state' \in {"RUNNING", "PAUSED", "STOPPED"} /\ pc[a] = "wait"
                   /\ state # "RELEASED" /\ (op[a] = "stop" \/ state # "STOPPING")
  <2>1. op[a] \in {"start", "pause", "stop", "flush"} /\ InPlace(a)
    BY <1>3, InsideAsks DEF OneAtATime
  <2>2. PICK r \in {"start", "pause", "stop", "flush"} : op[a] = r
    BY <2>1
  <2>3. CASE pc[a] = "wait"
    <3>1. WaitsFor(r)
      BY <2>1, <2>2, <2>3 DEF InPlace
    <3>2. CASE Told
      <4>1. ~Asked(r) /\ ~Done(r)
        BY <3>2, OnlyIsNotQuiet DEF Told, Asked, Done
      <4>2. WaitsFor(r)'
        BY <1>0, <1>2, <3>1, <3>2, <4>1 DEF WaitsFor
      <4> QED BY <1>0, <1>2, <2>2, <2>3, <3>2, <4>2 DEF InPlace
    <3>3. CASE Asked(r)
      <4>1. ~Told /\ ~Done(r)
        BY <3>3, OnlyIsNotQuiet DEF Told, Asked, Done
      <4>2. Asked(r)' /\ notified' = "drain" /\ state' = state
        BY <1>0, <1>1, <3>3 DEF Asked, Only
      <4>3. WaitsFor(r)'
        BY <1>0, <3>1, <4>1, <4>2 DEF WaitsFor
      <4> QED BY <1>0, <2>2, <2>3, <4>2, <4>3 DEF InPlace
    <3>4. CASE Done(r)
      <4>1. ~Told /\ ~Asked(r)
        BY <3>4, OnlyIsNotQuiet DEF Told, Asked, Done
      <4>2. CASE Head(pending) = "drain"
        <5>1. Only(Tail(pending), r)
          BY <1>0, <3>4, <4>2, OnlyStep DEF Done, Requests
        <5>2. Done(r)' /\ notified' = "drain" /\ state' = state
          BY <1>0, <3>4, <4>2, <5>1 DEF Done, Quiet, Only, OnOperationHandled
        <5>3. WaitsFor(r)'
          BY <1>0, <3>1, <4>1, <5>2 DEF WaitsFor
        <5> QED BY <1>0, <2>2, <2>3, <5>2, <5>3 DEF InPlace
      <4>3. CASE Head(pending) # "drain"
        <5>1. Head(pending) = r /\ Quiet(Tail(pending))
          BY <1>0, <3>4, <4>3, OnlyStep DEF Done, Requests
        <5>2. Told' /\ notified' = r
          BY <1>0, <3>4, <5>1 DEF Done, Told, Quiet
        <5>3. /\ r = "start" => state' = "RUNNING"
              /\ r = "pause" => state' = "PAUSED"
              /\ r = "stop"  => state' = "STOPPED"
              /\ r = "flush" => state' = state
          BY <5>1 DEF OnOperationHandled
        <5>4. WaitsFor(r)'
          BY <1>0, <3>1, <4>1, <5>2, <5>3 DEF WaitsFor
        <5>5. state # "RELEASED" /\ (r = "stop" \/ state # "STOPPING")
          BY <3>1, <4>1 DEF WaitsFor, CanStart, CanFlush
        <5> QED BY <1>0, <2>2, <2>3, <5>3, <5>4, <5>5 DEF InPlace
      <4> QED BY <4>2, <4>3
    <3> QED BY <3>1, <3>2, <3>3, <3>4 DEF WaitsFor
  <2>4. CASE pc[a] # "wait"
    <3>1. Told
      BY <2>1, <2>4 DEF InPlace, MayAsk, Answer
    <3>2. MayAsk(r) => MayAsk(r)'
      BY <1>0, <1>2, <3>1 DEF MayAsk
    <3>3. Answer(r) => Answer(r)'
      BY <1>0, <1>2, <3>1 DEF Answer, Achieved
    <3>4. InPlace(a)'
      BY <1>0, <1>2, <2>1, <2>2, <2>4, <3>1, <3>2, <3>3 DEF InPlace
    <3> QED BY <1>2, <3>1, <3>4
  <2> QED BY <2>3, <2>4
<1>4. NoneInside => Told' /\ notified' # "flush" /\ state' = state
  BY <1>2 DEF OneAtATime
<1>5. \A b \in Apps : Inside(b)' <=> Inside(b)
  BY <1>0 DEF Inside
<1>6. CASE state' = state
  <2>1. \A b \in Apps : (Drains(b)' <=> Drains(b)) /\ (Releases(b)' <=> Releases(b))
                        /\ (At(b, "release", "ipc")' <=> At(b, "release", "ipc"))
    BY <1>0, <1>6 DEF Drains, Releases, At
  <2>2. Ends'
    BY <1>0, <1>6, <2>1 DEF OneAtATime, Ends
  <2> QED BY <1>3, <1>4, <1>5, <2>2 DEF OneAtATime, NoneInside
<1>7. CASE state' # state
  <2>1. PICK a \in Apps : Inside(a)
    BY <1>4, <1>7 DEF NoneInside
  <2>2. /\ state' \in {"RUNNING", "PAUSED", "STOPPED"} /\ pc[a] = "wait" /\ state # "RELEASED"
        /\ op[a] = "stop" \/ state # "STOPPING"
    BY <1>3, <1>7, <2>1
  <2>3. \A b \in Apps : b # a => ~Drains(b)
    BY <2>1, Alone
  <2>4. Ends
    BY DEF OneAtATime
  <2>5. \A b \in Apps : ~Releases(b)'
    BY <1>0, <2>2, <2>4 DEF Ends, Releases
  <2>6. Drains(a)' <=> op[a] = "stop"
    BY <1>0, <2>2 DEF Drains
  <2>7. drained \/ status = "DRAINING" => op[a] = "stop"
    BY <2>2, <2>3, <2>4 DEF Ends, Drains
  <2>8. failure = "none" => status # "RELEASED"
    BY <2>2, <2>4 DEF Ends
  <2>9. Ends'
    BY <1>0, <2>2, <2>5, <2>6, <2>7, <2>8 DEF Ends
  <2> QED BY <1>3, <1>4, <1>5, <2>9 DEF OneAtATime, NoneInside
<1> QED BY <1>6, <1>7

-----------------------------------------------------------------------------
\* Every step keeps the requests one at a time.
LEMMA OneStep ==
    ASSUME TypeOK, Places, Mutex, OneAtATime, [Next]_vars, failure' # "late",
           failure # "refused" => StatusTold /\ StatusPasses
    PROVE  OneAtATime'
<1>1. CASE UNCHANGED vars
  <2>1. UNCHANGED <<state, notified, pc, op, status, drained, engine, pending, failure>>
    BY <1>1 DEF vars, controlVars, clientVars, serverVars
  <2>2. Told' <=> Told
    BY <2>1 DEF Told, Quiet
  <2>3. ASSUME NEW b \in Apps, Inside(b)' PROVE InPlace(b)'
    <3>1. Inside(b) /\ InPlace(b)
      BY <2>1, <2>3 DEF OneAtATime, Inside
    <3>2. PICK r : op[b] = r
      OBVIOUS
    <3>3. (Asked(r)' <=> Asked(r)) /\ (Done(r)' <=> Done(r))
      BY <2>1 DEF Asked, Done, Only, Quiet
    <3>4. WaitsFor(r) => WaitsFor(r)'
      BY <2>1, <2>2, <3>3, Zenon DEF WaitsFor
    <3>5. /\ MayAsk(r) => MayAsk(r)'
          /\ Answer(r) => Answer(r)'
      BY <2>1, <2>2 DEF MayAsk, Answer, Achieved
    <3> QED BY <2>1, <2>2, <3>1, <3>2, <3>4, <3>5 DEF InPlace
  <2>4. NoneInside' => Told' /\ notified' # "flush"
    BY <2>1, <2>2 DEF OneAtATime, NoneInside, Inside
  <2>5. Ends'
    BY <2>1 DEF OneAtATime, Ends, Drains, Releases, At
  <2> QED BY <2>3, <2>4, <2>5 DEF OneAtATime
<1>2. ASSUME NEW a \in Apps, App(a) PROVE OneAtATime'
  <2>1. ~TimeOut(a)
    BY <1>2, FailureStep
  <2>2. ~Undo(a)
    BY DEF Undo, OneAtATime, Inside, InPlace, Places, Place
  <2> QED
    BY <1>2, <2>1, <2>2, LockOne, LockWriteOne, DrainOne, DrainWaitOne, MarkOne, AskOne,
       AnsweredOne, ReleaseOne, JoinOne DEF App, CallStep
<1> QED BY <1>1, <1>2, EngineOne, HandledOne, CallOne DEF Next

\* The initial states tell the story.
LEMMA StoryStart == Init => TypeOK /\ Story
<1> SUFFICES ASSUME Init PROVE TypeOK /\ Story
  OBVIOUS
<1> USE DEF Init, ControlInit
<1>1. TypeOK
  <2>1. <<>> \in Seq({"start", "pause", "flush", "drain", "stop"}) /\ 0 \in 0 .. MaxOps
    OBVIOUS
  <2>2. pc \in [Apps -> CallPcs] /\ op \in [Apps -> Ops \cup {"none"}]
    BY DEF CallPcs
  <2> QED BY <2>1, <2>2, Zenon DEF TypeOK, ControlTypeOK
<1>2. Places /\ Mutex /\ NoneInside
  BY DEF Places, Place, Mutex, Inside, NoneInside
<1>3. Told
  BY DEF Told, Quiet
<1>4. StatusTold /\ StatusPasses
  BY DEF StatusTold, StatusPasses, WillBe, Flushing
<1>5. OneAtATime
  BY <1>2, <1>3 DEF OneAtATime, NoneInside, Ends, Releases
<1> QED BY <1>1, <1>2, <1>4, <1>5 DEF Story

\* Every step goes on with it.
LEMMA StoryStep == TypeOK /\ Story /\ [Next]_vars => (TypeOK /\ Story)'
<1> SUFFICES ASSUME TypeOK, Story, [Next]_vars PROVE TypeOK' /\ Story'
  OBVIOUS
<1>1. TypeOK' /\ Places' /\ Mutex'
  BY TypeStep, PlacesStep DEF Story
<1>2. failure' # "refused" => (StatusTold /\ StatusPasses)'
  BY StatusStep DEF Story
<1>3. failure' # "late" => OneAtATime'
  BY FailureStep, OneStep DEF Story
<1> QED BY <1>1, <1>2, <1>3 DEF Story

(* For any threads, calls, limits and refusals, Story is an invariant.      *)
THEOREM StoryHolds == Spec => [](TypeOK /\ Story)
<1>1. Init => TypeOK /\ Story
  BY StoryStart
<1>2. TypeOK /\ Story /\ [Next]_vars => (TypeOK /\ Story)'
  BY StoryStep
<1> QED BY <1>1, <1>2, PTL DEF Spec

\* And by it the two sides agree.
LEMMA StoryAgrees == TypeOK /\ Story => SidesAgree
<1> SUFFICES ASSUME TypeOK, Story, AtRest PROVE SidesAgree
  BY DEF SidesAgree
<1>1. \A r : ~Holds(engine, r)
  BY DEF AtRest, Holds
<1>2. \A s : WillBe(s) => state \in {s} \cup OwnStates
  BY DEF AtRest, WillBe
<1>3. ASSUME failure # "refused", state \in DOMAIN Counterpart,
             failure = "late" => "RELEASED" \notin {state, status}
      PROVE  status = Counterpart[state]
  <2>1. status \in {"IDLE", "STARTED", "PAUSED", "STOPPED", "RELEASED"}
    BY <1>1, <1>3 DEF Story, StatusPasses, TypeOK, ControlTypeOK, AtRest
  <2>2. state \in {"PREPARED", "RUNNING", "PAUSED", "STOPPED", "RELEASED"}
    BY <1>3 DEF Counterpart
  <2>3. status = "RELEASED" <=> state = "RELEASED"
    <3>1. CASE failure = "late"
      BY <1>3, <3>1
    <3>2. CASE failure = "none"
      BY <3>2 DEF Story, OneAtATime, Ends, AtRest, At
    <3> QED BY <1>3, <3>1, <3>2 DEF TypeOK
  <2>4. StatusTold
    BY <1>3 DEF Story
  <2> QED BY <1>2, <2>1, <2>2, <2>3, <2>4 DEF StatusTold, OwnStates, Counterpart
<1>4. ASSUME failure = "none" PROVE state \notin {"STOPPING", "INVALID"}
  BY <1>4 DEF Story, OneAtATime, Ends, AtRest
<1> QED BY <1>3, <1>4 DEF SidesAgree

(* Client, server and engine keep their types.                              *)
THEOREM TypeCorrect == Spec => []TypeOK
BY StoryHolds, PTL

(* At rest, state_ of the client and status_ of the server agree, whatever  *)
(* answers came late, if nothing was refused; and without a failure no      *)
(* call leaves the stream where only Release leads out.                     *)
THEOREM SidesAlwaysAgree == Spec => []SidesAgree
BY StoryHolds, StoryAgrees, PTL

(* A Start, Pause, Stop or Flush that returns success has had its effect in *)
(* the server, if no earlier answer came late.                              *)
THEOREM SuccessIsAlwaysReal == Spec => SuccessIsReal
<1>1. ASSUME TypeOK, Story, NEW a \in Apps, failure # "late", Succeeds(a)
      PROVE  Achieved(op[a])
  <2>1. OneAtATime /\ Places
    BY <1>1 DEF Story
  <2>2. CASE op[a] = "flush" /\ FlushAnswered(a)
    <3>1. WaitsFor("flush") /\ notified = "flush"
      BY <2>1, <2>2 DEF FlushAnswered, At, Answered, OneAtATime, Inside, InPlace
    <3> QED BY <2>2, <3>1 DEF WaitsFor, Achieved
  <2>3. CASE op[a] \in {"start", "pause", "stop"} /\ Wake(a)
    <3>1. Answer(op[a])
      BY <2>1, <2>3 DEF Wake, OneAtATime, Inside, InPlace
    <3> QED BY <3>1 DEF Answer
  <2> QED BY <1>1, <2>2, <2>3 DEF Succeeds
<1>2. TypeOK /\ Story => [\A a \in Apps : failure # "late" /\ Succeeds(a) => Achieved(op[a])]_vars
  BY <1>1
<1> QED BY <1>2, StoryHolds, PTL DEF SuccessIsReal

-----------------------------------------------------------------------------
(* No wake-up of a futex is lost.  NoLostWake speaks only of a waiter that  *)
(* is asleep.  Its strengthening covers the moment before the system call   *)
(* as well: a waiter that is about to sleep on a NOT_READY word, or does,   *)
(* while its condition holds, has a waker in front of the word; and one     *)
(* that sleeps on any other word has a waker in front of the kernel.        *)
USE TryCountAssumption DEF TryCountAssumption

ToldBeforeSleep ==
    fpc \in {"sys", "asleep"} /\ ready /\ futexObj = "NOT_READY" =>
        BeforeCas # {}

WokenIfChanged == fpc = "asleep" /\ futexObj # "NOT_READY" => BeforeCall # {}

SignalInv == SignalTypeOK /\ ToldBeforeSleep /\ WokenIfChanged

(* The type bounds the tries by WAIT_TRY_COUNT, which is inductive only with *)
(* the reason: FutexWait goes round again only while there are some left.    *)
TriesLeft == fpc # "idle" => tries < TryCount

(* The word, the waiter's place and the wakers' places keep their types,    *)
(* and FutexWait never tries more than WAIT_TRY_COUNT times.                *)
THEOREM SignalTypeCorrect == SignalSpec => []SignalTypeOK
<1>1. SignalInit => SignalTypeOK /\ TriesLeft
  <2>1. 0 \in 0 .. TryCount
    OBVIOUS
  <2>2. SignalInit => SignalTypeOK
    BY <2>1, Zenon DEF SignalInit, FutexInit, SignalTypeOK, FutexTypeOK,
         FutexWords, WaitPcs, WaitResults, WakePcs
  <2> QED
    BY <2>2 DEF SignalInit, FutexInit, TriesLeft
<1>2. SignalTypeOK /\ TriesLeft /\ [SignalNext]_signalVars => (SignalTypeOK /\ TriesLeft)'
  <2> SUFFICES ASSUME SignalTypeOK, TriesLeft, [SignalNext]_signalVars
               PROVE  SignalTypeOK' /\ TriesLeft'
    OBVIOUS
  <2> USE DEF SignalTypeOK, FutexTypeOK, FutexWords, WaitPcs,
       WaitResults, WakePcs
  <2>1. CASE Waiter
    <3>1. tries' \in 0 .. TryCount /\ TriesLeft'
      BY <2>1 DEF Waiter, Wait, WaitBegin, Cas, WaitCas,
           Check, WaitCheck, Sleep, WaitSys, Recheck,
           WaitRecheck, Expire, WaitExpire, Interrupt, WaitInterrupted, Consume,
           WaitReturn, futexVars, TriesLeft
    <3>2. CASE Wait
      BY <3>1, <3>2, Zenon DEF Wait, WaitBegin
    <3>3. CASE Cas
      BY <3>1, <3>3 DEF Cas, WaitCas, WaitReturn
    <3>4. CASE Check
      BY <3>1, <3>4 DEF Check, WaitCheck, WaitReturn
    <3>5. CASE Sleep
      BY <3>1, <3>5 DEF Sleep, WaitSys
    <3>6. CASE Recheck
      BY <3>1, <3>6, Zenon DEF Recheck, WaitRecheck, WaitReturn
    <3>7. CASE Expire
      BY <3>1, <3>7 DEF Expire, WaitExpire
    <3>8. CASE Consume
      BY <3>1, <3>8 DEF Consume, futexVars
    <3>9. CASE Interrupt
      BY <3>1, <3>9 DEF Interrupt, WaitInterrupted
    <3> QED
      BY <2>1, <3>2, <3>3, <3>4, <3>5, <3>6, <3>7, <3>8, <3>9 DEF Waiter
  <2>2. ASSUME NEW w \in Wakers, MakeReady(w) PROVE SignalTypeOK' /\ TriesLeft'
    BY <2>2 DEF MakeReady, futexVars, TriesLeft
  <2>3. ASSUME NEW w \in Wakers, CallWake(w) PROVE SignalTypeOK' /\ TriesLeft'
    BY <2>3 DEF CallWake, WakeCall, WakeCallExit, WakeGoto,
         TriesLeft
  <2>4. ASSUME NEW w \in Wakers, WakerStep(w) PROVE SignalTypeOK' /\ TriesLeft'
    BY <2>4 DEF WakerStep, WakeStep, WakeCas, WakeExit,
         WakeSys, WakeGoto, TriesLeft
  <2>5. CASE UNCHANGED signalVars
    BY <2>5 DEF signalVars, futexVars, TriesLeft
  <2> QED
    BY <2>1, <2>2, <2>3, <2>4, <2>5 DEF SignalNext, Waker
<1> QED
  BY <1>1, <1>2, PTL DEF SignalSpec

\* The strengthening of NoLostWake is inductive.
LEMMA SignalStep ==
    ASSUME SignalInv, SignalTypeOK', [SignalNext]_signalVars
    PROVE  ToldBeforeSleep' /\ WokenIfChanged'
<1> USE DEF SignalInv, SignalTypeOK, FutexTypeOK, ToldBeforeSleep, WokenIfChanged
<1>1. CASE Waiter
  <2>1. UNCHANGED <<wpc, told>>
    BY <1>1 DEF Waiter, Wait, Cas, Check, Sleep,
         Recheck, Expire, Interrupt, Consume, WaitBegin, WaitCas,
         WaitCheck, WaitSys, WaitRecheck, WaitExpire, WaitInterrupted,
         futexVars
  <2>2. BeforeCas' = BeforeCas /\ BeforeCall' = BeforeCall
    BY <2>1 DEF BeforeCas, BeforeCall
  <2>3. CASE Wait
    BY <2>2, <2>3 DEF Wait, WaitBegin
  <2>4. CASE Cas
    BY <2>2, <2>4 DEF Cas, WaitCas, WaitReturn
  <2>5. CASE Check
    BY <2>2, <2>5 DEF Check, WaitCheck, WaitReturn
  <2>6. CASE Sleep
    BY <2>2, <2>6 DEF Sleep, WaitSys
  <2>7. CASE Recheck
    BY <2>2, <2>7 DEF Recheck, WaitRecheck, WaitReturn
  <2>8. CASE Expire
    BY <2>2, <2>8 DEF Expire, WaitExpire
  <2>9. CASE Consume
    BY <2>2, <2>9 DEF Consume, futexVars
  <2>10. CASE Interrupt
    BY <2>2, <2>10 DEF Interrupt, WaitInterrupted
  <2> QED
    BY <1>1, <2>3, <2>4, <2>5, <2>6, <2>7, <2>8, <2>9, <2>10 DEF Waiter
<1>2. ASSUME NEW w \in Wakers, MakeReady(w)
      PROVE  ToldBeforeSleep' /\ WokenIfChanged'
  <2>1. w \in BeforeCas' /\ BeforeCall' = BeforeCall
    BY <1>2 DEF MakeReady, BeforeCas, BeforeCall, futexVars
  <2> QED
    BY <2>1, <1>2 DEF MakeReady, futexVars
<1>3. ASSUME NEW w \in Wakers, CallWake(w)
      PROVE  ToldBeforeSleep' /\ WokenIfChanged'
  <2>1. w \in BeforeCas'
    BY <1>3 DEF CallWake, WakeCall, WakeCallExit, WakeGoto,
         BeforeCas
  <2>2. BeforeCall \subseteq BeforeCall'
    BY <1>3 DEF CallWake, WakeCall, WakeCallExit, WakeGoto,
         BeforeCall
  <2> QED
    BY <2>1, <2>2, <1>3 DEF CallWake
<1>4. ASSUME NEW w \in Wakers, WakeCas(w), UNCHANGED <<ready, told>>
      PROVE  ToldBeforeSleep' /\ WokenIfChanged'
  <2>1. CASE futexObj = "NOT_READY"
    <3>1. futexObj' = "READY" /\ fpc' = fpc /\ w \in BeforeCall'
      BY <1>4, <2>1 DEF WakeCas, WakeGoto, BeforeCall
    <3> QED
      BY <3>1
  <2>2. CASE futexObj # "NOT_READY"
    <3>1. futexObj' = futexObj /\ fpc' = fpc /\ BeforeCall \subseteq BeforeCall'
      BY <1>4, <2>2 DEF WakeCas, WakeGoto, BeforeCall
    <3> QED
      BY <2>2, <3>1
  <2> QED
    BY <2>1, <2>2
<1>5. ASSUME NEW w \in Wakers, WakeExit(w), UNCHANGED <<ready, told>>
      PROVE  ToldBeforeSleep' /\ WokenIfChanged'
  <2>1. futexObj' = "PRE_EXIT" /\ w \in BeforeCall'
    BY <1>5 DEF WakeExit, WakeGoto, BeforeCall
  <2> QED
    BY <2>1
<1>6. ASSUME NEW w \in Wakers, WakeSys(w), UNCHANGED <<ready, told>>
      PROVE  ToldBeforeSleep' /\ WokenIfChanged'
  <2>1. fpc' # "asleep" /\ futexObj' = futexObj /\ BeforeCas \subseteq BeforeCas'
    BY <1>6 DEF WakeSys, WakeGoto, BeforeCas
  <2>2. fpc' = "sys" => fpc = "sys"
    BY <1>6 DEF WakeSys
  <2> QED
    BY <2>1, <2>2, <1>6
<1>7. CASE UNCHANGED signalVars
  <2>1. BeforeCas' = BeforeCas /\ BeforeCall' = BeforeCall
    BY <1>7 DEF signalVars, futexVars, BeforeCas, BeforeCall
  <2> QED
    BY <1>7, <2>1 DEF signalVars, futexVars
<1> QED
  BY <1>1, <1>2, <1>3, <1>4, <1>5, <1>6, <1>7 DEF SignalNext, Waker,
       WakerStep, WakeStep

(* A waiter that sleeps although its condition holds has a waker on the     *)
(* way that will find it: no interleaving of FutexWait with any number of   *)
(* FutexWakes leaves it to its time-out.                                    *)
THEOREM NoWakeUpIsLost == SignalSpec => []NoLostWake
<1>1. SignalInit => ToldBeforeSleep /\ WokenIfChanged
  BY DEF SignalInit, FutexInit, ToldBeforeSleep, WokenIfChanged
<1>2. SignalInv /\ SignalTypeOK' /\ [SignalNext]_signalVars =>
        ToldBeforeSleep' /\ WokenIfChanged'
  BY SignalStep
<1>3. SignalInv => NoLostWake
  BY DEF SignalInv, SignalTypeOK, FutexTypeOK, FutexWords, ToldBeforeSleep,
       WokenIfChanged, NoLostWake
<1> QED
  BY SignalTypeCorrect, <1>1, <1>2, <1>3, PTL DEF SignalSpec, SignalInv

-----------------------------------------------------------------------------
(* Where the calls are, and what they hold.                                 *)

DataPlace(o, l) ==
    \/ l = "idle"
    \/ l = "lock" /\ o \in {"start", "pause", "stop", "flush", "release"}
    \/ o = "start"   /\ l \in {"ipc", "wait", "undo", "wake"}
    \/ o = "pause"   /\ l \in {"ipc", "wait", "wake", "woken"}
    \/ o = "stop"    /\ l \in {"wlock", "drain", "drainwait", "mark", "ipc", "wait", "wake",
                               "woken"}
    \/ o = "flush"   /\ l \in {"wlock", "ipc", "wait"}
    \/ o = "release" /\ l \in {"ipc", "join", "preexit", "joining"}

DataPlaces == \A a \in Apps : DataPlace(op[a], pc[a])

HasStatus(o, l) == o # "release" /\ l \notin {"idle", "lock"}
HasWrite(o, l)  == o \in {"stop", "flush"} /\ l \notin {"idle", "lock", "wlock"}

InWrite == lpc \in {"write", "writing", "region"}

Holders ==
    /\ \A a \in Apps : /\ HasStatus(op[a], pc[a]) => statusMutex = a
                       /\ HasWrite(op[a], pc[a]) => writeMutex = a
    /\ lpc = "block" => statusMutex = Loop
    /\ InWrite => writeMutex = Loop

(* The control half of the types.                                           *)
ControlTypes ==
    /\ ControlTypeOK
    /\ statusMutex \in Apps \cup {Free, Loop}
    /\ writeMutex \in Apps \cup {Free, Loop}

Control == ControlTypes /\ DataPlaces /\ Holders

(* What the step of a call does: it goes on to l, takes or gives up a lock, *)
(* may ask the server, and may set the client's state.                      *)
CallMove(a, l) ==
    /\ pc' = [pc EXCEPT ![a] = l] /\ l \in CallPcs /\ l # "lock" /\ pc[a] # "idle"
    /\ DataPlace(op[a], l)
    /\ statusMutex' = statusMutex \/ (statusMutex \in {a, Free} /\ statusMutex' \in {a, Free})
    /\ HasStatus(op[a], l) => statusMutex' = a
    /\ writeMutex' = writeMutex \/ (writeMutex \in {a, Free} /\ writeMutex' \in {a, Free})
    /\ HasWrite(op[a], l) => writeMutex' = a
    /\ UNCHANGED <<op, ops, pending, drained>>
    /\ state' \in {state} \cup OwnStates
    /\ notified' \in {notified, "none"}
    /\ status' \in Statuses

(* What becomes of the requests the engine has.                             *)
EngineMove(a, l) ==
    \/ engine' \in {engine, <<>>}
    \/ \E r \in Requests \ {"start"} : engine' = Append(engine, r)
    \/ op[a] = "start" /\ pc[a] = "ipc" /\ l = "wait" /\ engine' = Append(engine, "start")

StartMove(a, l) ==
    op[a] = "start" /\ l = "ipc" => pc[a] = "lock"

AppMove(a, l) == CallMove(a, l) /\ EngineMove(a, l) /\ StartMove(a, l)

\* What ServerAccepts and ServerRefuses change.
LEMMA ServerMoves ==
    ASSUME ControlTypeOK, NEW r \in Requests, ServerAccepts(r) \/ ServerRefuses(r)
    PROVE  /\ status' \in Statuses
           /\ UNCHANGED <<drained, pending>>
           /\ engine' = engine \/ engine' = Append(engine, r)
<1>0. status \in Statuses /\ engine \in Seq(Requests)
  BY DEF ControlTypeOK, Statuses, Requests
<1>1. status \in Legal(r) => Entered(r) \in Statuses
  BY <1>0 DEF Legal, Entered, Statuses, Flushing, Requests
<1> QED BY <1>0, <1>1 DEF ServerAccepts, ServerRefuses

\* What the first step of a call does.
LEMMA DataLockIs ==
    ASSUME ControlTypes, DataPlaces, NEW a \in Apps, Lock(a)
    PROVE  /\ pc[a] = "lock" /\ statusMutex = Free /\ op' = op
           /\ writeMutex' \in {writeMutex, Free} /\ (writeMutex' # writeMutex => writeMutex = a)
           /\ state' \in {state, "RELEASED"}
           /\ UNCHANGED <<notified, ops, status, drained, engine, pending>>
           /\ \/ Locked(a, "idle", Free) /\ state' = state
              \/ op[a] = "release" /\ Locked(a, "ipc", Free) /\ writeMutex' = writeMutex
                   /\ state' = "RELEASED"
              \/ op[a] = "start" /\ Locked(a, "ipc", a) /\ state \in {"PREPARED", "STOPPED", "PAUSED"}
                   /\ writeMutex' = writeMutex /\ state' = state
              \/ op[a] = "pause" /\ Locked(a, "ipc", a) /\ state = "RUNNING"
                   /\ writeMutex' = writeMutex /\ state' = state
              \/ op[a] \in {"stop", "flush"} /\ Locked(a, "wlock", a)
                   /\ writeMutex' = writeMutex /\ state' = state
<1> USE DEF Lock, Goto, Return, Stay, serverVars, Locked
<1>1. pc[a] = "lock" /\ statusMutex = Free
  BY Zenon
<1>2. op[a] \in {"start", "pause", "stop", "flush", "release"}
  BY <1>1 DEF DataPlaces, DataPlace
<1>3. op' = op /\ UNCHANGED <<notified, ops, status, drained, engine, pending>>
  BY Zenon
<1>4. CASE op[a] = "start"
  BY <1>1, <1>3, <1>4
<1>5. CASE op[a] = "pause"
  BY <1>1, <1>3, <1>5
<1>6. CASE op[a] \in {"stop", "flush"}
  BY <1>1, <1>3, <1>6
<1>7. CASE op[a] = "release"
  BY <1>1, <1>3, <1>7
<1> QED BY <1>2, <1>4, <1>5, <1>6, <1>7

LEMMA CallMoves ==
    ASSUME Control, NEW a \in Apps, CallStep(a)
    PROVE  \E l \in CallPcs : AppMove(a, l)
<1>0. /\ pc \in [Apps -> CallPcs] /\ pc[a] \in CallPcs /\ DataPlace(op[a], pc[a])
      /\ HasStatus(op[a], pc[a]) => statusMutex = a
      /\ HasWrite(op[a], pc[a]) => writeMutex = a
      /\ status \in Statuses /\ ControlTypeOK
  BY DEF Control, ControlTypes, ControlTypeOK, DataPlaces, Holders, Statuses
<1> USE DEF AppMove, CallMove, EngineMove, StartMove, OwnStates
<1>1. CASE Lock(a)
  <2>1. ControlTypes /\ DataPlaces
    BY DEF Control
  <2>2. "idle" \in CallPcs /\ "ipc" \in CallPcs /\ "wlock" \in CallPcs
    BY DEF CallPcs
  <2> QED BY <1>0, <1>1, <2>1, <2>2, DataLockIs DEF Locked, DataPlace, HasStatus, HasWrite
<1>2. CASE LockWrite(a)
  <2>1. pc[a] = "wlock" /\ op[a] \in {"stop", "flush"} /\ statusMutex = a /\ writeMutex = Free
    BY <1>0, <1>2 DEF LockWrite, DataPlace, HasStatus
  <2>2. /\ state' = state /\ UNCHANGED <<notified, op, ops, status, drained, engine, pending>>
        /\ \/ Goto(a, "idle") /\ statusMutex' = Free /\ writeMutex' = Free
           \/ op[a] = "flush" /\ Goto(a, "ipc") /\ statusMutex' = statusMutex /\ writeMutex' = a
           \/ \E l \in {"drain", "mark"} :
                op[a] = "stop" /\ Goto(a, l) /\ statusMutex' = statusMutex /\ writeMutex' = a
    BY <1>2, <2>1 DEF LockWrite, Return, serverVars
  <2>3. {"idle", "ipc", "drain", "mark"} \subseteq CallPcs
    BY DEF CallPcs
  <2> QED BY <1>0, <2>1, <2>2, <2>3 DEF Goto, DataPlace, HasStatus, HasWrite
<1>3. CASE Drain(a)
  <2>1. pc[a] = "drain" /\ op[a] = "stop" /\ statusMutex = a /\ writeMutex = a
    BY <1>0, <1>3 DEF Drain, DataPlace, HasStatus, HasWrite
  <2>2. /\ status' \in Statuses /\ UNCHANGED <<drained, pending>>
        /\ engine' = engine \/ engine' = Append(engine, "drain")
    BY <1>0, <1>3, ServerMoves DEF Drain, Requests
  <2>3. "drain" \in Requests \ {"start"}
    BY DEF Requests
  <2>4. \E l \in {"drainwait", "mark"} : Goto(a, l) /\ UNCHANGED <<statusMutex, writeMutex, state, notified, op, ops>>
    BY <1>3 DEF Drain, Stay
  <2>5. {"drainwait", "mark"} \subseteq CallPcs
    BY DEF CallPcs
  <2> QED BY <2>1, <2>2, <2>3, <2>4, <2>5 DEF Goto, DataPlace, HasStatus, HasWrite
<1>4. CASE DrainWaitEnds(a)
  <2>1. pc[a] = "drainwait" /\ op[a] = "stop" /\ statusMutex = a /\ writeMutex = a
    BY <1>0, <1>4 DEF DrainWaitEnds, DataPlace, HasStatus, HasWrite
  <2>2. "mark" \in CallPcs
    BY DEF CallPcs
  <2> QED BY <1>0, <1>4, <2>1, <2>2 DEF DrainWaitEnds, Goto, Stay, serverVars, DataPlace, HasStatus, HasWrite
<1>5. CASE MarkStopping(a)
  <2>1. pc[a] = "mark" /\ op[a] = "stop" /\ statusMutex = a /\ writeMutex = a
    BY <1>0, <1>5 DEF MarkStopping, DataPlace, HasStatus, HasWrite
  <2>2. "idle" \in CallPcs /\ "ipc" \in CallPcs
    BY DEF CallPcs
  <2> QED BY <1>0, <1>5, <2>1, <2>2 DEF MarkStopping, Goto, Return, Stay, serverVars, DataPlace, HasStatus, HasWrite
<1>6. CASE Ask(a)
  <2>1. /\ pc[a] = "ipc" /\ op[a] \in {"start", "pause", "stop", "flush"} /\ statusMutex = a
        /\ op[a] \in {"stop", "flush"} => writeMutex = a
    BY <1>0, <1>6 DEF Ask, DataPlace, HasStatus, HasWrite
  <2>2. op[a] \in Requests
    BY <2>1 DEF Requests
  <2>3. ServerAccepts(op[a]) \/ ServerRefuses(op[a])
    BY <1>6 DEF Ask
  <2>4. /\ status' \in Statuses /\ UNCHANGED <<drained, pending>>
        /\ engine' = engine \/ engine' = Append(engine, op[a])
    BY <1>0, <2>2, <2>3, ServerMoves
  <2>5. UNCHANGED <<state, notified, op, ops>>
    BY <1>6 DEF Ask
  <2>6. "idle" \in CallPcs /\ "wait" \in CallPcs
    BY DEF CallPcs
  <2>7. \/ Goto(a, "wait") /\ UNCHANGED <<statusMutex, writeMutex>>
        \/ Return(a) /\ engine' = engine
    BY <1>6 DEF Ask, Stay, ServerRefuses
  <2>8. op[a] # "start" => op[a] \in Requests \ {"start"}
    BY <2>2
  <2>9. CallMove(a, "wait") \/ (CallMove(a, "idle") /\ engine' = engine)
    BY <2>1, <2>4, <2>5, <2>6, <2>7 DEF Goto, Return, DataPlace, HasStatus, HasWrite
  <2> HIDE DEF CallMove
  <2> QED BY <2>1, <2>4, <2>6, <2>8, <2>9
<1>7. CASE FlushAnswered(a)
  <2>1. "idle" \in CallPcs
    BY DEF CallPcs
  <2> QED BY <1>0, <1>7, <2>1 DEF FlushAnswered, At, Return, Goto, serverVars, DataPlace, HasStatus, HasWrite
<1>8. CASE OtherAnswered(a)
  <2>1. /\ pc[a] = "wait" /\ op[a] \in {"start", "pause", "stop"} /\ statusMutex = a
        /\ op[a] \in {"stop", "flush"} => writeMutex = a
    BY <1>0, <1>8 DEF OtherAnswered, DataPlace, HasStatus, HasWrite
  <2>2. "wake" \in CallPcs
    BY DEF CallPcs
  <2> QED BY <1>0, <1>8, <2>1, <2>2 DEF OtherAnswered, Goto, Stay, serverVars, DataPlace, HasStatus, HasWrite
<1>9. CASE TimeOut(a)
  <2>1. /\ pc[a] = "wait" /\ op[a] \in {"start", "pause", "stop", "flush"} /\ statusMutex = a
        /\ op[a] \in {"stop", "flush"} => writeMutex = a
    BY <1>0, <1>9 DEF TimeOut, DataPlace, HasStatus, HasWrite
  <2>2. "idle" \in CallPcs /\ "undo" \in CallPcs
    BY DEF CallPcs
  <2>3. /\ UNCHANGED <<op, ops, status, drained, engine, pending>>
        /\ state' \in {state, "INVALID"} /\ notified' \in {notified, "none"}
    BY <1>9 DEF TimeOut, serverVars
  <2>4. \/ op[a] = "start" /\ Goto(a, "undo") /\ UNCHANGED <<statusMutex, writeMutex>>
        \/ Return(a)
    BY <1>9 DEF TimeOut, Stay
  <2>5. CallMove(a, "undo") \/ CallMove(a, "idle")
    BY <1>0, <2>1, <2>2, <2>3, <2>4 DEF Goto, Return, DataPlace, HasStatus, HasWrite
  <2> HIDE DEF CallMove
  <2> QED BY <2>2, <2>3, <2>5
<1>10. CASE Undo(a)
  <2>1. pc[a] = "undo" /\ op[a] = "start" /\ statusMutex = a
    BY <1>0, <1>10 DEF Undo, DataPlace, HasStatus
  <2>2. /\ status' \in Statuses /\ UNCHANGED <<drained, pending>>
        /\ engine' = engine \/ engine' = Append(engine, "stop")
    BY <1>0, <1>10, ServerMoves DEF Undo, Requests
  <2>3. "stop" \in Requests \ {"start"}
    BY DEF Requests
  <2>4. "idle" \in CallPcs
    BY DEF CallPcs
  <2> QED BY <1>10, <2>1, <2>2, <2>3, <2>4 DEF Undo, Return, Goto, DataPlace, HasStatus, HasWrite
<1>11. CASE Release(a)
  <2>1. "join" \in CallPcs
    BY DEF CallPcs
  <2>2. status' \in Statuses /\ engine' \in {engine, <<>>} /\ UNCHANGED <<drained, pending>>
    BY <1>0, <1>11 DEF Release, ServerRelease, Statuses
  <2>3. /\ pc[a] = "ipc" /\ op[a] = "release" /\ Goto(a, "join")
        /\ UNCHANGED <<statusMutex, writeMutex, state, notified, op, ops>>
    BY <1>11 DEF Release, At, Stay
  <2> QED BY <2>1, <2>2, <2>3 DEF Goto, DataPlace, HasStatus, HasWrite
<1> QED
  BY <1>1, <1>2, <1>3, <1>4, <1>5, <1>6, <1>7, <1>8, <1>9, <1>10, <1>11 DEF CallStep

-----------------------------------------------------------------------------
(* What a step does to the data.                                            *)

Kept == UNCHANGED <<queue, temp, ring, nextFrame, taken>>

Pops ==
    /\ lpc = "pop" /\ lpc' = "popped"
    /\ queue # <<>> /\ temp' = Head(queue) /\ queue' = Tail(queue)
    /\ UNCHANGED <<ring, nextFrame, taken>>

Repushes ==
    /\ lpc = "popped" /\ lpc' = "idlewait"
    /\ ~Running /\ Len(queue) < Capacity
    /\ queue' = Append(queue, temp) /\ temp' = <<>>
    /\ UNCHANGED <<ring, nextFrame, taken>>

Drops ==
    /\ lpc \in {"wlock", "writing", "region"} /\ lpc' = "pop"
    /\ temp' = <<>>
    /\ UNCHANGED <<queue, ring, nextFrame, taken>>

Copies(n) ==
    /\ lpc = "region" /\ lpc' = IF n = Len(temp) THEN "pop" ELSE "write"
    /\ n <= Total - Len(ring)
    /\ ring' = ring \o Take(n, temp) /\ temp' = Drop(n, temp)
    /\ UNCHANGED <<queue, nextFrame, taken>>

Provides ==
    /\ lpc = "callback" /\ lpc' = "top"
    /\ nextFrame + Cb <= MaxFrames + 1 /\ Len(queue) < Capacity
    /\ queue' = Append(queue, [i \in 1 .. Cb |-> nextFrame + i - 1])
    /\ nextFrame' = nextFrame + Cb
    /\ UNCHANGED <<temp, ring, taken>>

Plays(n) ==
    /\ ring' = Drop(n, ring) /\ taken' = ring[n]
    /\ UNCHANGED <<lpc, queue, temp, nextFrame>>

Clears ==
    /\ queue' \in {queue, <<>>} /\ ring' \in {ring, <<>>}
    /\ UNCHANGED <<lpc, temp, nextFrame, taken>>

LoopData ==
    \/ Kept \/ Pops \/ Repushes \/ Drops \/ Provides
    \/ \E n \in 1 .. Len(temp) : Copies(n)

DataMove == LoopData \/ Clears \/ \E n \in 1 .. Len(ring) : Plays(n)

(* The steps of the loop, and what they leave alone.                        *)
Spares == UNCHANGED <<state, notified, pc, op, ops, serverVars, released, wpc, taken, restarted>>

ParkedPcs == {"idlewait", "idling", "top", "running?", "block", "blocked", "end"}
FreshPcs == ParkedPcs \ {"idlewait", "idling"}

LoopMove ==
    /\ Spares
    /\ LoopData
    /\ ~Running /\ lpc \in FreshPcs => lpc' \in FreshPcs
    /\ ~Running /\ lpc \in ParkedPcs => lpc' \in ParkedPcs

(* What the data is made of.                                                *)
Sizes ==
    /\ ring \in Buffers /\ temp \in Buffers
    /\ Len(ring) <= Total /\ Total \in Nat /\ Cb \in Nat \ {0} /\ Span \in Nat \ {0}

LEMMA SizesAre == ASSUME DataTypeOK PROVE Sizes
BY DataPathAssumption DEF DataTypeOK, Sizes, DataPathAssumption

LEMMA LoopMoves ==
    ASSUME Sizes, Still(LoopStep) \/ Still(FutexExpires)
    PROVE  LoopMove
<1> USE DEF LoopMove, Spares, LoopData, ParkedPcs, FreshPcs, LoopGoto, Kept, serverVars, Still,
            controlVars, clientVars, futexVars, Running
<1>1. CASE Top /\ UNCHANGED restarted
  BY <1>1 DEF Top
<1>2. CASE CheckRunning /\ UNCHANGED restarted
  BY <1>2 DEF CheckRunning
<1>3. CASE Block /\ UNCHANGED restarted
  BY <1>3 DEF Block
<1>4. CASE Unblock /\ UNCHANGED restarted
  BY <1>4 DEF Unblock
<1>5. CASE Pop /\ UNCHANGED restarted
  BY <1>5 DEF Pop, Pops
<1>6. CASE Repush /\ UNCHANGED restarted
  BY <1>6 DEF Repush, Repushes
<1>7. CASE Popped /\ UNCHANGED restarted
  BY <1>7 DEF Popped
<1>8. CASE WriteBegin /\ UNCHANGED restarted
  BY <1>8 DEF WriteBegin, Drops
<1>9. CASE LoopWait /\ UNCHANGED restarted
  BY <1>9 DEF LoopWait, WaitBegin
<1>10. CASE FutexWaiter /\ UNCHANGED restarted
  BY <1>10 DEF FutexWaiter, loopVars, WaitCas, WaitCheck, WaitSys, WaitRecheck
<1>11. CASE WriteRefused /\ UNCHANGED restarted
  BY <1>11 DEF WriteRefused, GiveUp, Drops
<1>12. CASE WriteAllowed /\ UNCHANGED restarted
  BY <1>12 DEF WriteAllowed
<1>13. CASE WriteFrames /\ UNCHANGED restarted
  <2> DEFINE n == Least(Len(temp), Total - Len(ring))
  <2>1. n \in Nat /\ n <= Len(temp) /\ n <= Total - Len(ring)
    BY DEF Sizes, Least, Buffers
  <2>2. lpc = "region" /\ Spares
    BY <1>13 DEF WriteFrames
  <2>3. CASE n = 0
    BY <1>13, <2>2, <2>3 DEF WriteFrames, GiveUp, Drops
  <2>4. CASE n # 0
    <3>1. n \in 1 .. Len(temp)
      BY <2>1, <2>4 DEF Sizes, Buffers
    <3>2. Copies(n)
      BY <1>13, <2>1, <2>4 DEF WriteFrames, Copies
    <3> QED BY <2>2, <3>1, <3>2
  <2> QED BY <2>3, <2>4
<1>14. CASE IdleOver /\ UNCHANGED restarted
  BY <1>14 DEF IdleOver
<1>15. CASE Callback /\ UNCHANGED restarted
  BY <1>15 DEF Callback, Provides
<1>16. CASE FutexExpires /\ UNCHANGED restarted
  BY <1>16 DEF FutexExpires, WaitExpire, loopVars
<1> QED
  BY <1>1, <1>2, <1>3, <1>4, <1>5, <1>6, <1>7, <1>8, <1>9, <1>10, <1>11, <1>12, <1>13, <1>14,
     <1>15, <1>16 DEF LoopStep

-----------------------------------------------------------------------------
(* All steps.                                                               *)

\* The steps of a call that concern the loop and the writer.
LEMMA AppMoves ==
    ASSUME Control, NEW a \in Apps, AppStep(a)
    PROVE  (\E l \in CallPcs : AppMove(a, l)) \/ UNCHANGED controlVars
<1>0. /\ pc \in [Apps -> CallPcs] /\ pc[a] \in CallPcs /\ DataPlace(op[a], pc[a])
      /\ HasStatus(op[a], pc[a]) => statusMutex = a
      /\ HasWrite(op[a], pc[a]) => writeMutex = a
      /\ status \in Statuses
  BY DEF Control, ControlTypes, ControlTypeOK, DataPlaces, Holders, Statuses
<1>1. CASE ControlStep(a)
  BY <1>1, CallMoves DEF ControlStep
<1> USE DEF AppMove, CallMove, EngineMove, StartMove, OwnStates, Goto, Return, serverVars,
            DataPlace, HasStatus, HasWrite
<1>2. CASE NotifyLoop(a)
  <2>1. "idle" \in CallPcs
    BY DEF CallPcs
  <2>2. CallMove(a, "idle") /\ engine' = engine
    BY <1>0, <1>2, <2>1 DEF NotifyLoop, Wake
  <2> HIDE DEF CallMove
  <2> QED BY <2>1, <2>2
<1>3. CASE WakeWriter(a)
  <2>1. "woken" \in CallPcs
    BY DEF CallPcs
  <2>2. CallMove(a, "woken") /\ engine' = engine
    BY <1>0, <1>3, <2>1 DEF WakeWriter, At
  <2> HIDE DEF CallMove
  <2> QED BY <2>1, <2>2
<1>4. CASE Woken(a)
  <2>1. "idle" \in CallPcs
    BY DEF CallPcs
  <2>2. CallMove(a, "idle") /\ engine' = engine
    BY <1>0, <1>4, <2>1 DEF Woken
  <2> HIDE DEF CallMove
  <2> QED BY <2>1, <2>2
<1>5. CASE StopLoop(a)
  <2>1. "preexit" \in CallPcs
    BY DEF CallPcs
  <2>2. CallMove(a, "preexit") /\ engine' = engine
    BY <1>0, <1>5, <2>1 DEF StopLoop
  <2> HIDE DEF CallMove
  <2> QED BY <2>1, <2>2
<1>6. CASE PreExit(a)
  <2>1. "joining" \in CallPcs
    BY DEF CallPcs
  <2>2. CallMove(a, "joining") /\ engine' = engine
    BY <1>0, <1>6, <2>1 DEF PreExit
  <2> HIDE DEF CallMove
  <2> QED BY <2>1, <2>2
<1>7. CASE Joined(a)
  <2>1. "idle" \in CallPcs
    BY DEF CallPcs
  <2>2. CallMove(a, "idle") /\ engine' = engine
    BY <1>0, <1>7, <2>1 DEF Joined
  <2> HIDE DEF CallMove
  <2> QED BY <2>1, <2>2
<1>8. CASE Wakes(a)
  BY <1>8 DEF Wakes
<1> QED BY <1>1, <1>2, <1>3, <1>4, <1>5, <1>6, <1>7, <1>8 DEF AppStep

\* What they do to the data.
LEMMA AppClears ==
    ASSUME NEW a \in Apps, AppStep(a)
    PROVE  Clears
<1> USE DEF Clears, loopVars
<1>1. CASE ControlStep(a)
  BY <1>1 DEF ControlStep
<1>2. CASE NotifyLoop(a)
  BY <1>2 DEF NotifyLoop
<1>3. CASE WakeWriter(a) \/ Woken(a) \/ PreExit(a) \/ Joined(a) \/ Wakes(a)
  BY <1>3 DEF WakeWriter, Woken, PreExit, Joined, Wakes
<1>4. CASE StopLoop(a)
  BY <1>4 DEF StopLoop
<1> QED BY <1>1, <1>2, <1>3, <1>4 DEF AppStep

(* The kinds of steps there are.                                            *)
LoopTurn == Still(LoopStep) \/ Still(FutexExpires)
Takes    == Still(EngineTakes)
Answers  == Still(EngineCompletes)
Tells    == Still(Delivers)
AppTurn(a)     == Still(AppStep(a))
CallTurn(a, o) == AppCalls(a, o)
Idles == Still(Wakes(Engine_)) \/ UNCHANGED dataVars

LEMMA Turns ==
    ASSUME [DataNext]_dataVars
    PROVE  \/ LoopTurn \/ Takes \/ Answers \/ Tells \/ Idles
           \/ \E a \in Apps : AppTurn(a)
           \/ \E a \in Apps, o \in Ops : CallTurn(a, o)
BY DEF DataNext, LoopTurn, Takes, Answers, Tells, Idles, AppTurn, CallTurn

\* Steps that leave the calls, the server and the state alone.
LEMMA LoopSteps == ASSUME Sizes, LoopTurn PROVE LoopMove
BY LoopMoves DEF LoopTurn

LEMMA TakesIs ==
    ASSUME Sizes, Takes
    PROVE  /\ \E n \in 1 .. Len(ring) : n <= Span /\ Plays(n)
           /\ UNCHANGED <<controlVars, futexObj, fpc, tries, timedOut, fres, released, restarted>>
           /\ wpc[Engine_] = "idle" /\ wpc' = [wpc EXCEPT ![Engine_] = "cas"]
<1> DEFINE n == Least(Span, Len(ring))
<1>1. n \in 1 .. Len(ring) /\ n <= Span
  BY DEF Sizes, Buffers, Takes, Still, EngineTakes, Least
<1>2. Plays(n)
  BY DEF Takes, Still, EngineTakes, Plays
<1> QED BY <1>1, <1>2 DEF Takes, Still, EngineTakes, WakeCall, WakeGoto

LEMMA IdlesIs ==
    ASSUME Idles
    PROVE  /\ UNCHANGED <<controlVars, loopVars, restarted>> /\ Kept
           /\ UNCHANGED futexVars \/ WakeStep(Engine_)
BY DEF Idles, Still, Wakes, dataVars, Kept, loopVars

LEMMA AnswersIs ==
    ASSUME Answers
    PROVE  /\ UNCHANGED <<clientVars, futexVars, loopVars, restarted>> /\ Kept
           /\ Engine
BY DEF Answers, Still, EngineCompletes, Kept, loopVars, Engine, DrainEnds, EngineDone, EngineDrained

LEMMA TellsIs ==
    ASSUME Tells
    PROVE  /\ UNCHANGED <<futexVars, loopVars, restarted>> /\ Kept
           /\ OnOperationHandled
BY DEF Tells, Still, Delivers, Kept, loopVars

LEMMA CallTurnIs ==
    ASSUME NEW a \in Apps, NEW o \in Ops, CallTurn(a, o)
    PROVE  /\ UNCHANGED <<futexVars, loopVars>> /\ Kept
           /\ restarted' = (restarted \/ (o = "start" /\ ops > 0))
           /\ Call(a, o) /\ wpc[a] = "idle"
BY DEF CallTurn, AppCalls, Kept, loopVars

LEMMA DataMoves == ASSUME Sizes, [DataNext]_dataVars PROVE DataMove
<1>1. CASE LoopTurn
  BY <1>1, LoopSteps DEF LoopMove, DataMove
<1>2. CASE Takes
  BY <1>2, TakesIs DEF DataMove, LoopData
<1>3. CASE Answers \/ Tells \/ Idles
  BY <1>3, AnswersIs, TellsIs, IdlesIs DEF DataMove, LoopData
<1>4. ASSUME NEW a \in Apps, AppTurn(a) PROVE DataMove
  BY <1>4, AppClears DEF DataMove, AppTurn, Still
<1>5. ASSUME NEW a \in Apps, NEW o \in Ops, CallTurn(a, o) PROVE DataMove
  BY <1>5, CallTurnIs DEF DataMove, LoopData
<1> QED BY <1>1, <1>2, <1>3, <1>4, <1>5, Turns

-----------------------------------------------------------------------------
(* Types, places and locks.                                                 *)

LEMMA Names == Loop \notin Apps /\ Free \notin Apps /\ Loop # Free
BY DataPathAssumption DEF DataPathAssumption

\* The loop takes and gives up its own locks.
LEMMA LoopLocks ==
    ASSUME Holders, LoopTurn
    PROVE  /\ statusMutex' = statusMutex \/ {statusMutex, statusMutex'} \subseteq {Free, Loop}
           /\ writeMutex' = writeMutex \/ {writeMutex, writeMutex'} \subseteq {Free, Loop}
           /\ lpc' = "block" => statusMutex' = Loop
           /\ InWrite' => writeMutex' = Loop
<1> USE DEF Holders, InWrite, LoopGoto, Still, controlVars, clientVars, loopVars
<1>1. CASE Top
  BY <1>1 DEF Top
<1>2. CASE CheckRunning
  BY <1>2 DEF CheckRunning
<1>3. CASE Block
  BY <1>3 DEF Block
<1>4. CASE Unblock
  BY <1>4 DEF Unblock
<1>5. CASE Pop
  BY <1>5 DEF Pop
<1>6. CASE Repush
  BY <1>6 DEF Repush
<1>7. CASE Popped
  BY <1>7 DEF Popped
<1>8. CASE WriteBegin
  BY <1>8 DEF WriteBegin
<1>9. CASE LoopWait
  BY <1>9 DEF LoopWait
<1>10. CASE FutexWaiter \/ FutexExpires
  BY <1>10 DEF FutexWaiter, FutexExpires
<1>11. CASE WriteRefused
  BY <1>11 DEF WriteRefused, GiveUp
<1>12. CASE WriteAllowed
  BY <1>12 DEF WriteAllowed
<1>13. CASE WriteFrames
  BY <1>13 DEF WriteFrames, GiveUp
<1>14. CASE IdleOver
  BY <1>14 DEF IdleOver
<1>15. CASE Callback
  BY <1>15 DEF Callback
<1> QED
  BY <1>1, <1>2, <1>3, <1>4, <1>5, <1>6, <1>7, <1>8, <1>9, <1>10, <1>11, <1>12, <1>13, <1>14,
     <1>15 DEF LoopStep, LoopTurn

\* What the engine does keeps the types.
LEMMA AnswerTypes == ASSUME ControlTypes, Answers PROVE ControlTypes'
<1>0. engine \in Seq(Requests) /\ pending \in Seq(Requests)
  BY DEF ControlTypes, ControlTypeOK, Requests
<1> USE DEF ControlTypes, ControlTypeOK
<1>1. UNCHANGED clientVars /\ Engine
  BY AnswersIs
<1>2. UNCHANGED <<state, statusMutex, writeMutex, notified, pc, op, ops>>
  BY <1>1 DEF clientVars
<1>3. CASE DrainEnds
  <2>1. pending' \in Seq(Requests)
    BY <1>0, <1>3, AppendIs DEF DrainEnds, Requests
  <2> QED BY <1>2, <1>3, <2>1 DEF DrainEnds, Requests
<1>4. ASSUME NEW i \in 1 .. Len(engine), EngineDone(i) PROVE ControlTypes'
  <2>1. engine[i] \in Requests \ {"drain"}
    BY <1>0, <1>4 DEF EngineDone
  <2>2. pending' \in Seq(Requests) /\ engine' \in Seq(Requests) /\ drained' = drained
    BY <1>0, <1>4, <2>1, AppendIs, WithoutIs DEF EngineDone
  <2>3. status' \in Statuses
    BY <1>4, <2>1 DEF EngineDone, Statuses, Requests
  <2> QED BY <1>2, <2>2, <2>3 DEF Statuses, Requests
<1>5. ASSUME NEW i \in 1 .. Len(engine), EngineDrained(i) PROVE ControlTypes'
  <2>1. engine' \in Seq(Requests) /\ drained' \in BOOLEAN /\ UNCHANGED <<status, pending>>
    BY <1>0, <1>5, WithoutIs DEF EngineDrained
  <2> QED BY <1>2, <2>1 DEF Requests
<1> QED BY <1>1, <1>3, <1>4, <1>5 DEF Engine

\* The notification of the client.
LEMMA TellTypes == ASSUME ControlTypes, Tells PROVE ControlTypes'
<1>0. pending \in Seq(Requests) /\ pending # <<>>
  BY TellsIs DEF ControlTypes, ControlTypeOK, Requests, OnOperationHandled
<1>1. Head(pending) \in Requests /\ pending' \in Seq(Requests)
  BY <1>0, TailIs, TellsIs DEF OnOperationHandled
<1>2. state' \in {"RUNNING", "PAUSED", "STOPPED", state} /\ notified' = Head(pending)
      /\ UNCHANGED <<statusMutex, writeMutex, pc, op, ops, status, drained, engine>>
  BY <1>1, TellsIs DEF OnOperationHandled
<1> QED BY <1>1, <1>2 DEF ControlTypes, ControlTypeOK, Requests

\* Step of a call.
LEMMA AppTypes ==
    ASSUME ControlTypes, NEW a \in Apps, NEW l \in CallPcs, AppMove(a, l)
    PROVE  ControlTypes'
<1>0. engine \in Seq(Requests)
  BY DEF ControlTypes, ControlTypeOK, Requests
<1>1. engine' \in Seq(Requests)
  <2>1. "start" \in Requests /\ <<>> \in Seq(Requests)
    BY DEF Requests
  <2>2. engine' \in {engine, <<>>} \/ \E r \in Requests : engine' = Append(engine, r)
    BY <2>1 DEF AppMove, EngineMove
  <2>3. ASSUME NEW r \in Requests PROVE Append(engine, r) \in Seq(Requests)
    BY <1>0, AppendIs
  <2> QED BY <1>0, <2>1, <2>2, <2>3
<1>2. /\ pc' \in [Apps -> CallPcs] /\ statusMutex' \in Apps \cup {Free, Loop}
      /\ writeMutex' \in Apps \cup {Free, Loop}
  BY DEF ControlTypes, ControlTypeOK, AppMove, CallMove
<1>3. /\ UNCHANGED <<op, ops, pending, drained>>
      /\ state' \in {state, "STOPPING", "INVALID", "RELEASED"}
      /\ notified' \in {notified, "none"} /\ status' \in Statuses
  BY DEF AppMove, CallMove, OwnStates
<1> QED BY <1>1, <1>2, <1>3 DEF ControlTypes, ControlTypeOK, Statuses, Requests

LEMMA AppPlaces ==
    ASSUME Control, NEW a \in Apps, NEW l \in CallPcs, AppMove(a, l), lpc' = lpc
    PROVE  DataPlaces' /\ Holders'
<1>0. pc \in [Apps -> CallPcs]
  BY DEF Control, ControlTypes, ControlTypeOK
<1>1. op' = op /\ pc'[a] = l /\ \A b \in Apps \ {a} : pc'[b] = pc[b]
  BY <1>0 DEF AppMove, CallMove
<1>2. DataPlaces'
  BY <1>1 DEF AppMove, CallMove, DataPlaces, Control
<1>3. /\ statusMutex' = statusMutex \/ (statusMutex \in {a, Free} /\ statusMutex' \in {a, Free})
      /\ HasStatus(op[a], l) => statusMutex' = a
      /\ writeMutex' = writeMutex \/ (writeMutex \in {a, Free} /\ writeMutex' \in {a, Free})
      /\ HasWrite(op[a], l) => writeMutex' = a
  BY DEF AppMove, CallMove
<1>4. Holders
  BY DEF Control
<1>5. \A b \in Apps : /\ HasStatus(op[b], pc'[b]) => statusMutex' = b
                      /\ HasWrite(op[b], pc'[b]) => writeMutex' = b
  <2> SUFFICES ASSUME NEW b \in Apps
               PROVE  /\ HasStatus(op[b], pc'[b]) => statusMutex' = b
                      /\ HasWrite(op[b], pc'[b]) => writeMutex' = b
    OBVIOUS
  <2>1. CASE b = a
    BY <1>1, <1>3, <2>1
  <2>2. CASE b # a
    BY <1>1, <1>3, <1>4, <2>2, Names DEF Holders
  <2> QED BY <2>1, <2>2
<1>6. (lpc = "block" => statusMutex' = Loop) /\ (InWrite => writeMutex' = Loop)
  BY <1>3, <1>4, Names DEF Holders
<1> QED BY <1>1, <1>2, <1>5, <1>6 DEF Holders, InWrite

LEMMA ControlKept ==
    ASSUME Control, Sizes, [DataNext]_dataVars
    PROVE  Control'
<1> USE Names
<1>1. CASE LoopTurn
  <2>1. UNCHANGED <<state, notified, pc, op, ops, serverVars>>
    BY <1>1, LoopSteps DEF LoopMove, Spares
  <2>2. /\ statusMutex' = statusMutex \/ {statusMutex, statusMutex'} \subseteq {Free, Loop}
        /\ writeMutex' = writeMutex \/ {writeMutex, writeMutex'} \subseteq {Free, Loop}
        /\ lpc' = "block" => statusMutex' = Loop
        /\ InWrite' => writeMutex' = Loop
    BY <1>1, LoopLocks DEF Control
  <2>3. ControlTypes'
    BY <2>1, <2>2 DEF Control, ControlTypes, ControlTypeOK, serverVars
  <2>4. DataPlaces' /\ Holders'
    BY <2>1, <2>2 DEF Control, DataPlaces, Holders
  <2> QED BY <2>3, <2>4 DEF Control
<1>2. CASE Takes \/ Idles
  <2>1. UNCHANGED controlVars /\ lpc' = lpc
    BY <1>2, TakesIs, IdlesIs DEF loopVars, Plays
  <2> QED BY <2>1 DEF Control, ControlTypes, ControlTypeOK, DataPlaces, Holders, InWrite,
                      controlVars, clientVars, serverVars
<1>3. CASE Answers
  <2>1. UNCHANGED <<pc, op, statusMutex, writeMutex, lpc>>
    BY <1>3, AnswersIs DEF clientVars, loopVars
  <2> QED BY <1>3, <2>1, AnswerTypes DEF Control, DataPlaces, Holders, InWrite
<1>4. CASE Tells
  <2>1. UNCHANGED <<pc, op, statusMutex, writeMutex, lpc>>
    BY <1>4, TellsIs DEF OnOperationHandled, loopVars
  <2> QED BY <1>4, <2>1, TellTypes DEF Control, DataPlaces, Holders, InWrite
<1>5. ASSUME NEW a \in Apps, AppTurn(a) PROVE Control'
  <2>1. lpc' = lpc
    BY <1>5, AppClears DEF AppTurn, Still, Clears
  <2>2. CASE UNCHANGED controlVars
    BY <2>1, <2>2 DEF Control, ControlTypes, ControlTypeOK, DataPlaces, Holders, InWrite,
                      controlVars, clientVars, serverVars
  <2>3. ASSUME NEW l \in CallPcs, AppMove(a, l) PROVE Control'
    BY <2>1, <2>3, AppTypes, AppPlaces DEF Control
  <2> QED BY <1>5, <2>2, <2>3, AppMoves DEF AppTurn, Still
<1>6. ASSUME NEW a \in Apps, NEW o \in Ops, CallTurn(a, o) PROVE Control'
  <2>1. /\ pc[a] = "idle" /\ ops < MaxOps /\ ops' = ops + 1 /\ op' = [op EXCEPT ![a] = o]
        /\ pc' = [pc EXCEPT ![a] = "lock"]
        /\ UNCHANGED <<state, notified, serverVars, statusMutex, writeMutex, lpc>>
    BY <1>6, CallTurnIs DEF Call, Goto, Stay, loopVars
  <2>2. pc \in [Apps -> CallPcs] /\ op \in [Apps -> Ops \cup {"none"}] /\ ops \in 0 .. MaxOps
    BY DEF Control, ControlTypes, ControlTypeOK
  <2>3. ControlTypes'
    <3>1. pc' \in [Apps -> CallPcs] /\ op' \in [Apps -> Ops \cup {"none"}] /\ ops' \in 0 .. MaxOps
      BY <2>1, <2>2 DEF CallPcs
    <3> QED BY <2>1, <3>1 DEF Control, ControlTypes, ControlTypeOK, serverVars
  <2>4. /\ pc'[a] = "lock" /\ op'[a] = o
        /\ \A b \in Apps \ {a} : pc'[b] = pc[b] /\ op'[b] = op[b]
    BY <2>1, <2>2
  <2>5. DataPlaces'
    BY <2>4 DEF Control, DataPlaces, DataPlace
  <2>6. Holders'
    BY <2>1, <2>4 DEF Control, Holders, HasStatus, HasWrite, InWrite
  <2> QED BY <2>3, <2>5, <2>6 DEF Control
<1> QED BY <1>1, <1>2, <1>3, <1>4, <1>5, <1>6, Turns

FutexWell == FutexTypeOK /\ TriesLeft

\* FutexWait and FutexWake keep their types.
LEMMA WakeTypes == ASSUME FutexWell, NEW w \in Wakers, WakeStep(w) PROVE FutexWell'
<1> USE DEF FutexWell, FutexTypeOK, TriesLeft, WakeGoto
<1>1. CASE WakeCas(w)
  BY <1>1 DEF WakeCas, FutexWords, WakePcs
<1>2. CASE WakeExit(w)
  BY <1>2 DEF WakeExit, FutexWords, WakePcs
<1>3. CASE WakeSys(w)
  BY <1>3 DEF WakeSys, WaitPcs, WakePcs
<1> QED BY <1>1, <1>2, <1>3 DEF WakeStep

LEMMA WaitTypes ==
    ASSUME FutexWell,
           \/ WaitBegin \/ WaitCas \/ WaitSys \/ WaitExpire
           \/ \E p, x \in BOOLEAN : WaitCheck(p, x) \/ WaitRecheck(p)
    PROVE  FutexWell'
<1>0. tries \in 0 .. TryCount /\ TriesLeft
  BY DEF FutexWell, FutexTypeOK
<1> USE DEF WaitReturn
<1>1. CASE WaitBegin
  <2>1. tries' \in 0 .. TryCount /\ TriesLeft'
    BY <1>1 DEF WaitBegin, TriesLeft
  <2> QED BY <1>1, <2>1, Zenon DEF WaitBegin, FutexWell, FutexTypeOK, WaitPcs
<1>2. CASE WaitCas
  <2>1. tries' = tries /\ TriesLeft'
    BY <1>0, <1>2 DEF WaitCas, TriesLeft
  <2> QED BY <1>2, <2>1 DEF WaitCas, FutexWell, FutexTypeOK, FutexWords, WaitPcs, WaitResults
<1>3. CASE WaitSys \/ WaitExpire
  BY <1>3 DEF WaitSys, WaitExpire, FutexWell, FutexTypeOK, TriesLeft, WaitPcs
<1>4. ASSUME NEW p \in BOOLEAN, NEW x \in BOOLEAN, WaitCheck(p, x) PROVE FutexWell'
  <2>1. tries' = tries /\ TriesLeft'
    BY <1>0, <1>4 DEF WaitCheck, TriesLeft
  <2> QED BY <1>4, <2>1 DEF WaitCheck, FutexWell, FutexTypeOK, WaitPcs, WaitResults
<1>5. ASSUME NEW p \in BOOLEAN, WaitRecheck(p) PROVE FutexWell'
  <2>1. tries' \in 0 .. TryCount /\ TriesLeft'
    BY <1>0, <1>5 DEF WaitRecheck, TriesLeft
  <2>2. fpc' \in {"idle", "cas"} /\ fres' \in {fres, "SUCCESS", "TIMEOUT", "FAILED"}
        /\ UNCHANGED <<futexObj, timedOut, wpc>>
    BY <1>5 DEF WaitRecheck
  <2> QED BY <2>1, <2>2 DEF FutexWell, FutexTypeOK, WaitPcs, WaitResults
<1> QED BY <1>1, <1>2, <1>3, <1>4, <1>5

\* The loop's steps, as far as FutexWait is concerned.
LEMMA LoopFutex ==
    ASSUME LoopTurn
    PROVE  \/ UNCHANGED futexVars
           \/ WaitBegin
           \/ UNCHANGED <<controlVars, loopVars>>
                /\ \/ WaitCas \/ WaitSys \/ WaitCheck(Pred, FALSE) \/ WaitRecheck(Pred)
                   \/ MayExpire /\ (WaitCheck(Pred, TRUE) \/ WaitExpire)
<1>1. CASE FutexWaiter \/ FutexExpires
  BY <1>1 DEF FutexWaiter, FutexExpires
<1>2. CASE Top \/ CheckRunning \/ Block \/ Unblock \/ Pop \/ Repush \/ Popped \/ WriteBegin
  BY <1>2 DEF Top, CheckRunning, Block, Unblock, Pop, Repush, Popped, WriteBegin
<1>3. CASE LoopWait
  BY <1>3 DEF LoopWait
<1>4. CASE WriteRefused \/ WriteAllowed \/ WriteFrames \/ IdleOver \/ Callback
  BY <1>4 DEF WriteRefused, WriteAllowed, WriteFrames, IdleOver, Callback
<1> QED BY <1>1, <1>2, <1>3, <1>4 DEF LoopTurn, Still, LoopStep

\* What the calls do to FutexWake.
LEMMA AppFutex ==
    ASSUME NEW a \in Apps, AppStep(a)
    PROVE  \/ UNCHANGED futexVars
           \/ WakeStep(a) /\ UNCHANGED <<controlVars, loopVars>>
           \/ /\ WakeCall(a) /\ UNCHANGED <<futexObj, fpc, tries, timedOut, fres, released>>
              /\ \/ FlushesRing(a) /\ CallStep(a)
                 \/ At(a, op[a], "wake") /\ op[a] # "start" /\ Goto(a, "woken")
           \/ /\ WakeCallExit(a) /\ UNCHANGED <<futexObj, fpc, tries, timedOut, fres, released>>
              /\ pc[a] = "preexit" /\ Goto(a, "joining")
<1>1. CASE ControlStep(a)
  BY <1>1 DEF ControlStep, futexVars
<1>2. CASE NotifyLoop(a) \/ Woken(a) \/ StopLoop(a) \/ Joined(a)
  BY <1>2 DEF NotifyLoop, Woken, StopLoop, Joined
<1>3. CASE WakeWriter(a)
  BY <1>3 DEF WakeWriter, loopVars
<1>4. CASE PreExit(a)
  BY <1>4 DEF PreExit, loopVars
<1>5. CASE Wakes(a)
  BY <1>5 DEF Wakes
<1> QED BY <1>1, <1>2, <1>3, <1>4, <1>5 DEF AppStep

LEMMA WakersAre == Wakers = Apps \cup {Engine_} /\ Engine_ \notin Apps
BY DataPathAssumption DEF DataPathAssumption

LEMMA FutexKept == ASSUME FutexWell, Sizes, [DataNext]_dataVars PROVE FutexWell'
<1>1. CASE UNCHANGED futexVars
  BY <1>1 DEF FutexWell, FutexTypeOK, TriesLeft, futexVars
<1>2. CASE LoopTurn
  <2>1. PICK p \in BOOLEAN : p = Pred
    BY DEF Pred, Running
  <2>2. CASE WaitCheck(p, FALSE) \/ WaitCheck(p, TRUE) \/ WaitRecheck(p)
    <3>1. \E x \in BOOLEAN : WaitCheck(p, x) \/ WaitRecheck(p)
      BY <2>2
    <3> QED BY <3>1, WaitTypes
  <2>3. \/ UNCHANGED futexVars \/ WaitBegin \/ WaitCas \/ WaitSys \/ WaitExpire
        \/ WaitCheck(p, FALSE) \/ WaitCheck(p, TRUE) \/ WaitRecheck(p)
    BY <1>2, <2>1, LoopFutex
  <2> QED BY <1>1, <2>2, <2>3, WaitTypes
<1>3. CASE Takes
  BY <1>3, TakesIs DEF FutexWell, FutexTypeOK, TriesLeft, WakePcs
<1>4. CASE Answers \/ Tells \/ Idles
  BY <1>1, <1>4, AnswersIs, TellsIs, IdlesIs, WakeTypes, WakersAre
<1>5. ASSUME NEW a \in Apps, AppTurn(a) PROVE FutexWell'
  <2>1. CASE WakeStep(a)
    BY <2>1, WakeTypes, WakersAre
  <2>2. CASE WakeCall(a) /\ UNCHANGED <<futexObj, fpc, tries, timedOut, fres>>
    BY <2>2 DEF WakeCall, WakeGoto, FutexWell, FutexTypeOK, TriesLeft, WakePcs
  <2>3. CASE WakeCallExit(a) /\ UNCHANGED <<futexObj, fpc, tries, timedOut, fres>>
    BY <2>3 DEF WakeCallExit, WakeGoto, FutexWell, FutexTypeOK, TriesLeft, WakePcs
  <2> QED BY <1>1, <1>5, <2>1, <2>2, <2>3, AppFutex DEF AppTurn, Still
<1>6. ASSUME NEW a \in Apps, NEW o \in Ops, CallTurn(a, o) PROVE FutexWell'
  BY <1>1, <1>6, CallTurnIs
<1> QED BY <1>2, <1>3, <1>4, <1>5, <1>6, Turns

(* The data half of the types.                                              *)
DataTypes ==
    /\ queue \in Seq(Buffers) /\ Len(queue) <= Capacity
    /\ temp \in Buffers
    /\ ring \in Buffers /\ Len(ring) <= Total
    /\ nextFrame \in 1 .. MaxFrames + 1
    /\ taken \in 0 .. MaxFrames

FlagTypes ==
    /\ lpc \in LoopPcs
    /\ released \in BOOLEAN /\ cvNotified \in BOOLEAN /\ restarted \in BOOLEAN

\* The first n and the other frames of a sequence.
LEMMA TakeIs ==
    ASSUME NEW S, NEW s \in Seq(S), NEW n \in 0 .. Len(s)
    PROVE  /\ Take(n, s) \in Seq(S) /\ Len(Take(n, s)) = n
           /\ \A i \in 1 .. n : Take(n, s)[i] = s[i]
           /\ Drop(n, s) \in Seq(S) /\ Len(Drop(n, s)) = Len(s) - n
           /\ \A i \in 1 .. Len(s) - n : Drop(n, s)[i] = s[n + i]
<1>1. n \in Nat /\ n <= Len(s) /\ Len(s) \in Nat
  OBVIOUS
<1>2. SubSeq(s, 1, n) \in Seq(S) /\ Len(SubSeq(s, 1, n)) = n
  BY <1>1
<1>3. SubSeq(s, n + 1, Len(s)) \in Seq(S) /\ Len(SubSeq(s, n + 1, Len(s))) = Len(s) - n
  BY <1>1
<1>4. \A i \in 1 .. n : SubSeq(s, 1, n)[i] = s[i]
  BY <1>1
<1>5. \A i \in 1 .. Len(s) - n : SubSeq(s, n + 1, Len(s))[i] = s[n + i]
  BY <1>1
<1> QED BY <1>2, <1>3, <1>4, <1>5 DEF Take, Drop

LEMMA JoinIs ==
    ASSUME NEW s \in Buffers, NEW t \in Buffers
    PROVE  /\ s \o t \in Buffers /\ Len(s \o t) = Len(s) + Len(t)
           /\ \A i \in 1 .. Len(s) : (s \o t)[i] = s[i]
           /\ \A i \in 1 .. Len(t) : (s \o t)[Len(s) + i] = t[i]
<1>1. /\ s \o t \in Buffers /\ Len(s \o t) = Len(s) + Len(t)
      /\ \A i \in 1 .. Len(s) + Len(t) :
             (s \o t)[i] = IF i <= Len(s) THEN s[i] ELSE t[i - Len(s)]
  BY ConcatProperties, Zenon DEF Buffers
<1>2. Len(s) \in Nat /\ Len(t) \in Nat
  BY DEF Buffers
<1>3. ASSUME NEW i \in 1 .. Len(t) PROVE (s \o t)[Len(s) + i] = t[i]
  <2>1. Len(s) + i \in 1 .. Len(s) + Len(t) /\ ~(Len(s) + i <= Len(s)) /\ Len(s) + i - Len(s) = i
    BY <1>2
  <2> QED BY <1>1, <2>1
<1>4. ASSUME NEW i \in 1 .. Len(s) PROVE (s \o t)[i] = s[i]
  <2>1. i \in 1 .. Len(s) + Len(t) /\ i <= Len(s)
    BY <1>2
  <2> QED BY <1>1, <2>1
<1> QED BY <1>1, <1>3, <1>4

\* What is copied.
LEMMA CopyIs ==
    ASSUME Sizes, NEW n \in 1 .. Len(temp), Copies(n)
    PROVE  /\ ring' \in Buffers /\ Len(ring') = Len(ring) + n /\ Len(ring') <= Total
           /\ temp' \in Buffers /\ Len(temp') = Len(temp) - n
           /\ \A i \in 1 .. Len(ring) : ring'[i] = ring[i]
           /\ \A i \in 1 .. n : ring'[Len(ring) + i] = temp[i]
           /\ \A i \in 1 .. Len(temp) - n : temp'[i] = temp[n + i]
           /\ Len(ring) \in Nat /\ Len(temp) \in Nat
<1>0. ring \in Buffers /\ temp \in Buffers /\ Len(ring) \in Nat /\ Len(temp) \in Nat
      /\ n \in 0 .. Len(temp) /\ Total \in Nat
  BY DEF Sizes, Buffers
<1>1. ring' = ring \o Take(n, temp) /\ temp' = Drop(n, temp) /\ n <= Total - Len(ring)
  BY DEF Copies
<1>2. /\ Take(n, temp) \in Buffers /\ Len(Take(n, temp)) = n
      /\ \A i \in 1 .. n : Take(n, temp)[i] = temp[i]
      /\ Drop(n, temp) \in Buffers /\ Len(Drop(n, temp)) = Len(temp) - n
      /\ \A i \in 1 .. Len(temp) - n : Drop(n, temp)[i] = temp[n + i]
  BY <1>0, TakeIs, Zenon DEF Buffers
<1>3. /\ ring' \in Buffers /\ Len(ring') = Len(ring) + n
      /\ \A i \in 1 .. Len(ring) : ring'[i] = ring[i]
      /\ \A i \in 1 .. n : ring'[Len(ring) + i] = Take(n, temp)[i]
  <2> DEFINE t == Take(n, temp)
  <2>1. ring' = ring \o t /\ t \in Buffers /\ Len(t) = n
    BY <1>1, <1>2
  <2> HIDE DEF t
  <2>2. /\ ring \o t \in Buffers /\ Len(ring \o t) = Len(ring) + Len(t)
        /\ \A i \in 1 .. Len(ring) : (ring \o t)[i] = ring[i]
        /\ \A i \in 1 .. Len(t) : (ring \o t)[Len(ring) + i] = t[i]
    BY <1>0, <2>1, JoinIs, Zenon
  <2> QED BY <2>1, <2>2 DEF t
<1>4. Len(ring') <= Total
  BY <1>0, <1>1, <1>3
<1> QED BY <1>0, <1>1, <1>2, <1>3, <1>4

\* What is played.
LEMMA PlayIs ==
    ASSUME Sizes, NEW n \in 1 .. Len(ring), Plays(n)
    PROVE  /\ ring' \in Buffers /\ Len(ring') = Len(ring) - n /\ Len(ring) \in Nat
           /\ \A i \in 1 .. Len(ring) - n : ring'[i] = ring[n + i]
           /\ taken' = ring[n] /\ taken' \in 1 .. MaxFrames
           /\ UNCHANGED <<lpc, queue, temp, nextFrame>>
<1>1. n \in 0 .. Len(ring) /\ ring \in Buffers /\ Len(ring) \in Nat /\ ring[n] \in 1 .. MaxFrames
  <2>1. ring \in Seq(1 .. MaxFrames) /\ ring \in Buffers
    BY DEF Sizes, Buffers
  <2>2. Len(ring) \in Nat /\ ring[n] \in 1 .. MaxFrames
    <3> DEFINE S == 1 .. MaxFrames
    <3> HIDE DEF S
    <3>1. ring \in Seq(S)
      BY <2>1 DEF S
    <3>2. Len(ring) \in Nat /\ ring[n] \in S
      BY <3>1
    <3> QED BY <3>2 DEF S
  <2> QED BY <2>1, <2>2
<1>2. /\ Drop(n, ring) \in Buffers /\ Len(Drop(n, ring)) = Len(ring) - n
      /\ \A i \in 1 .. Len(ring) - n : Drop(n, ring)[i] = ring[n + i]
  <2>1. ring \in Seq(1 .. MaxFrames) /\ n \in 0 .. Len(ring)
    BY <1>1 DEF Buffers
  <2>2. /\ Drop(n, ring) \in Seq(1 .. MaxFrames) /\ Len(Drop(n, ring)) = Len(ring) - n
        /\ \A i \in 1 .. Len(ring) - n : Drop(n, ring)[i] = ring[n + i]
    <3> DEFINE S == 1 .. MaxFrames
    <3> HIDE DEF S
    <3>1. ring \in Seq(S) /\ n \in 0 .. Len(ring)
      BY <2>1 DEF S
    <3> QED BY <3>1, TakeIs DEF S
  <2> QED BY <2>2 DEF Buffers
<1> QED BY <1>1, <1>2 DEF Plays

\* The buffer the application provides.
LEMMA ProvideIs ==
    ASSUME DataTypes, Sizes, Provides
    PROVE  LET buf == [i \in 1 .. Cb |-> nextFrame + i - 1]
           IN  /\ buf \in Buffers /\ Len(buf) = Cb /\ queue' = Append(queue, buf)
               /\ \A i \in 1 .. Cb : buf[i] = nextFrame + i - 1
<1> DEFINE buf == [i \in 1 .. Cb |-> nextFrame + i - 1]
<1>1. Cb \in Nat /\ MaxFrames \in Nat /\ nextFrame \in Nat /\ nextFrame >= 1
      /\ nextFrame + Cb <= MaxFrames + 1
  BY DataPathAssumption DEF Sizes, Provides, DataTypes, DataPathAssumption
<1>2. \A i \in 1 .. Cb : nextFrame + i - 1 \in 1 .. MaxFrames
  BY <1>1
<1>3. buf \in Buffers /\ Len(buf) = Cb
  BY <1>1, <1>2 DEF Buffers
<1> QED BY <1>3 DEF Provides

LEMMA DataKept == ASSUME DataTypes, Sizes, DataMove PROVE DataTypes'
<1>0. Capacity \in Nat \ {0} /\ MaxFrames \in Nat
  BY DataPathAssumption DEF DataPathAssumption
<1> USE DEF DataTypes
<1>1. CASE Kept
  BY <1>1 DEF Kept
<1>2. CASE Pops
  <2>1. Head(queue) \in Buffers /\ Tail(queue) \in Seq(Buffers) /\ Len(Tail(queue)) <= Capacity
    BY <1>0, <1>2 DEF Pops
  <2> QED BY <1>2, <2>1 DEF Pops
<1>3. CASE Repushes
  <2>1. <<>> \in Buffers
    BY DEF Buffers
  <2>2. Append(queue, temp) \in Seq(Buffers) /\ Len(Append(queue, temp)) <= Capacity
    BY <1>0, <1>3 DEF Repushes
  <2> QED BY <1>3, <2>1, <2>2 DEF Repushes
<1>4. CASE Drops
  <2>1. <<>> \in Buffers
    BY DEF Buffers
  <2> QED BY <1>4, <2>1 DEF Drops
<1>5. CASE Provides
  <2>1. PICK buf \in Buffers : queue' = Append(queue, buf)
    BY <1>5, ProvideIs
  <2>2. queue' \in Seq(Buffers) /\ Len(queue') <= Capacity
    BY <1>0, <1>5, <2>1 DEF Provides
  <2>3. nextFrame' \in 1 .. MaxFrames + 1 /\ UNCHANGED <<temp, ring, taken>>
    <3>1. Cb \in Nat /\ nextFrame \in Nat /\ nextFrame >= 1 /\ nextFrame' = nextFrame + Cb
          /\ nextFrame + Cb <= MaxFrames + 1 /\ UNCHANGED <<temp, ring, taken>>
      BY <1>5 DEF Provides, Sizes
    <3> QED BY <1>0, <3>1
  <2> QED BY <2>2, <2>3
<1>6. CASE Clears
  <2>1. <<>> \in Buffers /\ <<>> \in Seq(Buffers) /\ Len(<<>>) = 0 /\ Total \in Nat
    BY DEF Buffers, Sizes
  <2>2. queue' \in Seq(Buffers) /\ Len(queue') <= Capacity
    <3>1. CASE queue' = queue
      BY <3>1
    <3>2. CASE queue' = <<>>
      <4>1. Len(queue') <= Capacity
        BY <1>0, <2>1, <3>2
      <4> QED BY <2>1, <3>2, <4>1
    <3> QED BY <1>6, <3>1, <3>2 DEF Clears
  <2>3. ring' \in Buffers /\ Len(ring') <= Total
    BY <1>6, <2>1 DEF Clears
  <2> QED BY <1>6, <2>2, <2>3 DEF Clears
<1>7. ASSUME NEW n \in 1 .. Len(temp), Copies(n) PROVE DataTypes'
  BY <1>7, CopyIs DEF Copies
<1>8. ASSUME NEW n \in 1 .. Len(ring), Plays(n) PROVE DataTypes'
  <2>1. Len(ring') <= Total
    BY <1>8, PlayIs DEF Sizes
  <2> QED BY <1>0, <1>8, <2>1, PlayIs
<1> QED BY <1>1, <1>2, <1>3, <1>4, <1>5, <1>6, <1>7, <1>8 DEF DataMove, LoopData

LEMMA FlagsKept == ASSUME FlagTypes, Sizes, [DataNext]_dataVars PROVE FlagTypes'
<1> USE DEF FlagTypes, loopVars
<1>1. CASE LoopTurn
  <2> USE DEF LoopPcs, LoopGoto, Still
  <2>1. CASE Top \/ CheckRunning \/ Block \/ Unblock
    BY <1>1, <2>1, LoopSteps DEF Top, CheckRunning, Block, Unblock, LoopMove, Spares
  <2>2. CASE Pop \/ Repush \/ Popped \/ WriteBegin \/ LoopWait
    BY <1>1, <2>2, LoopSteps DEF Pop, Repush, Popped, WriteBegin, LoopWait, LoopMove, Spares
  <2>3. CASE FutexWaiter \/ FutexExpires
    BY <1>1, <2>3, LoopSteps DEF FutexWaiter, FutexExpires, LoopMove, Spares
  <2>4. CASE WriteRefused \/ WriteAllowed \/ WriteFrames \/ IdleOver \/ Callback
    BY <1>1, <2>4, LoopSteps
       DEF WriteRefused, GiveUp, WriteAllowed, WriteFrames, IdleOver, Callback, LoopMove, Spares
  <2> QED BY <1>1, <2>1, <2>2, <2>3, <2>4 DEF LoopTurn, LoopStep
<1>2. CASE Takes
  BY <1>2, TakesIs DEF Takes, Still, EngineTakes, Plays, controlVars
<1>3. CASE Answers \/ Tells \/ Idles
  BY <1>3, AnswersIs, TellsIs, IdlesIs DEF Tells, Still
<1>4. ASSUME NEW a \in Apps, AppTurn(a) PROVE FlagTypes'
  <2>1. lpc' = lpc /\ restarted' = restarted
    BY <1>4, AppClears DEF AppTurn, Still, Clears
  <2>2. CASE ControlStep(a) \/ NotifyLoop(a)
    BY <2>1, <2>2 DEF ControlStep, NotifyLoop
  <2>3. CASE WakeWriter(a) \/ Woken(a) \/ StopLoop(a) \/ PreExit(a) \/ Joined(a) \/ Wakes(a)
    BY <2>1, <2>3 DEF WakeWriter, Woken, StopLoop, PreExit, Joined, Wakes
  <2> QED BY <1>4, <2>2, <2>3 DEF AppTurn, Still, AppStep
<1>5. ASSUME NEW a \in Apps, NEW o \in Ops, CallTurn(a, o) PROVE FlagTypes'
  BY <1>5, CallTurnIs
<1> QED BY <1>1, <1>2, <1>3, <1>4, <1>5, Turns

(* What holds of every stream, whatever fails.                              *)
DataWell == DataTypeOK /\ Control /\ TriesLeft

LEMMA WellParts ==
    /\ DataWell => FutexWell /\ DataTypes /\ FlagTypes /\ Control /\ Sizes
    /\ FutexWell /\ DataTypes /\ FlagTypes /\ Control => DataWell
BY SizesAre DEF DataWell, DataTypeOK, FutexWell, DataTypes, FlagTypes, Control, ControlTypes

LEMMA WellKept == ASSUME DataWell, [DataNext]_dataVars PROVE DataWell'
<1>1. FutexWell /\ DataTypes /\ FlagTypes /\ Control /\ Sizes
  BY WellParts
<1>2. FutexWell' /\ DataTypes' /\ FlagTypes' /\ Control'
  BY <1>1, FutexKept, DataKept, DataMoves, FlagsKept, ControlKept
<1> QED BY <1>2 DEF DataWell, DataTypeOK, FutexWell, DataTypes, FlagTypes, Control, ControlTypes

LEMMA WellStart == DataInit => DataWell
<1> SUFFICES ASSUME DataInit PROVE DataWell
  OBVIOUS
<1>1. FutexWell
  <2>1. TryCount \in Nat \ {0} /\ FutexInit
    BY DEF DataInit
  <2>2. 0 \in 0 .. TryCount
    BY <2>1
  <2> QED BY <2>1, <2>2 DEF FutexInit, FutexWell, FutexTypeOK, TriesLeft, FutexWords, WaitPcs, WaitResults, WakePcs
<1>2. DataTypes
  BY DataPathAssumption DEF DataPathAssumption, DataInit, DataTypes, Buffers
<1>3. FlagTypes
  BY DEF DataInit, FlagTypes, LoopPcs
<1>4. ControlTypes
  <2>1. ControlInit /\ MaxOps \in Nat
    BY DEF DataInit
  <2>2. <<>> \in Seq({"start", "pause", "flush", "drain", "stop"}) /\ 0 \in 0 .. MaxOps
    BY <2>1
  <2> QED BY <2>1, <2>2 DEF ControlInit, ControlTypes, ControlTypeOK, CallPcs
<1>5. DataPlaces /\ Holders
  BY DEF DataInit, ControlInit, DataPlaces, DataPlace, Holders, HasStatus, HasWrite, InWrite
<1> QED BY <1>1, <1>2, <1>3, <1>4, <1>5, WellParts DEF Control

\* The types of a playback stream's threads, locks, buffers and futex word.
THEOREM DataTypeCorrect == DataSpec => []DataTypeOK
<1>1. DataInit => DataWell
  BY WellStart
<1>2. DataWell /\ [DataNext]_dataVars => DataWell'
  BY WellKept
<1>3. DataWell => DataTypeOK
  BY DEF DataWell
<1> QED BY <1>1, <1>2, <1>3, PTL DEF DataSpec

-----------------------------------------------------------------------------
(* The first start.  Unless the stream is started again, there is one start *)
(* at most that the client has not been told of: in a call that has not     *)
(* asked the server, with the engine, or on its way back.                   *)

Once(s, r) == \A i, j \in 1 .. Len(s) : s[i] = r /\ s[j] = r => i = j

StartCall(a) == op[a] = "start" /\ pc[a] \in {"lock", "ipc"}
StartCalled  == \E a \in Apps : StartCall(a)

Starting == StartCalled \/ Holds(engine, "start") \/ Holds(pending, "start")

OneStart ==
    /\ \A a, b \in Apps : StartCall(a) /\ StartCall(b) => a = b
    /\ StartCalled => ~Holds(engine, "start") /\ ~Holds(pending, "start")
    /\ ~(Holds(engine, "start") /\ Holds(pending, "start"))
    /\ Once(engine, "start") /\ Once(pending, "start")
    /\ ops = 0 => ~Starting

(* Until then nothing has been played, and the loop waits to be let go.     *)
Fresh ==
    /\ ~Running /\ lpc \in FreshPcs
    /\ queue = <<>> /\ temp = <<>> /\ ring = <<>>
    /\ taken = 0 /\ nextFrame = 1

FreshUntilStart == OneStart /\ (ops = 0 \/ Starting => Fresh)

\* One request in a sequence: where it can have come from.
LEMMA HoldsBack ==
    ASSUME NEW s \in Seq(Requests), NEW r \in Requests
    PROVE  /\ \A q \in Requests : Holds(Append(s, q), r) => Holds(s, r) \/ q = r
           /\ \A q \in Requests : Once(s, r) /\ (q # r \/ ~Holds(s, r)) => Once(Append(s, q), r)
           /\ \A i \in 1 .. Len(s) : Holds(Without(s, i), r) => Holds(s, r)
           /\ \A i \in 1 .. Len(s) : Once(s, r) => Once(Without(s, i), r)
           /\ \A i \in 1 .. Len(s) : Once(s, r) /\ s[i] = r => ~Holds(Without(s, i), r)
           /\ s # <<>> /\ Holds(Tail(s), r) => Holds(s, r)
           /\ s # <<>> /\ Once(s, r) => Once(Tail(s), r)
           /\ s # <<>> /\ Once(s, r) /\ Head(s) = r => Holds(s, r) /\ ~Holds(Tail(s), r)
<1>0. Len(s) \in Nat
  OBVIOUS
<1>1. ASSUME NEW q \in Requests
      PROVE  /\ Holds(Append(s, q), r) => Holds(s, r) \/ q = r
             /\ Once(s, r) /\ (q # r \/ ~Holds(s, r)) => Once(Append(s, q), r)
  <2>1. /\ Len(Append(s, q)) = Len(s) + 1 /\ Append(s, q)[Len(s) + 1] = q
        /\ \A k \in 1 .. Len(s) : Append(s, q)[k] = s[k]
    BY AppendIs
  <2> QED BY <1>0, <2>1 DEF Holds, Once
<1>2. ASSUME NEW i \in 1 .. Len(s)
      PROVE  /\ Holds(Without(s, i), r) => Holds(s, r)
             /\ Once(s, r) => Once(Without(s, i), r)
             /\ Once(s, r) /\ s[i] = r => ~Holds(Without(s, i), r)
  <2> DEFINE at(k) == IF k < i THEN k ELSE k + 1
  <2>1. /\ Len(Without(s, i)) = Len(s) - 1
        /\ \A k \in 1 .. Len(s) - 1 : Without(s, i)[k] = IF k < i THEN s[k] ELSE s[k + 1]
    BY WithoutIs
  <2>2. \A k \in 1 .. Len(s) - 1 : at(k) \in 1 .. Len(s) /\ at(k) # i
    BY <1>0
  <2>3. \A j, k \in 1 .. Len(s) - 1 : at(j) = at(k) => j = k
    BY <1>0
  <2>4. \A k \in 1 .. Len(s) - 1 : Without(s, i)[k] = s[at(k)]
    BY <2>1
  <2> HIDE DEF at
  <2> QED BY <2>1, <2>2, <2>3, <2>4 DEF Holds, Once
<1>3. ASSUME s # <<>>
      PROVE  /\ Holds(Tail(s), r) => Holds(s, r)
             /\ Once(s, r) => Once(Tail(s), r)
             /\ Once(s, r) /\ Head(s) = r => Holds(s, r) /\ ~Holds(Tail(s), r)
  <2>1. /\ Len(Tail(s)) = Len(s) - 1 /\ Len(s) >= 1 /\ Head(s) = s[1]
        /\ \A k \in 1 .. Len(s) - 1 : Tail(s)[k] = s[k + 1]
    BY <1>3, TailIs
  <2>2. \A k \in 1 .. Len(s) - 1 : k + 1 \in 1 .. Len(s) /\ k + 1 # 1
    BY <1>0
  <2>3. 1 \in 1 .. Len(s)
    BY <1>0, <2>1
  <2> QED BY <1>0, <2>1, <2>2, <2>3 DEF Holds, Once
<1> QED BY <1>1, <1>2, <1>3

LEMMA StartKept ==
    ASSUME DataWell, OneStart, ~restarted', [DataNext]_dataVars
    PROVE  /\ OneStart'
           /\ \/ ops' = ops /\ (Starting' => Starting)
              \/ ops' > 0 /\ (Starting' => Starting \/ ops = 0)
<1>0. /\ engine \in Seq(Requests) /\ pending \in Seq(Requests)
      /\ pc \in [Apps -> CallPcs] /\ op \in [Apps -> Ops \cup {"none"}] /\ ops \in Nat
      /\ Sizes /\ Control /\ "start" \in Requests /\ "drain" \in Requests
  BY WellParts DEF Control, ControlTypes, ControlTypeOK, Requests
<1> USE DEF OneStart, Starting, StartCalled, StartCall
<1>1. CASE UNCHANGED <<pc, op, ops, engine, pending>>
  BY <1>1
<1>2. CASE Answers
  <2>1. UNCHANGED <<pc, op, ops>> /\ Engine
    BY <1>2, AnswersIs DEF clientVars
  <2>2. CASE DrainEnds
    <3>1. pending' = Append(pending, "drain") /\ engine' = engine
      BY <2>2 DEF DrainEnds
    <3>2. Once(pending', "start") /\ (Holds(pending', "start") => Holds(pending, "start"))
      BY <1>0, <3>1, HoldsBack
    <3> QED BY <2>1, <3>1, <3>2
  <2>3. ASSUME NEW i \in 1 .. Len(engine), EngineDone(i) \/ EngineDrained(i)
        PROVE  OneStart' /\ (Starting' => Starting)
    <3>1. /\ engine' = Without(engine, i) /\ engine[i] \in Requests
          /\ pending' = pending \/ pending' = Append(pending, engine[i])
      BY <1>0, <2>3 DEF EngineDone, EngineDrained
    <3>2. /\ Once(engine', "start") /\ (Holds(engine', "start") => Holds(engine, "start"))
          /\ engine[i] = "start" => ~Holds(engine', "start")
      BY <1>0, <3>1, HoldsBack
    <3>3. engine[i] = "start" => Holds(engine, "start")
      BY DEF Holds
    <3>4. /\ Once(pending', "start")
          /\ Holds(pending', "start") => Holds(pending, "start") \/ engine[i] = "start"
      <4>1. engine[i] # "start" \/ ~Holds(pending, "start")
        BY <3>3
      <4>2. Once(pending, "start")
        OBVIOUS
      <4>3. PICK q \in Requests : q = engine[i]
        BY <3>1
      <4>4. /\ Holds(Append(pending, q), "start") => Holds(pending, "start") \/ q = "start"
            /\ Once(Append(pending, q), "start")
        BY <1>0, <4>1, <4>2, <4>3, HoldsBack
      <4> QED BY <3>1, <4>2, <4>3, <4>4
    <3> QED BY <2>1, <3>2, <3>3, <3>4
  <2> QED BY <2>1, <2>2, <2>3 DEF Engine
<1>3. CASE Tells
  <2>1. UNCHANGED <<pc, op, ops, engine>> /\ pending # <<>> /\ pending' = Tail(pending)
    BY <1>3, TellsIs DEF OnOperationHandled
  <2>2. Once(pending', "start") /\ (Holds(pending', "start") => Holds(pending, "start"))
    BY <1>0, <2>1, HoldsBack
  <2> QED BY <2>1, <2>2
<1>4. ASSUME NEW a \in Apps, NEW l \in CallPcs, AppMove(a, l)
      PROVE  OneStart' /\ ops' = ops /\ (Starting' => Starting)
  <2>1. /\ UNCHANGED <<op, ops, pending>> /\ l # "lock"
        /\ pc'[a] = l /\ \A b \in Apps \ {a} : pc'[b] = pc[b]
        /\ op[a] = "start" /\ l = "ipc" => pc[a] = "lock"
    BY <1>0, <1>4 DEF AppMove, CallMove, StartMove
  <2>2. \A b \in Apps : StartCall(b)' => StartCall(b)
    BY <2>1
  <2>3. CASE engine' = engine \/ engine' = <<>>
    <3>1. Once(engine', "start") /\ (Holds(engine', "start") => Holds(engine, "start"))
      BY <2>3 DEF Once, Holds
    <3> QED BY <2>1, <2>2, <3>1
  <2>4. ASSUME NEW r \in Requests \ {"start"}, engine' = Append(engine, r)
        PROVE  OneStart' /\ ops' = ops /\ (Starting' => Starting)
    <3>1. Once(engine', "start") /\ (Holds(engine', "start") => Holds(engine, "start"))
      BY <1>0, <2>4, HoldsBack
    <3> QED BY <2>1, <2>2, <3>1
  <2>5. CASE op[a] = "start" /\ pc[a] = "ipc" /\ l = "wait" /\ engine' = Append(engine, "start")
    <3>1. StartCall(a) /\ ~Holds(engine, "start") /\ ~Holds(pending, "start")
      BY <2>5
    <3>2. \A b \in Apps : ~StartCall(b)'
      BY <2>1, <2>2, <2>5, <3>1
    <3>3. Once(engine', "start")
      BY <1>0, <2>5, <3>1, HoldsBack
    <3> QED BY <2>1, <3>1, <3>2, <3>3
  <2> QED BY <1>4, <2>3, <2>4, <2>5 DEF AppMove, EngineMove
<1>5. ASSUME NEW a \in Apps, NEW o \in Ops, CallTurn(a, o)
      PROVE  OneStart' /\ ops' > 0 /\ (Starting' => Starting \/ ops = 0)
  <2>1. /\ pc[a] = "idle" /\ ops' = ops + 1 /\ op' = [op EXCEPT ![a] = o]
        /\ pc' = [pc EXCEPT ![a] = "lock"] /\ UNCHANGED <<engine, pending>>
        /\ o = "start" => ops = 0
    <3>1. Call(a, o) /\ ~(o = "start" /\ ops > 0)
      BY <1>5, CallTurnIs
    <3>2. o = "start" => ops = 0
      BY <1>0, <3>1
    <3> QED BY <3>1, <3>2 DEF Call, Goto, serverVars
  <2>2. /\ pc'[a] = "lock" /\ op'[a] = o
        /\ \A b \in Apps \ {a} : pc'[b] = pc[b] /\ op'[b] = op[b]
    BY <1>0, <2>1
  <2>3. \A b \in Apps : StartCall(b)' <=> StartCall(b) \/ (b = a /\ o = "start")
    BY <2>1, <2>2
  <2>4. ops' > 0 /\ ops' # 0
    BY <1>0, <2>1
  <2>5. CASE o = "start"
    <3>1. ~Starting
      BY <2>1, <2>5
    <3> QED BY <2>1, <2>3, <2>4, <2>5, <3>1
  <2>6. CASE o # "start"
    BY <2>1, <2>3, <2>4, <2>6
  <2> QED BY <2>5, <2>6
<1>6. ASSUME NEW a \in Apps, AppTurn(a)
      PROVE  OneStart' /\ ops' = ops /\ (Starting' => Starting)
  <2>1. CASE UNCHANGED controlVars
    BY <1>1, <2>1 DEF controlVars, clientVars, serverVars
  <2>2. AppStep(a)
    BY <1>6 DEF AppTurn, Still
  <2> HIDE DEF OneStart, Starting
  <2> QED BY <1>0, <1>4, <2>1, <2>2, AppMoves
<1>7. CASE LoopTurn
  BY <1>0, <1>1, <1>7, LoopSteps DEF LoopMove, Spares, serverVars
<1>8. CASE Takes \/ Idles
  BY <1>0, <1>1, <1>8, TakesIs, IdlesIs DEF controlVars, clientVars, serverVars
<1>9. (Answers \/ Tells) => ops' = ops
  BY AnswersIs, TellsIs DEF clientVars, OnOperationHandled
<1> HIDE DEF OneStart, Starting
<1> QED BY <1>2, <1>3, <1>5, <1>6, <1>7, <1>8, <1>9, Turns

\* What becomes of the client's state.
LEMMA StateMoves ==
    ASSUME DataWell, [DataNext]_dataVars
    PROVE  \/ state' = state
           \/ state' \in OwnStates /\ \E a \in Apps : AppTurn(a)
           \/ Tells /\ pending # <<>> /\ (state' = "RUNNING" => Head(pending) = "start")
                    /\ state' \in {"RUNNING", "PAUSED", "STOPPED"}
<1>0. Control /\ Sizes
  BY WellParts
<1>1. CASE LoopTurn
  BY <1>0, <1>1, LoopSteps DEF LoopMove, Spares
<1>2. CASE Takes \/ Answers \/ Idles
  BY <1>0, <1>2, TakesIs, AnswersIs, IdlesIs DEF controlVars, clientVars
<1>3. CASE Tells
  <2>1. pending \in Seq(Requests) /\ pending # <<>>
    BY <1>0, <1>3, TellsIs DEF Control, ControlTypes, ControlTypeOK, Requests, OnOperationHandled
  <2>2. Head(pending) \in Requests
    BY <2>1, TailIs
  <2> QED BY <1>3, <2>1, <2>2, TellsIs DEF OnOperationHandled, Requests
<1>4. ASSUME NEW a \in Apps, AppTurn(a) PROVE state' \in {state} \cup OwnStates
  BY <1>0, <1>4, AppMoves DEF AppTurn, Still, AppMove, CallMove, controlVars, clientVars
<1>5. ASSUME NEW a \in Apps, NEW o \in Ops, CallTurn(a, o) PROVE state' = state
  BY <1>5, CallTurnIs DEF Call
<1> QED BY <1>1, <1>2, <1>3, <1>4, <1>5, Turns

\* A start that the client has been told of is no longer under way.
LEMMA ToldOnce ==
    ASSUME DataWell, OneStart, Tells, Head(pending) = "start"
    PROVE  Starting /\ ~Starting' /\ ops' = ops /\ ops # 0
<1>1. pending \in Seq(Requests) /\ pending # <<>> /\ pending' = Tail(pending) /\ "start" \in Requests
      /\ UNCHANGED <<pc, op, ops, engine>>
  BY WellParts, TellsIs DEF Control, ControlTypes, ControlTypeOK, Requests, OnOperationHandled
<1>2. Once(pending, "start")
  BY DEF OneStart
<1>3. Holds(pending, "start") /\ ~Holds(pending', "start")
  BY <1>1, <1>2, HoldsBack
<1> QED BY <1>1, <1>3 DEF OneStart, Starting, StartCalled, StartCall

\* A stream that does not play will not, unless a start is on its way.
LEMMA NotRunningStays ==
    ASSUME DataWell, OneStart, [DataNext]_dataVars, ~Running
    PROVE  ~Running' \/ (Starting /\ ~Starting' /\ ops' = ops /\ ops # 0)
BY StateMoves, ToldOnce DEF Running, OwnStates

LEMMA FreshStays == ASSUME DataWell, Fresh, ~Running', [DataNext]_dataVars PROVE Fresh'
<1>0. Sizes
  BY WellParts
<1>1. lpc' \in FreshPcs /\ DataMove
  <2>1. CASE LoopTurn
    BY <1>0, <2>1, LoopSteps, DataMoves DEF LoopMove, Fresh
  <2>2. CASE Takes
    BY <1>0, <2>2, TakesIs, DataMoves DEF Plays, Fresh
  <2>3. CASE Answers \/ Tells \/ Idles
    BY <1>0, <2>3, AnswersIs, TellsIs, IdlesIs, DataMoves DEF loopVars, Fresh
  <2>4. ASSUME NEW a \in Apps, AppTurn(a) PROVE lpc' = lpc
    BY <2>4, AppClears DEF AppTurn, Still, Clears
  <2>5. ASSUME NEW a \in Apps, NEW o \in Ops, CallTurn(a, o) PROVE lpc' = lpc
    BY <2>5, CallTurnIs DEF loopVars
  <2> QED BY <1>0, <2>1, <2>2, <2>3, <2>4, <2>5, Turns, DataMoves DEF Fresh
<1>2. /\ queue = <<>> /\ temp = <<>> /\ ring = <<>> /\ taken = 0 /\ nextFrame = 1
      /\ lpc \in FreshPcs
  BY DEF Fresh
<1>3. Len(temp) = 0 /\ Len(ring) = 0
  BY <1>2
<1>4. Kept \/ Clears
  BY <1>1, <1>2, <1>3 DEF DataMove, LoopData, Pops, Repushes, Drops, Provides, FreshPcs, ParkedPcs
<1> QED BY <1>1, <1>2, <1>4 DEF Fresh, Kept, Clears

LEMMA FreshKept ==
    ASSUME DataWell, FreshUntilStart, ~restarted', [DataNext]_dataVars
    PROVE  FreshUntilStart'
<1>0. OneStart /\ Sizes /\ ops \in Nat
  BY WellParts DEF FreshUntilStart, Control, ControlTypes, ControlTypeOK
<1>1. /\ OneStart'
      /\ \/ ops' = ops /\ (Starting' => Starting)
         \/ ops' > 0 /\ (Starting' => Starting \/ ops = 0)
  BY <1>0, StartKept
<1>2. ASSUME ops' = 0 \/ Starting' PROVE Fresh'
  <2>1. (ops = 0 \/ Starting) /\ Fresh
    BY <1>0, <1>1, <1>2 DEF FreshUntilStart
  <2>2. ~Running'
    BY <1>0, <1>2, <2>1, NotRunningStays DEF Fresh
  <2> QED BY <2>1, <2>2, FreshStays
<1> QED BY <1>1, <1>2 DEF FreshUntilStart

-----------------------------------------------------------------------------
(* Order.  Frames that are before the engine, in the ring, in the buffer    *)
(* being written and in the queue, follow each other.  The push back of a   *)
(* buffer breaks the order of the queue; it happens to a stream that does   *)
(* not play, and will not unless it is started again.                       *)

Rises(s) == \A i, j \in 1 .. Len(s) : i < j => s[i] < s[j]
Between(m, s, n) == \A i \in 1 .. Len(s) : m < s[i] /\ s[i] < n
Follows(s, t) == \A i \in 1 .. Len(s), j \in 1 .. Len(t) : s[i] < t[j]

Parked == ~Running /\ lpc \in ParkedPcs

FrontInOrder ==
    /\ taken < nextFrame
    /\ Rises(ring) /\ Between(taken, ring, nextFrame)
    /\ Rises(temp) /\ Between(taken, temp, nextFrame)
    /\ Follows(ring, temp)

BufferInOrder(k) ==
    /\ Rises(queue[k]) /\ Between(taken, queue[k], nextFrame)
    /\ Follows(ring, queue[k]) /\ Follows(temp, queue[k])

QueueInOrder ==
    /\ \A k \in 1 .. Len(queue) : BufferInOrder(k)
    /\ \A k, m \in 1 .. Len(queue) : k < m => Follows(queue[k], queue[m])

InOrder == FrontInOrder /\ (Parked \/ QueueInOrder)

\* Frames are numbers.
LEMMA FramesAre ==
    ASSUME DataTypes, Sizes
    PROVE  /\ taken \in Nat /\ nextFrame \in Nat /\ nextFrame >= 1 /\ Cb \in Nat \ {0}
           /\ Len(ring) \in Nat /\ \A i \in 1 .. Len(ring) : ring[i] \in Nat
           /\ Len(temp) \in Nat /\ \A i \in 1 .. Len(temp) : temp[i] \in Nat
           /\ Len(queue) \in Nat
           /\ \A k \in 1 .. Len(queue) : /\ queue[k] \in Buffers /\ Len(queue[k]) \in Nat
                                         /\ \A i \in 1 .. Len(queue[k]) : queue[k][i] \in Nat
<1>1. ASSUME NEW s \in Buffers PROVE Len(s) \in Nat /\ \A i \in 1 .. Len(s) : s[i] \in Nat
  <2> DEFINE S == 1 .. MaxFrames
  <2> HIDE DEF S
  <2>1. s \in Seq(S)
    BY DEF Buffers, S
  <2>2. Len(s) \in Nat /\ \A i \in 1 .. Len(s) : s[i] \in S
    BY <2>1
  <2>3. \A x \in S : x \in Nat
    BY DEF S
  <2> QED BY <2>2, <2>3
<1>2. Len(queue) \in Nat /\ \A k \in 1 .. Len(queue) : queue[k] \in Buffers
  BY DEF DataTypes
<1>3. taken \in Nat /\ nextFrame \in Nat /\ nextFrame >= 1 /\ Cb \in Nat \ {0}
      /\ ring \in Buffers /\ temp \in Buffers
  BY DEF DataTypes, Sizes
<1> QED BY <1>1, <1>2, <1>3

LEMMA OrderOfPops ==
    ASSUME DataTypes, Sizes, FrontInOrder, QueueInOrder, Pops
    PROVE  FrontInOrder' /\ QueueInOrder'
<1>1. /\ queue # <<>> /\ queue \in Seq(Buffers) /\ temp' = queue[1]
      /\ queue' = Tail(queue) /\ UNCHANGED <<ring, nextFrame, taken>>
  BY DEF DataTypes, Pops
<1>2. /\ Len(queue) \in Nat \ {0} /\ Len(queue') = Len(queue) - 1
      /\ \A k \in 1 .. Len(queue) - 1 : queue'[k] = queue[k + 1]
  BY <1>1
<1>3. 1 \in 1 .. Len(queue) /\ \A k \in 1 .. Len(queue') : k + 1 \in 1 .. Len(queue) /\ 1 < k + 1
  BY <1>2
<1>4. FrontInOrder'
  BY <1>1, <1>3 DEF FrontInOrder, QueueInOrder, BufferInOrder
<1>5. ASSUME NEW k \in 1 .. Len(queue') PROVE BufferInOrder(k)'
  <2>1. BufferInOrder(k + 1) /\ Follows(queue[1], queue[k + 1]) /\ queue'[k] = queue[k + 1]
    BY <1>2, <1>3 DEF QueueInOrder
  <2> QED BY <1>1, <2>1 DEF BufferInOrder
<1>6. ASSUME NEW k \in 1 .. Len(queue'), NEW m \in 1 .. Len(queue'), k < m
      PROVE  Follows(queue'[k], queue'[m])
  BY <1>2, <1>3, <1>6 DEF QueueInOrder
<1> QED BY <1>4, <1>5, <1>6 DEF QueueInOrder

LEMMA OrderOfProvides ==
    ASSUME DataTypes, Sizes, FrontInOrder, QueueInOrder, Provides
    PROVE  FrontInOrder' /\ QueueInOrder'
<1>0. /\ taken \in Nat /\ nextFrame \in Nat /\ nextFrame >= 1 /\ Cb \in Nat \ {0}
      /\ Len(ring) \in Nat /\ \A i \in 1 .. Len(ring) : ring[i] \in Nat
      /\ Len(temp) \in Nat /\ \A i \in 1 .. Len(temp) : temp[i] \in Nat
      /\ Len(queue) \in Nat
      /\ \A k \in 1 .. Len(queue) : /\ queue[k] \in Buffers /\ Len(queue[k]) \in Nat
                                    /\ \A i \in 1 .. Len(queue[k]) : queue[k][i] \in Nat
  BY FramesAre
<1>1. PICK buf \in Buffers :
        /\ Len(buf) = Cb /\ queue' = Append(queue, buf)
        /\ \A i \in 1 .. Cb : buf[i] = nextFrame + i - 1
  BY ProvideIs
<1>2. nextFrame' = nextFrame + Cb /\ UNCHANGED <<temp, ring, taken>>
  BY DEF Provides
<1>3. /\ Len(queue') = Len(queue) + 1 /\ queue'[Len(queue) + 1] = buf
      /\ \A k \in 1 .. Len(queue) : queue'[k] = queue[k]
  BY <1>1 DEF DataTypes
<1>4. /\ nextFrame < nextFrame' /\ nextFrame' \in Nat
      /\ \A i \in 1 .. Len(buf) : nextFrame <= buf[i] /\ buf[i] < nextFrame' /\ buf[i] \in Nat
      /\ \A i, j \in 1 .. Len(buf) : i < j => buf[i] < buf[j]
  BY <1>0, <1>1, <1>2
<1>5. ASSUME NEW s, Len(s) \in Nat, \A i \in 1 .. Len(s) : s[i] \in Nat,
             Between(taken, s, nextFrame)
      PROVE  Between(taken, s, nextFrame') /\ Follows(s, buf)
  <2>1. ASSUME NEW i \in 1 .. Len(s) PROVE taken < s[i] /\ s[i] < nextFrame'
    <3>1. s[i] \in Nat /\ taken < s[i] /\ s[i] < nextFrame
      BY <1>5 DEF Between
    <3> QED BY <1>0, <1>4, <3>1
  <2>2. ASSUME NEW i \in 1 .. Len(s), NEW j \in 1 .. Len(buf) PROVE s[i] < buf[j]
    <3>1. s[i] \in Nat /\ s[i] < nextFrame /\ nextFrame <= buf[j] /\ buf[j] \in Nat
      BY <1>4, <1>5 DEF Between
    <3> QED BY <1>0, <3>1
  <2> QED BY <2>1, <2>2 DEF Between, Follows
<1>6. ASSUME NEW k \in 1 .. Len(queue) PROVE BufferInOrder(k)' /\ Follows(queue[k], buf)
  <2>1. BufferInOrder(k) /\ queue'[k] = queue[k]
    BY <1>3 DEF QueueInOrder
  <2>2. Between(taken, queue[k], nextFrame') /\ Follows(queue[k], buf)
    BY <1>0, <1>5, <2>1 DEF BufferInOrder
  <2> QED BY <1>2, <2>1, <2>2 DEF BufferInOrder
<1>7. ASSUME NEW k \in 1 .. Len(queue'), k = Len(queue) + 1 PROVE BufferInOrder(k)'
  <2>0. queue'[k] = buf
    BY <1>3, <1>7
  <2>1. Rises(buf)
    BY <1>4 DEF Rises
  <2>2. Between(taken, buf, nextFrame')
    <3>1. taken < nextFrame
      BY DEF FrontInOrder
    <3> QED BY <1>0, <1>4, <3>1 DEF Between
  <2>3. Follows(ring, buf) /\ Follows(temp, buf)
    BY <1>0, <1>5 DEF FrontInOrder
  <2> QED BY <1>2, <2>0, <2>1, <2>2, <2>3 DEF BufferInOrder
<1>8. \A k \in 1 .. Len(queue') : k \in 1 .. Len(queue) \/ k = Len(queue) + 1
  BY <1>0, <1>3
<1>9. ASSUME NEW k \in 1 .. Len(queue'), NEW m \in 1 .. Len(queue'), k < m
      PROVE  Follows(queue'[k], queue'[m])
  <2>1. k \in 1 .. Len(queue)
    BY <1>0, <1>3, <1>9
  <2>2. CASE m \in 1 .. Len(queue)
    BY <1>3, <1>9, <2>1, <2>2 DEF QueueInOrder
  <2>3. CASE m = Len(queue) + 1
    BY <1>3, <1>6, <2>1, <2>3
  <2> QED BY <1>8, <2>2, <2>3
<1>10. FrontInOrder'
  <2>1. Between(taken, ring, nextFrame') /\ Between(taken, temp, nextFrame')
    BY <1>0, <1>5 DEF FrontInOrder
  <2>2. taken < nextFrame'
    <3>1. taken < nextFrame
      BY DEF FrontInOrder
    <3> QED BY <1>0, <1>4, <3>1
  <2> QED BY <1>2, <2>1, <2>2 DEF FrontInOrder
<1>11. ASSUME NEW k \in 1 .. Len(queue') PROVE BufferInOrder(k)'
  BY <1>6, <1>7, <1>8
<1> QED BY <1>9, <1>10, <1>11 DEF QueueInOrder

LEMMA OrderOfCopies ==
    ASSUME DataTypes, Sizes, FrontInOrder, NEW n \in 1 .. Len(temp), Copies(n)
    PROVE  FrontInOrder' /\ (QueueInOrder => QueueInOrder')
<1>0. /\ Len(ring) \in Nat /\ \A i \in 1 .. Len(ring) : ring[i] \in Nat
      /\ Len(temp) \in Nat /\ \A i \in 1 .. Len(temp) : temp[i] \in Nat
  BY FramesAre
<1>1. UNCHANGED <<queue, nextFrame, taken>>
  BY DEF Copies
<1>2. /\ Len(ring') = Len(ring) + n /\ Len(temp') = Len(temp) - n
      /\ \A i \in 1 .. Len(ring) : ring'[i] = ring[i]
      /\ \A i \in 1 .. n : ring'[Len(ring) + i] = temp[i]
      /\ \A i \in 1 .. Len(temp) - n : temp'[i] = temp[n + i]
  BY CopyIs
<1>3. \A i \in 1 .. Len(ring') : \/ i \in 1 .. Len(ring) /\ ring'[i] = ring[i]
                                 \/ \E j \in 1 .. n : i = Len(ring) + j /\ ring'[i] = temp[j]
  <2> SUFFICES ASSUME NEW i \in 1 .. Len(ring'), i \notin 1 .. Len(ring)
               PROVE  \E j \in 1 .. n : i = Len(ring) + j /\ ring'[i] = temp[j]
    BY <1>2
  <2>1. i - Len(ring) \in 1 .. n /\ i = Len(ring) + (i - Len(ring))
    BY <1>0, <1>2
  <2>2. ring'[Len(ring) + (i - Len(ring))] = temp[i - Len(ring)]
    BY <1>2, <2>1, Zenon
  <2> QED BY <2>1, <2>2
<1>4. \A i \in 1 .. Len(temp') : n + i \in 1 .. Len(temp) /\ temp'[i] = temp[n + i]
  BY <1>0, <1>2
<1>5. \A j \in 1 .. n : j \in 1 .. Len(temp)
  BY <1>0
<1>6. Rises(ring')
  <2> SUFFICES ASSUME NEW i \in 1 .. Len(ring'), NEW j \in 1 .. Len(ring'), i < j
               PROVE  ring'[i] < ring'[j]
    BY DEF Rises
  <2>0. Rises(ring) /\ Rises(temp) /\ Follows(ring, temp)
    BY DEF FrontInOrder
  <2>1. CASE j \in 1 .. Len(ring)
    <3>1. i \in 1 .. Len(ring)
      BY <2>1
    <3>2. ring[i] < ring[j]
      BY <2>0, <2>1, <3>1 DEF Rises
    <3> QED BY <1>2, <2>1, <3>1, <3>2
  <2>2. CASE j \notin 1 .. Len(ring)
    <3>1. PICK m \in 1 .. n : j = Len(ring) + m /\ ring'[j] = temp[m]
      BY <1>3, <2>2
    <3>2. CASE i \in 1 .. Len(ring)
      <4>1. ring[i] < temp[m]
        BY <1>5, <2>0, <3>2 DEF Follows
      <4> QED BY <1>2, <3>1, <3>2, <4>1
    <3>3. CASE i \notin 1 .. Len(ring)
      <4>1. PICK k \in 1 .. n : i = Len(ring) + k /\ ring'[i] = temp[k]
        BY <1>3, <3>3
      <4>2. k < m
        BY <1>0, <3>1, <4>1
      <4>3. temp[k] < temp[m]
        BY <1>5, <2>0, <4>2 DEF Rises
      <4> QED BY <3>1, <4>1, <4>3
    <3> QED BY <3>2, <3>3
  <2> QED BY <2>1, <2>2
<1>7. Rises(temp')
  <2> SUFFICES ASSUME NEW i \in 1 .. Len(temp'), NEW j \in 1 .. Len(temp'), i < j
               PROVE  temp'[i] < temp'[j]
    BY DEF Rises
  <2>1. n + i \in 1 .. Len(temp) /\ n + j \in 1 .. Len(temp) /\ n + i < n + j
    BY <1>0, <1>4
  <2>2. temp[n + i] < temp[n + j]
    BY <2>1 DEF FrontInOrder, Rises
  <2> QED BY <1>4, <2>2
<1>8. Between(taken, ring', nextFrame) /\ Between(taken, temp', nextFrame)
  BY <1>3, <1>4, <1>5 DEF FrontInOrder, Between
<1>9. Follows(ring', temp')
  <2> SUFFICES ASSUME NEW i \in 1 .. Len(ring'), NEW j \in 1 .. Len(temp') PROVE ring'[i] < temp'[j]
    BY DEF Follows
  <2>1. n + j \in 1 .. Len(temp) /\ temp'[j] = temp[n + j]
    BY <1>4
  <2>2. CASE i \in 1 .. Len(ring) /\ ring'[i] = ring[i]
    BY <2>1, <2>2 DEF FrontInOrder, Follows
  <2>3. ASSUME NEW k \in 1 .. n, ring'[i] = temp[k] PROVE ring'[i] < temp'[j]
    BY <1>0, <1>2, <1>5, <2>1, <2>3 DEF FrontInOrder, Rises
  <2> QED BY <1>3, <2>2, <2>3
<1>10. FrontInOrder'
  BY <1>1, <1>6, <1>7, <1>8, <1>9 DEF FrontInOrder
<1>11. ASSUME QueueInOrder PROVE QueueInOrder'
  <2>1. ASSUME NEW k \in 1 .. Len(queue) PROVE BufferInOrder(k)'
    <3>1. BufferInOrder(k)
      BY <1>11 DEF QueueInOrder
    <3>2. Follows(ring', queue[k]) /\ Follows(temp', queue[k])
      BY <1>3, <1>4, <1>5, <3>1 DEF BufferInOrder, Follows
    <3> QED BY <1>1, <3>1, <3>2 DEF BufferInOrder
  <2> QED BY <1>1, <1>11, <2>1 DEF QueueInOrder
<1> QED BY <1>10, <1>11

LEMMA OrderOfPlays ==
    ASSUME DataTypes, Sizes, FrontInOrder, NEW n \in 1 .. Len(ring), Plays(n)
    PROVE  FrontInOrder' /\ (QueueInOrder => QueueInOrder') /\ taken < taken'
<1>0. /\ Len(ring) \in Nat /\ \A i \in 1 .. Len(ring) : ring[i] \in Nat
      /\ taken \in Nat /\ nextFrame \in Nat
  BY FramesAre
<1>1. /\ Len(ring') = Len(ring) - n /\ taken' = ring[n]
      /\ UNCHANGED <<queue, temp, nextFrame>>
      /\ \A i \in 1 .. Len(ring) - n : ring'[i] = ring[n + i]
  BY PlayIs
<1>2. \A i \in 1 .. Len(ring') : n + i \in 1 .. Len(ring) /\ n < n + i /\ ring'[i] = ring[n + i]
  BY <1>0, <1>1
<1>3. taken < taken' /\ taken' < nextFrame
  BY <1>0, <1>1 DEF FrontInOrder, Between
<1>4. Rises(ring')
  <2> SUFFICES ASSUME NEW i \in 1 .. Len(ring'), NEW j \in 1 .. Len(ring'), i < j
               PROVE  ring'[i] < ring'[j]
    BY DEF Rises
  <2>1. n + i \in 1 .. Len(ring) /\ n + j \in 1 .. Len(ring) /\ n + i < n + j
    BY <1>0, <1>2
  <2>2. ring[n + i] < ring[n + j]
    BY <2>1 DEF FrontInOrder, Rises
  <2> QED BY <1>2, <2>2
<1>5. Between(taken', ring', nextFrame)
  BY <1>1, <1>2 DEF FrontInOrder, Rises, Between
<1>6. Between(taken', temp, nextFrame) /\ Follows(ring', temp)
  BY <1>1, <1>2 DEF FrontInOrder, Follows, Between
<1>7. FrontInOrder'
  BY <1>1, <1>3, <1>4, <1>5, <1>6 DEF FrontInOrder
<1>8. ASSUME QueueInOrder PROVE QueueInOrder'
  <2>1. ASSUME NEW k \in 1 .. Len(queue) PROVE BufferInOrder(k)'
    <3>1. BufferInOrder(k)
      BY <1>8 DEF QueueInOrder
    <3>2. Between(taken', queue[k], nextFrame) /\ Follows(ring', queue[k])
      BY <1>1, <1>2, <3>1 DEF BufferInOrder, Follows, Between
    <3> QED BY <1>1, <3>1, <3>2 DEF BufferInOrder
  <2> QED BY <1>1, <1>8, <2>1 DEF QueueInOrder
<1> QED BY <1>3, <1>7, <1>8

\* A step and the order.
LEMMA OrderMoves ==
    ASSUME DataTypes, Sizes, FrontInOrder, DataMove, QueueInOrder \/ lpc \in ParkedPcs
    PROVE  FrontInOrder' /\ (QueueInOrder => QueueInOrder' \/ Repushes)
<1>0. Len(<<>>) = 0
  OBVIOUS
<1>1. CASE Kept
  BY <1>1 DEF Kept, FrontInOrder, QueueInOrder, BufferInOrder
<1>2. CASE Pops
  BY <1>2, OrderOfPops DEF Pops, ParkedPcs
<1>3. CASE Repushes \/ Drops
  <2>1. temp' = <<>> /\ UNCHANGED <<ring, nextFrame, taken>> /\ (queue' = queue \/ Repushes)
    BY <1>3 DEF Repushes, Drops
  <2>2. FrontInOrder'
    BY <2>1 DEF FrontInOrder, Rises, Between, Follows
  <2>3. QueueInOrder /\ queue' = queue => QueueInOrder'
    BY <2>1 DEF QueueInOrder, BufferInOrder, Follows
  <2> QED BY <2>1, <2>2, <2>3
<1>4. CASE Provides
  BY <1>4, OrderOfProvides DEF Provides, ParkedPcs
<1>5. CASE Clears
  <2>1. UNCHANGED <<temp, nextFrame, taken>> /\ queue' \in {queue, <<>>} /\ ring' \in {ring, <<>>}
    BY <1>5 DEF Clears
  <2>2. FrontInOrder'
    BY <2>1 DEF FrontInOrder, Rises, Between, Follows
  <2>3. ASSUME QueueInOrder PROVE QueueInOrder'
    <3>1. CASE queue' = <<>>
      BY <3>1 DEF QueueInOrder
    <3>2. CASE queue' = queue /\ ring' = ring
      BY <2>1, <2>3, <3>2 DEF QueueInOrder, BufferInOrder
    <3>3. CASE queue' = queue /\ ring' = <<>>
      BY <2>1, <2>3, <3>3 DEF QueueInOrder, BufferInOrder, Follows
    <3> QED BY <2>1, <3>1, <3>2, <3>3
  <2> QED BY <2>2, <2>3
<1>6. ASSUME NEW n \in 1 .. Len(temp), Copies(n) PROVE FrontInOrder' /\ (QueueInOrder => QueueInOrder')
  BY <1>6, OrderOfCopies
<1>7. ASSUME NEW n \in 1 .. Len(ring), Plays(n) PROVE FrontInOrder' /\ (QueueInOrder => QueueInOrder')
  BY <1>7, OrderOfPlays
<1> QED BY <1>1, <1>2, <1>3, <1>4, <1>5, <1>6, <1>7 DEF DataMove, LoopData

\* A parked loop stays parked until the stream plays.
LEMMA ParkedStays ==
    ASSUME DataWell, [DataNext]_dataVars, Parked, ~Running'
    PROVE  Parked'
<1>1. CASE LoopTurn
  BY <1>1, LoopSteps, WellParts DEF LoopMove, Parked
<1>2. CASE Takes \/ Answers \/ Tells \/ Idles
  BY <1>2, WellParts, TakesIs, AnswersIs, TellsIs, IdlesIs DEF Plays, loopVars, Parked
<1>3. ASSUME NEW a \in Apps, AppTurn(a) PROVE Parked'
  BY <1>3, AppClears DEF AppTurn, Still, Clears, Parked
<1>4. ASSUME NEW a \in Apps, NEW o \in Ops, CallTurn(a, o) PROVE Parked'
  BY <1>4, CallTurnIs DEF loopVars, Parked
<1> QED BY <1>1, <1>2, <1>3, <1>4, Turns

\* Only a step of the loop pushes back.
LEMMA RepushStops ==
    ASSUME DataWell, [DataNext]_dataVars, Repushes
    PROVE  ~Running' /\ lpc' \in ParkedPcs
<1>0. Sizes /\ lpc' # lpc /\ lpc' = "idlewait" /\ ~Running
  BY WellParts DEF Repushes
<1>1. CASE LoopTurn
  BY <1>0, <1>1, LoopSteps DEF LoopMove, Spares, Running, ParkedPcs
<1>2. CASE Takes \/ Answers \/ Tells \/ Idles
  BY <1>0, <1>2, TakesIs, AnswersIs, TellsIs, IdlesIs DEF Plays, loopVars
<1>3. ASSUME NEW a \in Apps, AppTurn(a) PROVE FALSE
  BY <1>0, <1>3, AppClears DEF AppTurn, Still, Clears
<1>4. ASSUME NEW a \in Apps, NEW o \in Ops, CallTurn(a, o) PROVE FALSE
  BY <1>0, <1>4, CallTurnIs DEF loopVars
<1> QED BY <1>1, <1>2, <1>3, <1>4, Turns

LEMMA FreshInOrder == ASSUME Fresh PROVE FrontInOrder /\ QueueInOrder
BY DEF Fresh, FrontInOrder, QueueInOrder, Rises, Between, Follows

Forward == restarted \/ (FreshUntilStart /\ InOrder)

LEMMA ForwardKept ==
    ASSUME DataWell, Forward, [DataNext]_dataVars
    PROVE  Forward'
<1> SUFFICES ASSUME ~restarted' PROVE FreshUntilStart' /\ InOrder'
  BY DEF Forward
<1>0. DataTypes /\ Sizes /\ DataMove
  BY WellParts, DataMoves
<1>1. ~restarted
  <2>1. CASE LoopTurn
    BY <1>0, <2>1, LoopSteps DEF LoopMove, Spares
  <2>2. CASE Takes \/ Answers \/ Tells \/ Idles
    BY <1>0, <2>2, TakesIs, AnswersIs, TellsIs, IdlesIs
  <2>3. ASSUME NEW a \in Apps, AppTurn(a) PROVE ~restarted
    BY <2>3 DEF AppTurn, Still
  <2>4. ASSUME NEW a \in Apps, NEW o \in Ops, CallTurn(a, o) PROVE ~restarted
    BY <2>4, CallTurnIs
  <2> QED BY <2>1, <2>2, <2>3, <2>4, Turns
<1>2. FreshUntilStart /\ InOrder
  BY <1>1 DEF Forward
<1>3. FreshUntilStart'
  BY <1>2, FreshKept
<1>4. FrontInOrder' /\ (QueueInOrder => QueueInOrder' \/ Repushes)
  BY <1>0, <1>2, OrderMoves DEF InOrder, Parked
<1>5. ASSUME QueueInOrder PROVE Parked' \/ QueueInOrder'
  <2>1. Repushes => Parked'
    BY RepushStops DEF Parked
  <2> QED BY <1>4, <1>5, <2>1
<1>6. ASSUME Parked, ~QueueInOrder PROVE Parked' \/ QueueInOrder'
  <2>1. OneStart /\ ~Fresh
    BY <1>2, <1>6, FreshInOrder DEF FreshUntilStart
  <2>2. ~Running'
    BY <1>2, <1>6, <2>1, NotRunningStays DEF FreshUntilStart, Parked
  <2>3. Parked'
    BY <1>6, <2>2, ParkedStays
  <2> QED BY <2>3
<1>7. Parked' \/ QueueInOrder'
  BY <1>2, <1>5, <1>6 DEF InOrder
<1> QED BY <1>3, <1>4, <1>7 DEF InOrder

LEMMA ForwardStart == DataInit => Forward
<1> SUFFICES ASSUME DataInit PROVE FreshUntilStart /\ FrontInOrder /\ QueueInOrder
  BY DEF Forward, InOrder
<1>1. Fresh
  BY DEF DataInit, ControlInit, Fresh, Running, FreshPcs, ParkedPcs
<1>2. engine = <<>> /\ pending = <<>> /\ \A a \in Apps : pc[a] = "idle"
  BY DEF DataInit, ControlInit
<1>3. OneStart
  BY <1>2 DEF OneStart, Starting, StartCalled, StartCall, Holds, Once
<1> QED BY <1>1, <1>3, FreshInOrder DEF FreshUntilStart

\* What changes the last frame taken.
LEMMA TakenMoves ==
    ASSUME DataWell, [DataNext]_dataVars, taken' # taken
    PROVE  \E n \in 1 .. Len(ring) : Plays(n)
BY WellParts, DataMoves DEF DataMove, LoopData, Kept, Pops, Repushes, Drops, Provides, Clears, Copies

(* However calls, answers, time-outs, the engine and the callback loop      *)
(* interleave, and whatever the sizes of the buffers: until the stream is   *)
(* started again the engine plays no frame twice, and none after a later    *)
(* one.                                                                     *)
THEOREM AlwaysPlayedForward == DataSpec => PlayedForward
<1>1. DataInit => DataWell /\ Forward
  BY WellStart, ForwardStart
<1>2. DataWell /\ Forward /\ [DataNext]_dataVars => DataWell' /\ Forward'
  BY WellKept, ForwardKept
<1>3. DataWell /\ Forward /\ [DataNext]_dataVars =>
        [taken' # taken => restarted \/ taken' > taken]_dataVars
  <2> SUFFICES ASSUME DataWell, Forward, [DataNext]_dataVars, taken' # taken, ~restarted
               PROVE  taken' > taken
    OBVIOUS
  <2>1. PICK n \in 1 .. Len(ring) : Plays(n)
    BY TakenMoves
  <2>2. DataTypes /\ Sizes /\ FrontInOrder
    BY WellParts DEF Forward, InOrder
  <2>3. taken < taken' /\ taken \in Nat
    BY <2>1, <2>2, OrderOfPlays, FramesAre
  <2>4. taken' \in Nat
    BY <2>1, <2>2, PlayIs
  <2> QED BY <2>3, <2>4
<1> QED BY <1>1, <1>2, <1>3, PTL DEF DataSpec, PlayedForward

-----------------------------------------------------------------------------
(* No loss.  What a call does besides CallStep, ...                         *)

Finishes(a) ==
    /\ Goto(a, "idle") /\ pc[a] \in {"wake", "woken", "joining"}
    /\ wpc[a] = "idle" /\ wpc' = wpc /\ released' = released

Wakens(a) ==
    /\ Goto(a, "woken") /\ pc[a] = "wake" /\ op[a] # "start"
    /\ WakeCall(a) /\ released' = released

Exits(a) ==
    \/ Goto(a, "preexit") /\ pc[a] = "join" /\ released' /\ wpc' = wpc
    \/ Goto(a, "joining") /\ pc[a] = "preexit" /\ WakeCallExit(a) /\ released' = released

FutexRest == <<futexObj, fpc, tries, timedOut, fres>>

LEMMA AppKinds ==
    ASSUME NEW a \in Apps, AppTurn(a)
    PROVE  /\ lpc' = lpc /\ restarted' = restarted
           /\ \/ WakeStep(a) /\ UNCHANGED <<controlVars, loopVars>>
              \/ /\ CallStep(a) /\ wpc[a] = "idle" /\ UNCHANGED <<FutexRest, released>>
                 /\ (wpc' = wpc /\ ring' = ring) \/ (FlushesRing(a) /\ WakeCall(a))
              \/ /\ UNCHANGED <<state, op, ops, drained, engine, pending, ring, temp, FutexRest>>
                 /\ Finishes(a) \/ Wakens(a) \/ Exits(a)
<1> USE DEF AppTurn, Still, loopVars, futexVars, serverVars, FutexRest
<1>1. CASE ControlStep(a)
  BY <1>1 DEF ControlStep
<1>2. CASE NotifyLoop(a)
  BY <1>2 DEF NotifyLoop, Wake, Return, Finishes
<1>3. CASE Woken(a) \/ Joined(a)
  BY <1>3 DEF Woken, Joined, Return, Finishes
<1>4. CASE WakeWriter(a)
  BY <1>4 DEF WakeWriter, At, Wakens
<1>5. CASE StopLoop(a)
  BY <1>5 DEF StopLoop, Exits
<1>6. CASE PreExit(a)
  BY <1>6 DEF PreExit, Exits
<1>7. CASE Wakes(a)
  BY <1>7 DEF Wakes
<1> QED BY <1>1, <1>2, <1>3, <1>4, <1>5, <1>6, <1>7 DEF AppStep

\* ... and the way of a call through CallStep.
LEMMA CallWays ==
    ASSUME ControlTypes, DataPlaces, NEW a \in Apps, CallStep(a)
    PROVE  /\ pc'[a] \notin {"preexit", "joining", "woken", "lock"} /\ pc[a] # "idle"
           /\ \A b \in Apps \ {a} : pc'[b] = pc[b]
           /\ op' = op /\ ops' = ops
           /\ pc[a] = "lock" => Lock(a)
           /\ pc[a] = "wait" => Answered(a) \/ op[a] \in MayTimeOut
           /\ pc[a] = "ipc" /\ op[a] # "release" => Ask(a)
           /\ pc'[a] = "wake" => pc[a] = "wait" /\ Answered(a) /\ state' = state
           /\ op[a] \in {"pause", "release"} /\ pc'[a] = "ipc" => pc[a] = "lock"
           /\ op[a] = "release" /\ pc'[a] = "join" => pc[a] = "ipc"
           /\ pc'[a] = "undo" => op[a] = "start" /\ op[a] \in MayTimeOut
           /\ op[a] = "start" =>
                /\ state' = state /\ UNCHANGED <<drained, pending>>
                /\ pc[a] = "undo" \/ engine' \in {engine, Append(engine, "start")}
<1>0. pc \in [Apps -> CallPcs] /\ DataPlace(op[a], pc[a])
  BY DEF ControlTypes, ControlTypeOK, DataPlaces
<1> USE DEF DataPlace
<1>1. CASE Lock(a)
  BY <1>0, <1>1, DataLockIs DEF Locked
<1> USE DEF Goto, Return, serverVars
<1>2. CASE LockWrite(a)
  BY <1>0, <1>2 DEF LockWrite
<1>3. CASE Drain(a)
  BY <1>0, <1>3 DEF Drain
<1>4. CASE DrainWaitEnds(a)
  BY <1>0, <1>4 DEF DrainWaitEnds
<1>5. CASE MarkStopping(a)
  BY <1>0, <1>5 DEF MarkStopping
<1>6. CASE Ask(a)
  BY <1>0, <1>6 DEF Ask, ServerAccepts, ServerRefuses
<1>7. CASE FlushAnswered(a)
  BY <1>0, <1>7 DEF FlushAnswered, At
<1>8. CASE OtherAnswered(a)
  BY <1>0, <1>8 DEF OtherAnswered
<1>9. CASE TimeOut(a)
  BY <1>0, <1>9 DEF TimeOut
<1>10. CASE Undo(a)
  BY <1>0, <1>10 DEF Undo, ServerAccepts, ServerRefuses
<1>11. CASE Release(a)
  BY <1>0, <1>11 DEF Release, At
<1> QED BY <1>1, <1>2, <1>3, <1>4, <1>5, <1>6, <1>7, <1>8, <1>9, <1>10, <1>11 DEF CallStep

(* The word says that the loop is to end only when it has been told so.     *)
EndTold ==
    /\ futexObj = "PRE_EXIT" => released
    /\ \A a \in Apps : pc[a] \in {"preexit", "joining"} => released
    /\ \A w \in Wakers : wpc[w] = "exit" => released

LEMMA EndToldKept ==
    ASSUME DataWell, EndTold, [DataNext]_dataVars
    PROVE  EndTold' /\ (released => released')
<1>0. /\ Control /\ Sizes /\ pc \in [Apps -> CallPcs] /\ op \in [Apps -> Ops \cup {"none"}]
      /\ wpc \in [Wakers -> WakePcs] /\ Wakers = Apps \cup {Engine_} /\ Engine_ \notin Apps
      /\ ControlTypes /\ DataPlaces
  BY WellParts, WakersAre DEF Control, ControlTypes, ControlTypeOK, FutexWell, FutexTypeOK
<1> USE DEF EndTold
<1>1. CASE LoopTurn
  <2>1. UNCHANGED <<pc, released, wpc>>
    BY <1>0, <1>1, LoopSteps DEF LoopMove, Spares
  <2>2. futexObj' \in {futexObj, "NOT_READY"}
    BY <1>1, LoopFutex
       DEF futexVars, WaitBegin, WaitCas, WaitSys, WaitCheck, WaitRecheck, WaitExpire
  <2> QED BY <2>1, <2>2
<1>2. CASE Takes
  BY <1>0, <1>2, TakesIs DEF controlVars, clientVars
<1>3. CASE Answers \/ Tells
  BY <1>3, AnswersIs, TellsIs DEF clientVars, loopVars, futexVars, OnOperationHandled
<1>4. ASSUME NEW w \in Wakers, WakeStep(w), UNCHANGED <<pc, released>>
      PROVE  EndTold' /\ (released => released')
  BY <1>0, <1>4 DEF WakeStep, WakeCas, WakeExit, WakeSys, WakeGoto
<1>5. CASE Idles
  BY <1>0, <1>4, <1>5, IdlesIs DEF controlVars, clientVars, loopVars, futexVars
<1>6. ASSUME NEW a \in Apps, AppTurn(a) PROVE EndTold' /\ (released => released')
  <2>1. CASE WakeStep(a) /\ UNCHANGED <<controlVars, loopVars>>
    BY <1>0, <1>4, <2>1 DEF controlVars, clientVars, loopVars
  <2>2. CASE CallStep(a) /\ UNCHANGED <<FutexRest, released>> /\ (wpc' = wpc \/ WakeCall(a))
    BY <1>0, <2>2, CallWays DEF FutexRest, WakeCall, WakeGoto
  <2>3. CASE UNCHANGED FutexRest /\ (Finishes(a) \/ Wakens(a) \/ Exits(a))
    BY <1>0, <2>3 DEF FutexRest, Finishes, Wakens, Exits, Goto, WakeCall, WakeCallExit, WakeGoto
  <2> QED BY <1>6, <2>1, <2>2, <2>3, AppKinds
<1>7. ASSUME NEW a \in Apps, NEW o \in Ops, CallTurn(a, o) PROVE EndTold' /\ (released => released')
  BY <1>0, <1>7, CallTurnIs DEF Call, Goto, futexVars, loopVars
<1> QED BY <1>1, <1>2, <1>3, <1>5, <1>6, <1>7, Turns

(* A thread wakes the writer in Stop and Flush, which hold writeMutex_, at  *)
(* the end of Pause, and in Release.  (Only of a refused Flush that is not  *)
(* true: the ring has been emptied, and the call returns.)                  *)
AppWakes ==
    \A a \in Apps : wpc[a] # "idle" =>
        \/ HasWrite(op[a], pc[a])
        \/ op[a] = "pause" /\ pc[a] = "woken"
        \/ op[a] = "release" /\ pc[a] = "joining"

LEMMA AppWakesKept ==
    ASSUME DataWell, AppWakes, MayRefuse => "flush" \notin Ops, [DataNext]_dataVars
    PROVE  AppWakes'
<1>0. /\ Control /\ Sizes /\ pc \in [Apps -> CallPcs] /\ op \in [Apps -> Ops \cup {"none"}]
      /\ wpc \in [Wakers -> WakePcs] /\ Wakers = Apps \cup {Engine_} /\ Engine_ \notin Apps
      /\ ControlTypes /\ DataPlaces
  BY WellParts, WakersAre DEF Control, ControlTypes, ControlTypeOK, FutexWell, FutexTypeOK
<1> USE DEF AppWakes
<1>1. CASE LoopTurn
  BY <1>0, <1>1, LoopSteps DEF LoopMove, Spares
<1>2. CASE Takes
  BY <1>0, <1>2, TakesIs DEF controlVars, clientVars
<1>3. CASE Answers \/ Tells
  BY <1>3, AnswersIs, TellsIs DEF clientVars, futexVars, OnOperationHandled
<1>4. ASSUME NEW w \in Wakers, WakeStep(w), UNCHANGED <<pc, op>> PROVE AppWakes'
  BY <1>0, <1>4 DEF WakeStep, WakeCas, WakeExit, WakeSys, WakeGoto
<1>5. CASE Idles
  BY <1>0, <1>4, <1>5, IdlesIs DEF controlVars, clientVars, loopVars, futexVars
<1>6. ASSUME NEW a \in Apps, AppTurn(a) PROVE AppWakes'
  <2>1. CASE WakeStep(a) /\ UNCHANGED <<controlVars, loopVars>>
    BY <1>0, <1>4, <2>1 DEF controlVars, clientVars, loopVars
  <2>2. CASE CallStep(a) /\ wpc[a] = "idle" /\ wpc' = wpc
    BY <1>0, <2>2, CallWays
  <2>3. CASE CallStep(a) /\ FlushesRing(a) /\ WakeCall(a)
    <3>1. op[a] = "flush" /\ pc[a] = "ipc" /\ status' # status /\ ~MayRefuse
      BY <1>0, <2>3 DEF FlushesRing, At
    <3>2. pc'[a] = "wait" /\ op' = op /\ \A b \in Apps \ {a} : pc'[b] = pc[b]
      <4>1. Ask(a) /\ op' = op /\ \A b \in Apps \ {a} : pc'[b] = pc[b]
        BY <1>0, <2>3, <3>1, CallWays
      <4> QED BY <1>0, <3>1, <4>1 DEF Ask, ServerRefuses, Goto
    <3>3. \A b \in Apps \ {a} : wpc'[b] = wpc[b]
      BY <1>0, <2>3 DEF WakeCall, WakeGoto
    <3> QED BY <3>1, <3>2, <3>3 DEF HasWrite
  <2>4. CASE op' = op /\ (Finishes(a) \/ Wakens(a) \/ Exits(a))
    <3>1. DataPlace(op[a], pc[a])
      BY <1>0 DEF DataPlaces
    <3> QED BY <1>0, <2>4, <3>1
         DEF Finishes, Wakens, Exits, Goto, WakeCall, WakeCallExit, WakeGoto, HasWrite, DataPlace
  <2> QED BY <1>6, <2>1, <2>2, <2>3, <2>4, AppKinds
<1>7. ASSUME NEW a \in Apps, NEW o \in Ops, CallTurn(a, o) PROVE AppWakes'
  BY <1>0, <1>7, CallTurnIs DEF Call, Goto, futexVars
<1> QED BY <1>1, <1>2, <1>3, <1>5, <1>6, <1>7, Turns

(* As long as Start has not asked the server, nobody has; and a start that  *)
(* the server has been asked for is that of a call that waits for it.       *)
NotAsked == ops = 0 \/ \E a \in Apps : op[a] = "start" /\ pc[a] = "lock"

QuietPlace(o, l) ==
    \/ l \in {"idle", "lock", "wlock", "join", "preexit", "joining"}
    \/ o = "stop" /\ l = "mark"
    \/ o = "release" /\ l = "ipc"

Untouched ==
    /\ state \in {"PREPARED", "RELEASED"}
    /\ engine = <<>> /\ pending = <<>> /\ ~drained
    /\ \A a \in Apps : QuietPlace(op[a], pc[a])

StartWaits == \E a \in Apps : op[a] = "start" /\ pc[a] = "wait"

StartAsked ==
    /\ ops = 0 => \A a \in Apps : pc[a] = "idle"
    /\ NotAsked => Untouched
    /\ Holds(engine, "start") \/ Holds(pending, "start") => StartWaits

LEMMA UntouchedCall ==
    ASSUME ControlTypes, DataPlaces, Untouched, NEW a \in Apps, CallStep(a)
    PROVE  /\ engine' = <<>> /\ UNCHANGED <<pending, drained>>
           /\ state' \in {state, "RELEASED"}
           /\ \/ QuietPlace(op[a], pc'[a])
              \/ op[a] = "start" /\ pc[a] = "lock" /\ state = "PREPARED"
<1>0. /\ pc \in [Apps -> CallPcs] /\ DataPlace(op[a], pc[a]) /\ QuietPlace(op[a], pc[a])
      /\ state \in {"PREPARED", "RELEASED"} /\ engine = <<>>
  BY DEF ControlTypes, ControlTypeOK, DataPlaces, Untouched
<1>1. Lock(a) \/ LockWrite(a) \/ MarkStopping(a) \/ Release(a)
  <2>1. pc[a] \notin {"drain", "drainwait", "wait", "undo"} /\ (pc[a] = "ipc" => op[a] = "release")
    BY <1>0 DEF QuietPlace
  <2> QED BY <2>1 DEF CallStep, Drain, DrainWaitEnds, Ask, FlushAnswered, At, OtherAnswered, TimeOut, Undo
<1> USE DEF QuietPlace
<1>2. CASE Lock(a)
  BY <1>0, <1>2, DataLockIs DEF Locked
<1>3. CASE LockWrite(a)
  <2>1. op[a] \in {"stop", "flush"} /\ pc[a] = "wlock"
    BY <1>0, <1>3 DEF LockWrite, DataPlace
  <2> QED BY <1>0, <1>3, <2>1 DEF LockWrite, Goto, Return, serverVars
<1>4. CASE MarkStopping(a)
  BY <1>0, <1>4 DEF MarkStopping, Goto, Return, serverVars
<1>5. CASE Release(a)
  BY <1>0, <1>5 DEF Release, ServerRelease, At, Goto
<1> QED BY <1>1, <1>2, <1>3, <1>4, <1>5

LEMMA StartAskedKept ==
    ASSUME DataWell, FreshUntilStart, StartAsked, ~restarted', [DataNext]_dataVars,
           "start" \notin MayTimeOut
    PROVE  StartAsked'
<1>0. /\ Control /\ Sizes /\ pc \in [Apps -> CallPcs] /\ op \in [Apps -> Ops \cup {"none"}]
      /\ ControlTypes /\ DataPlaces /\ OneStart /\ ops \in Nat
      /\ engine \in Seq(Requests) /\ pending \in Seq(Requests)
  BY WellParts DEF Control, ControlTypes, ControlTypeOK, FreshUntilStart, Requests
<1>1. OneStart' /\ (Starting' => Starting \/ ops = 0)
  BY <1>0, StartKept
<1>2. ASSUME UNCHANGED <<state, pc, op, ops, engine, pending, drained>> PROVE StartAsked'
  BY <1>2 DEF StartAsked, NotAsked, Untouched, StartWaits
\* What the engine and its answers change.
<1>3. ASSUME UNCHANGED <<pc, op, ops>>, ~NotAsked PROVE StartAsked'
  <2>1. StartCalled' <=> StartCalled
    BY <1>3 DEF StartCalled, StartCall
  <2>2. Holds(engine', "start") \/ Holds(pending', "start") =>
          Holds(engine, "start") \/ Holds(pending, "start")
    <3>1. Starting' => Starting
      BY <1>1, <1>3 DEF NotAsked
    <3> QED BY <1>1, <2>1, <3>1 DEF OneStart, Starting
  <2> QED BY <1>3, <2>2 DEF StartAsked, NotAsked, StartWaits
<1>4. CASE LoopTurn
  BY <1>0, <1>2, <1>4, LoopSteps DEF LoopMove, Spares, serverVars
<1>5. CASE Takes \/ Idles
  BY <1>0, <1>2, <1>5, TakesIs, IdlesIs DEF controlVars, clientVars, serverVars
<1>6. CASE Answers
  <2>1. UNCHANGED <<pc, op, ops>> /\ Engine
    BY <1>6, AnswersIs DEF clientVars
  <2>2. ~Untouched
    BY <2>1 DEF Untouched, Engine, DrainEnds
  <2> QED BY <1>3, <2>1, <2>2 DEF StartAsked
<1>7. CASE Tells
  <2>1. UNCHANGED <<pc, op, ops>> /\ pending # <<>>
    BY <1>7, TellsIs DEF OnOperationHandled
  <2> QED BY <1>3, <2>1 DEF StartAsked, Untouched
<1>8. ASSUME NEW a \in Apps, AppTurn(a) PROVE StartAsked'
  <2>1. CASE WakeStep(a) /\ UNCHANGED <<controlVars, loopVars>>
    BY <1>2, <2>1 DEF controlVars, clientVars, serverVars
  <2>2. ASSUME UNCHANGED <<state, op, ops, drained, engine, pending>>,
               Finishes(a) \/ Wakens(a) \/ Exits(a)
        PROVE  StartAsked'
    <3>1. /\ pc'[a] \in {"idle", "woken", "preexit", "joining"}
          /\ pc[a] \in {"wake", "woken", "join", "preexit", "joining"}
          /\ pc[a] \in {"join", "preexit", "joining"} => pc'[a] # "woken"
          /\ \A b \in Apps \ {a} : pc'[b] = pc[b]
      BY <1>0, <2>2 DEF Finishes, Wakens, Exits, Goto
    <3>2. ops # 0
      BY <3>1 DEF StartAsked
    <3>3. NotAsked' => NotAsked
      BY <2>2, <3>1 DEF NotAsked
    <3>4. Untouched => Untouched'
      BY <2>2, <3>1 DEF Untouched, QuietPlace
    <3>5. StartWaits => StartWaits'
      BY <2>2, <3>1 DEF StartWaits
    <3> QED BY <2>2, <3>2, <3>3, <3>4, <3>5 DEF StartAsked
  <2>3. ASSUME CallStep(a) PROVE StartAsked'
    <3>1. /\ pc'[a] # "lock" /\ pc[a] # "idle" /\ op' = op /\ ops' = ops
          /\ \A b \in Apps \ {a} : pc'[b] = pc[b]
          /\ pc[a] = "wait" => Answered(a) \/ op[a] \in MayTimeOut
      BY <1>0, <2>3, CallWays
    <3>2. ops # 0
      BY <3>1 DEF StartAsked
    <3>3. NotAsked' => NotAsked
      BY <3>1 DEF NotAsked
    <3>4. NotAsked' => Untouched'
      <4> SUFFICES ASSUME NotAsked', NotAsked, Untouched PROVE Untouched'
        BY <3>3 DEF StartAsked
      <4>1. PICK b \in Apps : op[b] = "start" /\ pc'[b] = "lock"
        BY <3>1, <3>2 DEF NotAsked
      <4>2. ~(op[a] = "start" /\ pc[a] = "lock")
        <5>1. b # a /\ StartCall(b)
          BY <3>1, <4>1 DEF StartCall
        <5> QED BY <1>0, <5>1 DEF OneStart, StartCall
      <4>3. /\ engine' = <<>> /\ UNCHANGED <<pending, drained>> /\ state' \in {state, "RELEASED"}
            /\ QuietPlace(op[a], pc'[a])
        BY <1>0, <2>3, <4>2, UntouchedCall
      <4> QED BY <3>1, <4>3 DEF Untouched
    <3>5. ASSUME Holds(engine', "start") \/ Holds(pending', "start") PROVE StartWaits'
      <4>1. PICK l \in CallPcs : AppMove(a, l)
        BY <1>0, <2>3, CallMoves
      <4>2. pending' = pending /\ pc'[a] = l
        BY <1>0, <4>1 DEF AppMove, CallMove
      <4>3. CASE op[a] = "start" /\ l = "wait"
        BY <3>1, <4>2, <4>3 DEF StartWaits
      <4>4. CASE ~(op[a] = "start" /\ l = "wait")
        <5>1. Holds(engine', "start") => Holds(engine, "start")
          <6>1. \/ engine' \in {engine, <<>>}
                \/ \E r \in Requests \ {"start"} : engine' = Append(engine, r)
            BY <4>1, <4>4 DEF AppMove, EngineMove
          <6>2. ~Holds(<<>>, "start")
            BY DEF Holds
          <6>3. ASSUME NEW r \in Requests \ {"start"}, Holds(Append(engine, r), "start")
                PROVE  Holds(engine, "start")
            <7>1. "start" \in Requests
              BY DEF Requests
            <7> QED BY <1>0, <6>3, <7>1, HoldsBack
          <6> QED BY <6>1, <6>2, <6>3
        <5>2. Holds(engine, "start") \/ Holds(pending, "start")
          BY <3>5, <4>2, <5>1
        <5>3. PICK c \in Apps : op[c] = "start" /\ pc[c] = "wait"
          BY <5>2 DEF StartAsked, StartWaits
        <5>4. ~Running
          BY <5>2 DEF FreshUntilStart, Starting, Fresh
        <5>5. c # a
          BY <3>1, <5>3, <5>4 DEF Answered, Running
        <5> QED BY <3>1, <5>3, <5>5 DEF StartWaits
      <4> QED BY <4>3, <4>4
    <3> QED BY <3>1, <3>2, <3>4, <3>5 DEF StartAsked
  <2> QED BY <1>8, <2>1, <2>2, <2>3, AppKinds
<1>9. ASSUME NEW a \in Apps, NEW o \in Ops, CallTurn(a, o) PROVE StartAsked'
  <2>1. /\ pc[a] = "idle" /\ pc'[a] = "lock" /\ op'[a] = o /\ ops' # 0 /\ (o = "start" => ops = 0)
        /\ \A b \in Apps \ {a} : pc'[b] = pc[b] /\ op'[b] = op[b]
        /\ UNCHANGED <<state, engine, pending, drained>>
    <3>1. Call(a, o) /\ ~(o = "start" /\ ops > 0)
      BY <1>9, CallTurnIs
    <3> QED BY <1>0, <3>1 DEF Call, Goto, serverVars
  <2>2. NotAsked' => NotAsked
    BY <2>1 DEF NotAsked
  <2>3. Untouched => Untouched'
    BY <2>1 DEF Untouched, QuietPlace
  <2>4. StartWaits => StartWaits'
    BY <2>1 DEF StartWaits
  <2> QED BY <2>1, <2>2, <2>3, <2>4 DEF StartAsked
<1> QED BY <1>4, <1>5, <1>6, <1>7, <1>8, <1>9, Turns

\* What becomes of a thread's call.
LEMMA StepOf ==
    ASSUME DataWell, [DataNext]_dataVars, NEW a \in Apps
    PROVE  \/ pc'[a] = pc[a] /\ op'[a] = op[a]
           \/ CallStep(a) /\ op' = op
           \/ UNCHANGED <<state, op, engine, pending>> /\ (Finishes(a) \/ Wakens(a) \/ Exits(a))
           \/ pc[a] = "idle" /\ pc'[a] = "lock" /\ ops' = ops + 1
<1>0. /\ Control /\ Sizes /\ pc \in [Apps -> CallPcs] /\ op \in [Apps -> Ops \cup {"none"}]
      /\ ControlTypes /\ DataPlaces
  BY WellParts DEF Control, ControlTypes, ControlTypeOK
<1>1. CASE LoopTurn
  BY <1>0, <1>1, LoopSteps DEF LoopMove, Spares
<1>2. CASE Takes \/ Answers \/ Tells \/ Idles
  BY <1>0, <1>2, TakesIs, AnswersIs, TellsIs, IdlesIs
     DEF controlVars, clientVars, OnOperationHandled
<1>3. ASSUME NEW b \in Apps, AppTurn(b)
      PROVE  \/ pc'[a] = pc[a] /\ op'[a] = op[a]
             \/ CallStep(a) /\ op' = op
             \/ UNCHANGED <<state, op, engine, pending>> /\ (Finishes(a) \/ Wakens(a) \/ Exits(a))
  <2>1. CASE WakeStep(b) /\ UNCHANGED <<controlVars, loopVars>>
    BY <2>1 DEF controlVars, clientVars
  <2>2. CASE CallStep(b)
    <3>1. op' = op /\ \A c \in Apps \ {b} : pc'[c] = pc[c]
      BY <1>0, <2>2, CallWays
    <3> QED BY <2>2, <3>1
  <2>3. CASE UNCHANGED <<state, op, engine, pending>> /\ (Finishes(b) \/ Wakens(b) \/ Exits(b))
    <3>1. \A c \in Apps \ {b} : pc'[c] = pc[c]
      BY <1>0, <2>3 DEF Finishes, Wakens, Exits, Goto
    <3> QED BY <2>3, <3>1
  <2> QED BY <1>3, <2>1, <2>2, <2>3, AppKinds
<1>4. ASSUME NEW b \in Apps, NEW o \in Ops, CallTurn(b, o)
      PROVE  \/ pc'[a] = pc[a] /\ op'[a] = op[a]
             \/ pc[a] = "idle" /\ pc'[a] = "lock" /\ ops' = ops + 1
  BY <1>0, <1>4, CallTurnIs DEF Call, Goto
<1> QED BY <1>1, <1>2, <1>3, <1>4, Turns

\* Who tells the loop to end.
LEMMA ReleasedBy ==
    ASSUME DataWell, [DataNext]_dataVars, released' # released
    PROVE  \E a \in Apps : op[a] = "release" /\ pc[a] = "join"
<1>0. Sizes /\ DataPlaces
  BY WellParts DEF Control
<1>1. CASE LoopTurn
  BY <1>0, <1>1, LoopSteps DEF LoopMove, Spares
<1>2. CASE Takes \/ Answers \/ Tells \/ Idles
  BY <1>0, <1>2, TakesIs, AnswersIs, TellsIs, IdlesIs DEF loopVars
<1>3. ASSUME NEW b \in Apps, AppTurn(b) PROVE op[b] = "release" /\ pc[b] = "join"
  <2>1. pc[b] = "join"
    BY <1>3, AppKinds DEF Finishes, Wakens, Exits, loopVars
  <2> QED BY <1>0, <2>1 DEF DataPlaces, DataPlace
<1>4. ASSUME NEW b \in Apps, NEW o \in Ops, CallTurn(b, o) PROVE FALSE
  BY <1>4, CallTurnIs DEF loopVars
<1> QED BY <1>1, <1>2, <1>3, <1>4, Turns

(* A stream that is being released does not play, and will not.             *)
Leaving ==
    \/ released
    \/ \E a \in Apps : op[a] = "release" /\ pc[a] \in {"ipc", "join", "preexit", "joining"}

Leaves ==
    Leaving => ops # 0 /\ ~Running /\ (Starting => NotAsked /\ state = "RELEASED")

LEMMA LeavesKept ==
    ASSUME DataWell, FreshUntilStart, StartAsked, Leaves, ~restarted', [DataNext]_dataVars,
           "start" \notin MayTimeOut
    PROVE  Leaves'
<1>0. /\ Control /\ pc \in [Apps -> CallPcs] /\ op \in [Apps -> Ops \cup {"none"}]
      /\ ControlTypes /\ DataPlaces /\ OneStart /\ ops \in Nat
  BY WellParts DEF Control, ControlTypes, ControlTypeOK, FreshUntilStart
<1>1. OneStart' /\ (Starting' => Starting \/ ops = 0) /\ (ops # 0 => ops' # 0) /\ StartAsked'
  BY <1>0, StartKept, StartAskedKept
<1>2. ASSUME Leaving PROVE ops' # 0 /\ ~Running' /\ (Starting' => NotAsked' /\ state' = "RELEASED")
  <2>0. ops # 0 /\ ~Running /\ (Starting => NotAsked /\ state = "RELEASED" /\ Untouched)
    BY <1>2 DEF Leaves, StartAsked
  <2>1. ~Running'
    <3> SUFFICES ASSUME Running' PROVE FALSE
      OBVIOUS
    <3>1. Tells /\ pending # <<>> /\ Head(pending) = "start"
      BY <2>0, StateMoves DEF Running, OwnStates
    <3>2. Starting
      BY <1>0, <3>1, ToldOnce
    <3> QED BY <2>0, <3>1, <3>2 DEF Untouched
  <2>2. ASSUME Starting' PROVE NotAsked' /\ state' = "RELEASED"
    <3>1. NotAsked /\ state = "RELEASED" /\ Untouched
      BY <1>1, <2>0, <2>2
    <3>2. PICK a \in Apps : op[a] = "start" /\ pc[a] = "lock"
      BY <2>0, <3>1 DEF NotAsked
    <3>3. op'[a] = "start" /\ pc'[a] = "lock"
      <4>1. ASSUME CallStep(a) PROVE FALSE
        <5>1. Lock(a)
          BY <1>0, <3>2, <4>1, CallWays
        <5>2. /\ pc' = [pc EXCEPT ![a] = "idle"] /\ UNCHANGED <<op, engine, pending>>
          BY <1>0, <3>1, <3>2, <5>1, DataLockIs DEF Locked
        <5>3. \A b \in Apps : StartCall(b)' => StartCall(b) /\ b # a
          BY <1>0, <5>2 DEF StartCall
        <5>4. ~StartCalled'
          BY <1>0, <3>2, <5>3 DEF StartCalled, StartCall, OneStart
        <5> QED BY <2>2, <3>1, <5>2, <5>4 DEF Starting, Untouched, Holds
      <4>2. ~(Finishes(a) \/ Wakens(a) \/ Exits(a))
        BY <3>2 DEF Finishes, Wakens, Exits
      <4> QED BY <3>2, <4>1, <4>2, StepOf
    <3>4. NotAsked' /\ Untouched'
      BY <1>1, <3>3 DEF NotAsked, StartAsked
    <3> QED BY <3>1, <3>4, StateMoves DEF Untouched, OwnStates
  <2> QED BY <1>1, <2>0, <2>1, <2>2
<1>3. ASSUME ~Leaving, Leaving'
      PROVE  ops' # 0 /\ ~Running' /\ (Starting' => NotAsked' /\ state' = "RELEASED")
  <2>1. PICK a \in Apps : op'[a] = "release" /\ pc'[a] \in {"ipc", "join", "preexit", "joining"}
    <3>1. released' = released
      BY <1>3, ReleasedBy DEF Leaving
    <3> QED BY <1>3, <3>1 DEF Leaving
  <2>2. pc[a] \notin {"ipc", "join", "preexit", "joining"} \/ op[a] # "release"
    BY <1>3 DEF Leaving
  <2>3. CallStep(a) /\ op' = op
    <3>1. Finishes(a) \/ Wakens(a) => FALSE
      BY <1>0, <2>1 DEF Finishes, Wakens, Goto
    <3>2. Exits(a) /\ op' = op => FALSE
      BY <2>1, <2>2 DEF Exits
    <3> QED BY <2>1, <2>2, <3>1, <3>2, StepOf
  <2>4. /\ Lock(a) /\ pc'[a] = "ipc" /\ op[a] = "release" /\ pc[a] = "lock" /\ ops' = ops
        /\ \A b \in Apps \ {a} : pc'[b] = pc[b]
    BY <1>0, <2>1, <2>2, <2>3, CallWays
  <2>5. state' = "RELEASED" /\ statusMutex = Free /\ UNCHANGED <<op, engine, pending>>
    <3>1. Locked(a, "idle", Free) => pc'[a] = "idle"
      BY <1>0 DEF Locked
    <3> QED BY <1>0, <2>4, <3>1, DataLockIs
  <2>6. ops # 0
    BY <2>4 DEF StartAsked
  <2>7. \A b \in Apps : HasStatus(op[b], pc[b]) => FALSE
    BY <1>0, <2>5, Names DEF Control, Holders
  <2>8. ASSUME Starting' PROVE NotAsked'
    <3>1. ~StartWaits
      BY <2>7 DEF StartWaits, HasStatus
    <3>2. StartCalled'
      BY <2>5, <2>8, <3>1 DEF Starting, StartAsked
    <3>3. PICK b \in Apps : op[b] = "start" /\ pc'[b] \in {"lock", "ipc"}
      BY <2>5, <3>2 DEF StartCalled, StartCall
    <3>4. pc'[b] = pc[b]
      BY <2>4, <3>3
    <3>5. pc[b] = "lock"
      BY <2>7, <3>3, <3>4 DEF HasStatus
    <3> QED BY <2>5, <3>3, <3>4, <3>5 DEF NotAsked
  <2> QED BY <2>4, <2>5, <2>6, <2>8 DEF Running
<1> QED BY <1>2, <1>3 DEF Leaves

(* Pause is called of a stream that has been started.                       *)
Pauses ==
    \A a \in Apps : op[a] = "pause" /\ pc[a] \in {"ipc", "wait", "wake", "woken"} =>
        ops # 0 /\ ~Starting /\ (pc[a] \in {"wake", "woken"} => ~Running)

LEMMA PausesKept ==
    ASSUME DataWell, FreshUntilStart, Pauses, ~restarted', [DataNext]_dataVars
    PROVE  Pauses'
<1>0. /\ pc \in [Apps -> CallPcs] /\ ControlTypes /\ DataPlaces /\ OneStart /\ ops \in Nat
  BY WellParts DEF Control, ControlTypes, ControlTypeOK, FreshUntilStart
<1>1. (Starting' => Starting \/ ops = 0) /\ (ops # 0 => ops' # 0)
  BY <1>0, StartKept
<1> SUFFICES ASSUME NEW a \in Apps, op'[a] = "pause", pc'[a] \in {"ipc", "wait", "wake", "woken"}
             PROVE  ops' # 0 /\ ~Starting' /\ (pc'[a] \in {"wake", "woken"} => ~Running')
  BY DEF Pauses
<1>2. op[a] = "pause" /\ DataPlace(op[a], pc[a]) /\ pc[a] # "idle"
  <2>1. CallStep(a) => pc[a] # "idle"
    BY <1>0, CallWays
  <2>2. Finishes(a) \/ Wakens(a) \/ Exits(a) => pc[a] # "idle"
    BY DEF Finishes, Wakens, Exits
  <2>3. op'[a] = op[a] /\ pc[a] # "idle"
    BY <2>1, <2>2, StepOf
  <2> QED BY <1>0, <2>3 DEF DataPlaces
<1>3. CASE pc[a] = "lock"
  <2>1. CallStep(a)
    BY <1>0, <1>3, StepOf DEF Finishes, Wakens, Exits
  <2>2. Lock(a) /\ pc'[a] \notin {"woken", "wake"}
    BY <1>0, <1>3, <2>1, CallWays
  <2>3. Running
    <3>1. Locked(a, "idle", Free) => pc'[a] = "idle"
      BY <1>0 DEF Locked
    <3> QED BY <1>0, <1>2, <2>2, <3>1, DataLockIs DEF Running
  <2> QED BY <1>1, <2>2, <2>3 DEF FreshUntilStart, Fresh
<1>4. CASE pc[a] # "lock"
  <2>1. /\ pc[a] \in {"ipc", "wait", "wake", "woken"} /\ ops # 0 /\ ~Starting
        /\ pc[a] \in {"wake", "woken"} => ~Running
    BY <1>2, <1>4 DEF Pauses, DataPlace
  <2>2. ops' # 0 /\ ~Starting'
    BY <1>1, <2>1
  <2>3. CASE pc[a] \in {"wake", "woken"}
    BY <1>0, <2>1, <2>2, <2>3, NotRunningStays
  <2>4. CASE pc[a] \in {"ipc", "wait"} /\ pc'[a] \in {"wake", "woken"}
    <3>1. CallStep(a)
      BY <1>0, <2>4, StepOf DEF Finishes, Wakens, Exits
    <3>2. Answered(a) /\ state' = state
      BY <1>0, <2>4, <3>1, CallWays
    <3> QED BY <1>2, <2>2, <3>2 DEF Answered, Running
  <2> QED BY <2>1, <2>2, <2>3, <2>4
<1> QED BY <1>3, <1>4

(* FutexWait gives up after TryCount spurious wake-ups.  While the loop     *)
(* waits for room only the engine wakes it, and takes frames first.  Of     *)
(* the wake-ups of frames taken before, one may be about to set the word,   *)
(* or may have set it without having woken: two tries at most are in vain.  *)
Count(x) == IF x THEN 1 ELSE 0
Coming(w) == IF wpc[w] = "cas" THEN 2 ELSE IF wpc[w] = "call" THEN 1 ELSE 0

InVain ==
    tries + Count(fpc = "recheck") + Coming(Engine_)
      + Count(futexObj = "READY" /\ fpc \in {"check", "sys"})

HasRoom == Len(ring) < Total

Writes ==
    /\ fpc # "idle" => lpc \in {"writing", "idling"}
    /\ lpc = "writing" /\ fpc = "idle" => fres # "TIMEOUT" /\ (Running => HasRoom)
    /\ lpc = "writing" /\ fpc # "idle" => ~timedOut /\ (Running /\ ~HasRoom => InVain <= 2)
    /\ lpc = "region" /\ Running => HasRoom

KeepsBuffers ==
    /\ EndTold /\ AppWakes
    /\ restarted \/ (FreshUntilStart /\ StartAsked /\ Leaves /\ Pauses /\ Writes)

\* A loop that writes is not to be stopped but by a change of the state.
LEMMA WritingIs ==
    ASSUME DataWell, KeepsBuffers, ~restarted, InWrite
    PROVE  /\ ops # 0 /\ ~Starting
           /\ Running => futexObj # "PRE_EXIT" /\ \A w \in Wakers : wpc[w] # "exit"
           /\ \A a \in Apps : ~HasWrite(op[a], pc[a])
           /\ Running => \A a \in Apps : wpc[a] = "idle"
<1>1. ops # 0 /\ ~Starting
  BY DEF KeepsBuffers, FreshUntilStart, Fresh, InWrite, FreshPcs, ParkedPcs
<1>2. Running => ~released
  BY DEF KeepsBuffers, Leaves, Leaving
<1>3. \A a \in Apps : ~HasWrite(op[a], pc[a])
  BY Names, WellParts DEF Control, Holders
<1>4. Running => \A a \in Apps : wpc[a] = "idle"
  BY <1>2, <1>3 DEF KeepsBuffers, AppWakes, EndTold, Pauses
<1> QED BY <1>1, <1>2, <1>3, <1>4 DEF KeepsBuffers, EndTold

\* The steps of FutexWait: the loop waits for room, or may give up.
LEMMA WritesWait ==
    ASSUME DataWell, KeepsBuffers, ~restarted, UNCHANGED <<controlVars, loopVars>>,
           "write" \notin MayTimeOut, TryCount > 2,
           \/ WaitCas \/ WaitSys \/ WaitCheck(Pred, FALSE) \/ WaitRecheck(Pred)
           \/ MayExpire /\ (WaitCheck(Pred, TRUE) \/ WaitExpire)
    PROVE  Writes'
<1>0. /\ state' = state /\ lpc' = lpc /\ ring' = ring /\ wpc' = wpc
      /\ tries \in Nat /\ TryCount \in Nat /\ Len(ring) \in Nat /\ Total \in Nat /\ Cb \in Nat \ {0}
  <2>1. FutexWell /\ Sizes
    BY WellParts
  <2> QED BY <2>1 DEF FutexWell, FutexTypeOK, Sizes, Buffers, controlVars, clientVars, loopVars,
          WaitCas, WaitSys, WaitCheck, WaitRecheck, WaitExpire
<1>1. fpc # "idle"
  BY DEF WaitCas, WaitSys, WaitCheck, WaitRecheck, WaitExpire
<1>2. lpc \in {"writing", "idling"} /\ Writes
  BY <1>1 DEF KeepsBuffers, Writes
<1>3. CASE lpc = "idling"
  BY <1>0, <1>3 DEF Writes
<1>4. CASE lpc = "writing"
  <2>0. /\ ~timedOut /\ (Running /\ ~HasRoom => InVain <= 2)
        /\ Running => futexObj # "PRE_EXIT"
        /\ Running /\ Pred => HasRoom
    <3>1. Running => futexObj # "PRE_EXIT"
      BY <1>4, WritingIs DEF InWrite
    <3>2. Running /\ Pred => HasRoom
      BY <1>0 DEF Pred, NeedWrite, HasRoom
    <3> QED BY <1>1, <1>2, <1>4, <3>1, <3>2 DEF Writes
  <2>1. Coming(Engine_)' = Coming(Engine_) /\ Coming(Engine_) \in Nat
        /\ HasRoom' = HasRoom /\ Running' = Running
    BY <1>0 DEF Coming, HasRoom, Running
  <2>2. \/ WaitCas \/ WaitSys \/ WaitCheck(Pred, FALSE) \/ WaitRecheck(Pred)
    BY <1>4 DEF MayExpire
  <2> USE DEF Writes, WaitReturn
  <2> HIDE DEF Pred, HasRoom, Running, Coming
  <2>3. CASE WaitCas
    <3>1. CASE futexObj = "PRE_EXIT"
      BY <1>0, <1>4, <2>0, <2>1, <2>3, <3>1 DEF WaitCas
    <3>2. CASE futexObj # "PRE_EXIT"
      <4>1. /\ fpc = "cas" /\ fpc' = "check" /\ futexObj' = "NOT_READY" /\ tries' = tries
            /\ timedOut' = timedOut
        BY <2>3, <3>2 DEF WaitCas
      <4>2. InVain' = InVain
        BY <1>0, <2>1, <4>1 DEF InVain, Count
      <4> QED BY <1>0, <1>1, <1>4, <2>0, <2>1, <4>1, <4>2
    <3> QED BY <3>1, <3>2
  <2>4. CASE WaitCheck(Pred, FALSE)
    <3>1. CASE Pred
      BY <1>0, <1>4, <2>0, <2>1, <2>4, <3>1 DEF WaitCheck
    <3>2. CASE ~Pred
      <4>1. fpc = "check" /\ fpc' = "sys" /\ UNCHANGED <<futexObj, tries, timedOut>>
        BY <2>4, <3>2 DEF WaitCheck
      <4>2. InVain' = InVain
        BY <1>0, <2>1, <4>1 DEF InVain, Count
      <4> QED BY <1>0, <1>1, <1>4, <2>0, <2>1, <4>1, <4>2
    <3> QED BY <3>1, <3>2
  <2>5. CASE WaitSys
    <3>1. /\ fpc = "sys" /\ fpc' \in {"asleep", "recheck"} /\ ~timedOut'
          /\ fpc' = "recheck" => futexObj # "NOT_READY"
          /\ UNCHANGED <<futexObj, tries>>
      BY <2>5 DEF WaitSys
    <3>2. Running => InVain' <= InVain
      <4>1. futexObj \in {"READY", "NOT_READY", "PRE_EXIT"}
        BY WellParts DEF FutexWell, FutexTypeOK, FutexWords
      <4>2. Running /\ fpc' = "recheck" => futexObj = "READY"
        BY <2>0, <3>1, <4>1
      <4> QED BY <1>0, <2>1, <3>1, <4>2 DEF InVain, Count
    <3>3. InVain \in Nat /\ InVain' \in Nat
      BY <1>0, <2>1, <3>1 DEF InVain, Count
    <3>4. Running /\ ~HasRoom => InVain' <= 2
      BY <2>0, <3>2, <3>3
    <3> QED BY <1>0, <1>1, <1>4, <2>0, <2>1, <3>1, <3>4
  <2>6. CASE WaitRecheck(Pred)
    <3>1. CASE Pred
      BY <1>0, <1>4, <2>0, <2>1, <2>6, <3>1 DEF WaitRecheck
    <3>2. CASE ~Pred
      <4>1. /\ fpc = "recheck" /\ tries' = tries + 1 /\ UNCHANGED <<futexObj, timedOut>>
            /\ \/ tries + 1 < TryCount /\ fpc' = "cas"
               \/ ~(tries + 1 < TryCount) /\ fpc' = "idle" /\ fres' = "FAILED"
        BY <2>0, <2>6, <3>2 DEF WaitRecheck
      <4>2. CASE fpc' = "cas"
        <5>1. InVain' = InVain
          BY <1>0, <2>1, <4>1, <4>2 DEF InVain, Count
        <5> QED BY <1>0, <1>1, <1>4, <2>0, <2>1, <4>1, <4>2, <5>1
      <4>3. CASE fpc' = "idle"
        <5>1. InVain > 2
          BY <1>0, <2>1, <4>1, <4>3 DEF InVain, Count
        <5>2. InVain \in Nat
          BY <1>0, <2>1 DEF InVain, Count
        <5>3. Running => HasRoom
          BY <2>0, <5>1, <5>2
        <5> QED BY <1>0, <1>4, <2>1, <4>1, <4>3, <5>3
      <4> QED BY <4>1, <4>2, <4>3
    <3> QED BY <3>1, <3>2
  <2> QED BY <2>2, <2>3, <2>4, <2>5, <2>6
<1> QED BY <1>2, <1>3, <1>4

\* A wake-up by the engine.
LEMMA WritesWake ==
    ASSUME DataWell, KeepsBuffers, ~restarted, UNCHANGED <<controlVars, loopVars>>,
           WakeStep(Engine_)
    PROVE  Writes'
<1>0. /\ state' = state /\ lpc' = lpc /\ ring' = ring /\ wpc \in [Wakers -> WakePcs]
      /\ Engine_ \in Wakers /\ tries \in Nat /\ Writes
  <2>1. FutexWell
    BY WellParts
  <2> QED BY <2>1, WakersAre
          DEF FutexWell, FutexTypeOK, controlVars, clientVars, loopVars, KeepsBuffers
<1>1. UNCHANGED <<tries, timedOut, fres>> /\ (fpc' = "idle" <=> fpc = "idle")
  BY DEF WakeStep, WakeCas, WakeExit, WakeSys
<1>2. HasRoom' = HasRoom /\ Running' = Running
  BY <1>0 DEF HasRoom, Running
<1>3. ASSUME lpc = "writing", Running PROVE InVain' <= InVain
  <2>1. wpc[Engine_] # "exit"
    BY <1>0, <1>3, WritingIs DEF InWrite
  <2>2. CASE WakeCas(Engine_)
    <3>1. CASE futexObj = "NOT_READY"
      <4>1. /\ wpc[Engine_] = "cas" /\ wpc'[Engine_] = "call" /\ futexObj' = "READY" /\ fpc' = fpc
        BY <1>0, <2>2, <3>1 DEF WakeCas, WakeGoto
      <4> QED BY <1>0, <1>1, <3>1, <4>1 DEF InVain, Count, Coming
    <3>2. CASE futexObj # "NOT_READY"
      <4>1. /\ wpc[Engine_] = "cas" /\ wpc'[Engine_] = "idle" /\ futexObj' = futexObj /\ fpc' = fpc
        BY <1>0, <2>2, <3>2 DEF WakeCas, WakeGoto
      <4> QED BY <1>0, <1>1, <4>1 DEF InVain, Count, Coming
    <3> QED BY <3>1, <3>2
  <2>3. CASE WakeSys(Engine_)
    <3>1. /\ wpc[Engine_] = "call" /\ wpc'[Engine_] = "idle" /\ futexObj' = futexObj
          /\ fpc' = IF fpc = "asleep" THEN "recheck" ELSE fpc
      BY <1>0, <2>3 DEF WakeSys, WakeGoto
    <3> QED BY <1>0, <1>1, <3>1 DEF InVain, Count, Coming
  <2> QED BY <2>1, <2>2, <2>3 DEF WakeStep, WakeExit
<1>4. InVain \in Nat /\ InVain' \in Nat
  <2>1. tries' \in Nat /\ Coming(Engine_) \in Nat /\ Coming(Engine_)' \in Nat
    BY <1>0, <1>1 DEF Coming
  <2>2. Count(fpc = "recheck") \in Nat /\ Count(fpc = "recheck")' \in Nat
    BY DEF Count
  <2>3. /\ Count(futexObj = "READY" /\ fpc \in {"check", "sys"}) \in Nat
        /\ Count(futexObj = "READY" /\ fpc \in {"check", "sys"})' \in Nat
    BY DEF Count
  <2> QED BY <1>0, <2>1, <2>2, <2>3 DEF InVain
<1>5. lpc = "writing" /\ fpc # "idle" /\ Running /\ ~HasRoom => InVain' <= 2
  BY <1>0, <1>3, <1>4 DEF Writes
<1> HIDE DEF HasRoom, Running, InVain
<1> QED BY <1>0, <1>1, <1>2, <1>5 DEF Writes

\* The other steps of the loop.
LEMMA WritesLoop ==
    ASSUME DataWell, KeepsBuffers, ~restarted, LoopTurn, UNCHANGED futexVars \/ WaitBegin
    PROVE  Writes'
<1>0. Writes /\ Sizes /\ state' = state /\ Len(ring) \in Nat /\ Total \in Nat
  BY WellParts, LoopSteps DEF KeepsBuffers, LoopMove, Spares, Sizes, Buffers
<1>1. CASE WaitBegin
  <2>1. /\ fpc = "idle" /\ fpc' = "cas" /\ tries' = 0 /\ ~timedOut' /\ wpc' = wpc
    BY <1>1 DEF WaitBegin
  <2>2. CASE LoopWait
    <3>1. lpc' \in {"writing", "idling"}
      BY <2>2 DEF LoopWait, LoopGoto
    <3>2. Coming(Engine_)' \in 0 .. 2
      BY DEF Coming
    <3>3. Count(fpc = "recheck")' = 0 /\ Count(futexObj = "READY" /\ fpc \in {"check", "sys"})' = 0
      BY <2>1 DEF Count
    <3>4. InVain' <= 2
      BY <2>1, <3>2, <3>3 DEF InVain
    <3> HIDE DEF InVain
    <3> QED BY <2>1, <3>1, <3>4 DEF Writes
  <2>3. CASE ~LoopWait
    <3>1. FALSE
      <4>1. fpc' # fpc
        BY <2>1
      <4>2. ~(FutexWaiter \/ FutexExpires)
        BY <2>1 DEF FutexWaiter, FutexExpires, WaitCas, WaitCheck, WaitSys, WaitRecheck, WaitExpire
      <4> QED BY <2>3, <4>1, <4>2
           DEF LoopTurn, Still, LoopStep, futexVars, Top, CheckRunning, Block, Unblock, Pop, Repush,
               Popped, WriteBegin, WriteRefused, WriteAllowed, WriteFrames, IdleOver, Callback
    <3> QED BY <3>1
  <2> QED BY <2>2, <2>3
<1>2. CASE UNCHANGED futexVars
  <2>0. UNCHANGED <<futexObj, fpc, tries, timedOut, fres, wpc>>
    BY <1>2 DEF futexVars
  <2>1. CASE Top \/ CheckRunning \/ Block \/ Unblock \/ Pop \/ Repush \/ Popped \/ WriteBegin
             \/ IdleOver \/ Callback \/ WriteRefused
    <3>1. fpc = "idle" /\ lpc' \notin {"writing", "region"}
      BY <1>0, <2>1
         DEF Top, CheckRunning, Block, Unblock, Pop, Repush, Popped, WriteBegin, IdleOver,
             Callback, WriteRefused, GiveUp, LoopGoto, Writes
    <3> QED BY <2>0, <3>1 DEF Writes
  <2>2. CASE WriteAllowed
    <3>1. fpc = "idle" /\ lpc' = "region" /\ lpc = "writing" /\ Running /\ ring' = ring
      BY <2>2 DEF WriteAllowed, LoopGoto
    <3> QED BY <1>0, <2>0, <3>1 DEF Writes, HasRoom
  <2>3. CASE WriteFrames
    <3>1. fpc = "idle" /\ lpc' \in {"pop", "write"}
      BY <1>0, <2>3 DEF WriteFrames, GiveUp, LoopGoto, Writes
    <3> QED BY <2>0, <3>1 DEF Writes
  <2>4. CASE LoopWait
    BY <2>0, <2>4 DEF LoopWait, WaitBegin
  <2>5. CASE FutexWaiter \/ FutexExpires
    <3>1. UNCHANGED <<controlVars, loopVars>>
      BY <2>5 DEF FutexWaiter, FutexExpires
    <3>2. UNCHANGED <<lpc, ring, state>>
      BY <3>1 DEF controlVars, clientVars, loopVars
    <3> QED BY <1>0, <2>0, <3>2 DEF Writes, HasRoom, Running, InVain, Coming
  <2> QED BY <2>1, <2>2, <2>3, <2>4, <2>5 DEF LoopTurn, Still, LoopStep
<1> QED BY <1>1, <1>2

LEMMA WritesKept ==
    ASSUME DataWell, KeepsBuffers, ~restarted, [DataNext]_dataVars,
           "write" \notin MayTimeOut, TryCount > 2
    PROVE  Writes'
<1>0. Writes /\ Sizes /\ OneStart /\ Control
  BY WellParts DEF KeepsBuffers, FreshUntilStart
<1>1. CASE LoopTurn
  BY <1>1, LoopFutex, WritesLoop, WritesWait
<1>2. CASE Takes
  <2>1. PICK n \in 1 .. Len(ring) : Plays(n)
    BY <1>0, <1>2, TakesIs
  <2>2. HasRoom'
    <3>1. Len(ring') = Len(ring) - n /\ Len(ring) \in Nat /\ Len(ring) <= Total /\ Total \in Nat
      BY <1>0, <2>1, PlayIs DEF Sizes
    <3> QED BY <3>1 DEF HasRoom
  <2>3. UNCHANGED <<lpc, fpc, timedOut, fres>>
    BY <1>0, <1>2, <2>1, TakesIs DEF Plays
  <2> QED BY <1>0, <2>2, <2>3 DEF Writes
<1>3. CASE Idles
  <2>1. UNCHANGED <<controlVars, loopVars>> /\ (UNCHANGED futexVars \/ WakeStep(Engine_))
    BY <1>3, IdlesIs
  <2>2. CASE UNCHANGED futexVars
    BY <1>0, <2>1, <2>2
       DEF Writes, HasRoom, Running, InVain, Coming, futexVars, loopVars, controlVars, clientVars
  <2> QED BY <2>1, <2>2, WritesWake
\* A step of the calls or of the server.
<1>4. ASSUME UNCHANGED <<lpc, FutexRest>>, wpc'[Engine_] = wpc[Engine_], ring' = ring \/ ~InWrite
      PROVE  Writes'
  <2>1. InWrite /\ ~Running => ~Running'
    <3>1. InWrite => ~Starting
      BY WritingIs
    <3> QED BY <1>0, <3>1, NotRunningStays
  <2>2. InWrite => HasRoom' = HasRoom
    BY <1>4 DEF HasRoom
  <2>3. InVain' = InVain
    BY <1>4 DEF InVain, Coming, FutexRest
  <2> HIDE DEF InVain, HasRoom, Running
  <2> QED BY <1>0, <1>4, <2>1, <2>2, <2>3 DEF Writes, InWrite, FutexRest
<1>5. CASE Answers \/ Tells
  BY <1>4, <1>5, AnswersIs, TellsIs DEF futexVars, loopVars, FutexRest
<1>6. ASSUME NEW a \in Apps, AppTurn(a) PROVE Writes'
  <2>0. lpc' = lpc /\ Engine_ # a /\ Engine_ \in Wakers /\ wpc \in [Wakers -> WakePcs]
    BY <1>6, AppKinds, WakersAre, WellParts DEF FutexWell, FutexTypeOK
  <2>1. CASE WakeStep(a) /\ UNCHANGED <<controlVars, loopVars>>
    <3>1. UNCHANGED <<lpc, ring, state, tries, timedOut, fres>> /\ (fpc' = "idle" <=> fpc = "idle")
          /\ wpc[a] # "idle"
      BY <2>1 DEF controlVars, clientVars, loopVars, WakeStep, WakeCas, WakeExit, WakeSys
    <3>2. InWrite => ~Running
      BY <3>1, WritingIs
    <3> QED BY <1>0, <3>1, <3>2 DEF Writes, InWrite, Running
  <2>2. CASE UNCHANGED FutexRest /\ wpc' = wpc /\ ring' = ring
    BY <1>4, <2>0, <2>2
  <2>3. CASE UNCHANGED FutexRest /\ FlushesRing(a) /\ WakeCall(a)
    <3>1. pc[a] = "ipc" /\ op[a] = "flush" /\ wpc'[Engine_] = wpc[Engine_]
      BY <2>0, <2>3 DEF FlushesRing, At, WakeCall, WakeGoto
    <3>2. ~InWrite
      BY <3>1, WritingIs DEF HasWrite
    <3> QED BY <1>4, <2>0, <2>3, <3>1, <3>2
  <2>4. CASE UNCHANGED <<ring, FutexRest>> /\ (Finishes(a) \/ Wakens(a) \/ Exits(a))
    <3>1. wpc'[Engine_] = wpc[Engine_]
      BY <2>0, <2>4 DEF Finishes, Wakens, Exits, WakeCall, WakeCallExit, WakeGoto
    <3> QED BY <1>4, <2>0, <2>4, <3>1
  <2> QED BY <1>6, <2>1, <2>2, <2>3, <2>4, AppKinds
<1>7. ASSUME NEW a \in Apps, NEW o \in Ops, CallTurn(a, o) PROVE Writes'
  BY <1>4, <1>7, CallTurnIs DEF futexVars, loopVars, FutexRest
<1> QED BY <1>1, <1>2, <1>3, <1>5, <1>6, <1>7, Turns

LEMMA RestartedStays == ASSUME DataWell, [DataNext]_dataVars, restarted PROVE restarted'
<1>1. CASE LoopTurn
  BY <1>1, LoopSteps, WellParts DEF LoopMove, Spares
<1>2. CASE Takes \/ Answers \/ Tells \/ Idles
  BY <1>2, WellParts, TakesIs, AnswersIs, TellsIs, IdlesIs
<1>3. ASSUME NEW a \in Apps, AppTurn(a) PROVE restarted'
  BY <1>3, AppKinds
<1>4. ASSUME NEW a \in Apps, NEW o \in Ops, CallTurn(a, o) PROVE restarted'
  BY <1>4, CallTurnIs
<1> QED BY <1>1, <1>2, <1>3, <1>4, Turns

LEMMA BuffersKept ==
    ASSUME DataWell, KeepsBuffers, [DataNext]_dataVars,
           "start" \notin MayTimeOut, "write" \notin MayTimeOut,
           MayRefuse => "flush" \notin Ops, TryCount > 2
    PROVE  KeepsBuffers'
<1>1. EndTold' /\ AppWakes'
  BY EndToldKept, AppWakesKept DEF KeepsBuffers
<1>2. ASSUME ~restarted'
      PROVE  FreshUntilStart' /\ StartAsked' /\ Leaves' /\ Pauses' /\ Writes'
  <2>1. ~restarted /\ FreshUntilStart /\ StartAsked /\ Leaves /\ Pauses
    BY <1>2, RestartedStays DEF KeepsBuffers
  <2> QED BY <1>2, <2>1, FreshKept, StartAskedKept, LeavesKept, PausesKept, WritesKept
<1> QED BY <1>1, <1>2 DEF KeepsBuffers

LEMMA BuffersStart == DataInit => KeepsBuffers
<1> SUFFICES ASSUME DataInit PROVE KeepsBuffers
  OBVIOUS
<1>1. FreshUntilStart /\ ops = 0 /\ \A a \in Apps : pc[a] = "idle"
  BY ForwardStart, DataPathAssumption
     DEF Forward, DataInit, ControlInit
<1>2. /\ ~released /\ lpc = "top" /\ fpc = "idle" /\ futexObj = "READY"
      /\ \A w \in Wakers : wpc[w] = "idle"
      /\ state = "PREPARED" /\ engine = <<>> /\ pending = <<>> /\ ~drained
  BY DEF DataInit, ControlInit, FutexInit
<1>3. EndTold /\ AppWakes
  BY <1>1, <1>2, WakersAre DEF EndTold, AppWakes
<1>4. StartAsked
  BY <1>1, <1>2 DEF StartAsked, Untouched, QuietPlace, Holds
<1>5. Leaves /\ Pauses /\ Writes
  BY <1>1, <1>2 DEF Leaves, Leaving, Pauses, Writes
<1> QED BY <1>1, <1>3, <1>4, <1>5 DEF KeepsBuffers

\* How a buffer is given up.
LEMMA LosesIs ==
    ASSUME DataWell, [DataNext]_dataVars, Loses
    PROVE  LoopTurn /\ (WriteBegin \/ WriteRefused \/ WriteFrames) /\ temp # <<>> /\ temp' = <<>>
           /\ ring' = ring
<1>0. DataTypes /\ Sizes /\ temp # temp' /\ temp # <<>> /\ temp' = <<>> /\ ring' = ring /\ queue' = queue
  BY WellParts DEF Loses
<1>1. CASE LoopTurn
  <2>1. ~Pop
    <3>1. queue # <<>> => Len(Tail(queue)) # Len(queue)
      BY <1>0 DEF DataTypes
    <3> QED BY <1>0, <3>1 DEF Pop
  <2>2. ~Repush
    <3>1. Len(Append(queue, temp)) # Len(queue)
      BY <1>0 DEF DataTypes
    <3> QED BY <1>0, <3>1 DEF Repush
  <2>3. ~(Top \/ CheckRunning \/ Block \/ Unblock \/ Popped \/ LoopWait \/ WriteAllowed)
    BY <1>0 DEF Top, CheckRunning, Block, Unblock, Popped, LoopWait, WriteAllowed
  <2>4. ~(FutexWaiter \/ FutexExpires \/ IdleOver \/ Callback)
    BY <1>0 DEF FutexWaiter, FutexExpires, IdleOver, Callback, loopVars
  <2> QED BY <1>0, <1>1, <2>1, <2>2, <2>3, <2>4 DEF LoopTurn, Still, LoopStep
<1>2. CASE Takes \/ Answers \/ Tells \/ Idles
  BY <1>0, <1>2, TakesIs, AnswersIs, TellsIs, IdlesIs DEF Plays, loopVars
<1>3. ASSUME NEW a \in Apps, AppTurn(a) PROVE FALSE
  BY <1>0, <1>3, AppClears DEF AppTurn, Still, Clears
<1>4. ASSUME NEW a \in Apps, NEW o \in Ops, CallTurn(a, o) PROVE FALSE
  BY <1>0, <1>4, CallTurnIs DEF loopVars
<1> QED BY <1>0, <1>1, <1>2, <1>3, <1>4, Turns

\* Nothing is given up in a stream that plays.
LEMMA LostWhenStopped ==
    ASSUME DataWell, KeepsBuffers, [DataNext]_dataVars, Loses, ~restarted
    PROVE  ~Running
<1> SUFFICES ASSUME Running PROVE FALSE
  OBVIOUS
<1>0. LoopTurn /\ (WriteBegin \/ WriteRefused \/ WriteFrames) /\ temp # <<>> /\ temp' = <<>>
      /\ ring' = ring /\ Writes /\ Sizes
  BY LosesIs, WellParts DEF KeepsBuffers
<1>1. CASE WriteBegin
  BY <1>0, <1>1 DEF WriteBegin
<1>2. CASE WriteRefused
  BY <1>0, <1>2 DEF WriteRefused, Writes
<1>3. CASE WriteFrames
  <2> DEFINE n == Least(Len(temp), Total - Len(ring))
  <2>1. HasRoom
    BY <1>0, <1>3 DEF WriteFrames, Writes
  <2>2. n \in 1 .. Len(temp)
    BY <1>0, <2>1 DEF Sizes, Buffers, HasRoom, Least
  <2>3. Copies(n)
    BY <1>0, <1>3, <2>1, <2>2 DEF WriteFrames, Copies, Sizes, Buffers, HasRoom, LoopGoto, GiveUp, Least
  <2>4. Len(ring') = Len(ring) + n /\ Len(ring) \in Nat
    BY <1>0, <2>2, <2>3, CopyIs
  <2> QED BY <1>0, <2>2, <2>4
<1> QED BY <1>0, <1>1, <1>2, <1>3

(* However calls, answers and the engine interleave: while the stream is    *)
(* RUNNING, until it is started again, the loop gives up nothing that it    *)
(* has taken out of the queue - provided that neither Start nor the wait    *)
(* for room runs into its time limit, that no Flush is refused, that no     *)
(* signal interrupts the system call, and that FutexWait puts up with two   *)
(* wake-ups in vain (WAIT_TRY_COUNT is 50).                                 *)
THEOREM NothingLostWhileRunning ==
    ASSUME "start" \notin MayTimeOut, "write" \notin MayTimeOut,
           MayRefuse => "flush" \notin Ops, TryCount > 2
    PROVE  DataSpec => NoLossWhileRunning
<1>1. DataInit => DataWell /\ KeepsBuffers
  BY WellStart, BuffersStart
<1>2. DataWell /\ KeepsBuffers /\ [DataNext]_dataVars => DataWell' /\ KeepsBuffers'
  BY WellKept, BuffersKept
<1>3. DataWell /\ KeepsBuffers /\ [DataNext]_dataVars => [Loses => ~Running \/ restarted]_dataVars
  BY LostWhenStopped
<1> QED BY <1>1, <1>2, <1>3, PTL DEF DataSpec, NoLossWhileRunning

-----------------------------------------------------------------------------
(* No gaps.  As long as one call has been made, the frames taken, those in  *)
(* the ring, those of the buffer being written and those of the queue are   *)
(* all that the application has provided, one after the other.              *)

Before == taken + Len(ring) + Len(temp)

BufferNext(k) ==
    /\ Len(queue[k]) = Cb
    /\ \A i \in 1 .. Cb : queue[k][i] = queue[k][1] + i - 1
    /\ k = 1 => queue[k][1] = Before + 1
    /\ k > 1 => queue[k][1] = queue[k - 1][1] + Cb

NoGaps ==
    /\ \A i \in 1 .. Len(ring) : ring[i] = taken + i
    /\ \A i \in 1 .. Len(temp) : temp[i] = taken + Len(ring) + i
    /\ \A k \in 1 .. Len(queue) : BufferNext(k)
    /\ nextFrame = IF Len(queue) = 0 THEN Before + 1 ELSE queue[Len(queue)][1] + Cb

LEMMA NoGapsAtPops ==
    ASSUME DataTypes, Sizes, NoGaps, temp = <<>>, Pops
    PROVE  NoGaps'
<1>0. /\ taken \in Nat /\ nextFrame \in Nat /\ Cb \in Nat \ {0} /\ Len(ring) \in Nat
      /\ Len(queue) \in Nat
      /\ \A k \in 1 .. Len(queue) : \A i \in 1 .. Len(queue[k]) : queue[k][i] \in Nat
  BY FramesAre
<1>1. /\ queue # <<>> /\ queue \in Seq(Buffers) /\ temp' = queue[1]
      /\ queue' = Tail(queue) /\ UNCHANGED <<ring, nextFrame, taken>>
  BY DEF DataTypes, Pops
<1>2. /\ Len(queue) \in Nat \ {0} /\ Len(queue') = Len(queue) - 1
      /\ \A k \in 1 .. Len(queue) - 1 : queue'[k] = queue[k + 1]
  BY <1>1
<1>3. 1 \in 1 .. Len(queue) /\ \A k \in 1 .. Len(queue') : k + 1 \in 1 .. Len(queue)
  BY <1>2
<1>4. BufferNext(1)
  BY <1>3 DEF NoGaps
<1>5. Before = taken + Len(ring) /\ Before' = Before + Cb /\ Before \in Nat /\ Before' \in Nat
  BY <1>0, <1>1, <1>4 DEF Before, BufferNext
<1>6. /\ queue[1][1] = Before + 1 /\ Len(queue[1]) = Cb
      /\ \A i \in 1 .. Cb : queue[1][i] = Before + 1 + i - 1
  BY <1>4 DEF BufferNext
<1>7. ASSUME NEW i \in 1 .. Len(temp') PROVE temp'[i] = taken' + Len(ring') + i
  <2>1. i \in 1 .. Cb /\ temp'[i] = queue[1][i] /\ taken' = taken /\ ring' = ring
    BY <1>1, <1>6
  <2>2. queue[1][i] = Before + 1 + i - 1
    BY <1>6, <2>1
  <2> QED BY <1>0, <1>5, <2>1, <2>2
<1>8. ASSUME NEW k \in 1 .. Len(queue') PROVE BufferNext(k)'
  <2>1. BufferNext(k + 1) /\ queue'[k] = queue[k + 1]
    BY <1>2, <1>3 DEF NoGaps
  <2>2. Len(queue'[k]) = Cb /\ \A i \in 1 .. Cb : queue'[k][i] = queue'[k][1] + i - 1
    BY <2>1 DEF BufferNext
  <2>3. queue'[k][1] = queue[k][1] + Cb
    <3>1. k + 1 > 1 /\ k + 1 - 1 = k
      BY <1>2
    <3> QED BY <2>1, <3>1 DEF BufferNext
  <2>4. k = 1 => queue'[k][1] = Before' + 1
    <3>1. queue[1][1] = Before + 1 /\ Before' = Before + Cb
      BY <1>5, <1>6
    <3>2. k = 1 => queue'[k][1] = queue[1][1] + Cb
      BY <2>3
    <3> QED BY <1>0, <1>5, <3>1, <3>2
  <2>5. k > 1 => queue'[k][1] = queue'[k - 1][1] + Cb
    <3> SUFFICES ASSUME k > 1 PROVE queue'[k][1] = queue'[k - 1][1] + Cb
      OBVIOUS
    <3>1. k - 1 \in 1 .. Len(queue) - 1 /\ k - 1 + 1 = k
      BY <1>2
    <3> QED BY <1>2, <2>3, <3>1
  <2> QED BY <2>2, <2>4, <2>5 DEF BufferNext
<1>9. nextFrame' = IF Len(queue') = 0 THEN Before' + 1 ELSE queue'[Len(queue')][1] + Cb
  <2>1. nextFrame' = queue[Len(queue)][1] + Cb
    BY <1>1, <1>2 DEF NoGaps
  <2>2. CASE Len(queue') = 0
    <3>1. Len(queue) = 1
      BY <1>2, <2>2
    <3> QED BY <1>0, <1>5, <1>6, <2>1, <2>2, <3>1
  <2>3. CASE Len(queue') # 0
    <3>1. Len(queue') \in 1 .. Len(queue) - 1 /\ Len(queue') + 1 = Len(queue)
      BY <1>2, <2>3
    <3>2. queue'[Len(queue')] = queue[Len(queue)]
      BY <1>2, <3>1
    <3> QED BY <2>1, <2>3, <3>2
  <2> QED BY <2>2, <2>3
<1> QED BY <1>1, <1>7, <1>8, <1>9 DEF NoGaps

\* What goes from the front of the line to its end leaves the rest where it is.
LEMMA NoGapsBehind ==
    ASSUME NoGaps, UNCHANGED <<queue, nextFrame, Before>>,
           \A i \in 1 .. Len(ring') : ring'[i] = taken' + i,
           \A i \in 1 .. Len(temp') : temp'[i] = taken' + Len(ring') + i
    PROVE  NoGaps'
BY DEF NoGaps, BufferNext

LEMMA NoGapsAtCopies ==
    ASSUME DataTypes, Sizes, NoGaps, NEW n \in 1 .. Len(temp), Copies(n)
    PROVE  NoGaps'
<1>0. taken \in Nat /\ Len(ring) \in Nat /\ Len(temp) \in Nat
  BY FramesAre
<1>1. UNCHANGED <<queue, nextFrame, taken>>
  BY DEF Copies
<1>2. /\ Len(ring') = Len(ring) + n /\ Len(temp') = Len(temp) - n
      /\ \A i \in 1 .. Len(ring) : ring'[i] = ring[i]
      /\ \A i \in 1 .. n : ring'[Len(ring) + i] = temp[i]
      /\ \A i \in 1 .. Len(temp) - n : temp'[i] = temp[n + i]
  BY CopyIs
<1>3. Before' = Before
  BY <1>0, <1>1, <1>2 DEF Before
<1>4. ASSUME NEW i \in 1 .. Len(ring') PROVE ring'[i] = taken' + i
  <2>1. CASE i \in 1 .. Len(ring)
    BY <1>1, <1>2, <2>1 DEF NoGaps
  <2>2. CASE i \notin 1 .. Len(ring)
    <3> DEFINE j == i - Len(ring)
    <3>1. j \in 1 .. n
      <4>1. i \in Int /\ 1 <= i /\ i <= Len(ring) + n
        BY <1>2
      <4>2. i > Len(ring)
        BY <1>0, <2>2, <4>1
      <4> QED BY <1>0, <4>1, <4>2
    <3> HIDE DEF j
    <3>2. i = Len(ring) + j /\ j \in 1 .. Len(temp)
      BY <1>0, <1>2, <3>1 DEF j
    <3>3. ring'[i] = temp[j]
      BY <1>2, <3>2
    <3>4. temp[j] = taken + Len(ring) + j
      BY <3>2 DEF NoGaps
    <3> QED BY <1>0, <1>1, <3>2, <3>3, <3>4
  <2> QED BY <2>1, <2>2
<1>5. ASSUME NEW i \in 1 .. Len(temp') PROVE temp'[i] = taken' + Len(ring') + i
  <2>1. n + i \in 1 .. Len(temp) /\ temp'[i] = temp[n + i]
    BY <1>0, <1>2
  <2>2. temp[n + i] = taken + Len(ring) + (n + i)
    BY <2>1 DEF NoGaps
  <2> QED BY <1>0, <1>1, <1>2, <2>1, <2>2
<1> QED BY <1>1, <1>3, <1>4, <1>5, NoGapsBehind

LEMMA NoGapsAtPlays ==
    ASSUME DataTypes, Sizes, NoGaps, NEW n \in 1 .. Len(ring), Plays(n)
    PROVE  NoGaps' /\ taken' = taken + n
<1>0. taken \in Nat /\ Len(ring) \in Nat /\ Len(temp) \in Nat
  BY FramesAre
<1>1. /\ Len(ring') = Len(ring) - n /\ taken' = ring[n]
      /\ UNCHANGED <<queue, temp, nextFrame>>
      /\ \A i \in 1 .. Len(ring) - n : ring'[i] = ring[n + i]
  BY PlayIs
<1>2. taken' = taken + n
  BY <1>1 DEF NoGaps
<1>3. Before' = Before
  BY <1>0, <1>1, <1>2 DEF Before
<1>4. ASSUME NEW i \in 1 .. Len(ring') PROVE ring'[i] = taken' + i
  <2>1. n + i \in 1 .. Len(ring) /\ ring'[i] = ring[n + i]
    BY <1>0, <1>1
  <2>2. ring[n + i] = taken + (n + i)
    BY <2>1 DEF NoGaps
  <2> QED BY <1>0, <1>2, <2>1, <2>2
<1>5. ASSUME NEW i \in 1 .. Len(temp') PROVE temp'[i] = taken' + Len(ring') + i
  BY <1>0, <1>1, <1>2 DEF NoGaps
<1> QED BY <1>1, <1>2, <1>3, <1>4, <1>5, NoGapsBehind

LEMMA NoGapsAtProvides ==
    ASSUME DataTypes, Sizes, NoGaps, Provides
    PROVE  NoGaps'
<1>0. /\ taken \in Nat /\ nextFrame \in Nat /\ Cb \in Nat \ {0} /\ Len(queue) \in Nat
      /\ Len(ring) \in Nat /\ Len(temp) \in Nat
  BY FramesAre
<1>1. PICK buf \in Buffers :
        /\ Len(buf) = Cb /\ queue' = Append(queue, buf)
        /\ \A i \in 1 .. Cb : buf[i] = nextFrame + i - 1
  BY ProvideIs
<1>2. nextFrame' = nextFrame + Cb /\ UNCHANGED <<temp, ring, taken, Before>>
  BY DEF Provides, Before
<1>3. /\ Len(queue') = Len(queue) + 1 /\ queue'[Len(queue) + 1] = buf
      /\ \A k \in 1 .. Len(queue) : queue'[k] = queue[k]
  BY <1>1 DEF DataTypes
<1>4. buf[1] = nextFrame /\ \A i \in 1 .. Cb : buf[i] = buf[1] + i - 1
  <2>1. 1 \in 1 .. Cb
    BY <1>0
  <2>2. buf[1] = nextFrame
    BY <1>0, <1>1, <2>1
  <2> QED BY <1>1, <2>2
<1>5. ASSUME NEW k \in 1 .. Len(queue) PROVE BufferNext(k)'
  <2>1. BufferNext(k) /\ queue'[k] = queue[k] /\ (k > 1 => queue'[k - 1] = queue[k - 1])
    BY <1>0, <1>3 DEF NoGaps
  <2> QED BY <1>2, <2>1 DEF BufferNext
<1>6. ASSUME NEW k \in 1 .. Len(queue'), k = Len(queue) + 1 PROVE BufferNext(k)'
  <2>1. queue'[k] = buf
    BY <1>3, <1>6
  <2>2. CASE Len(queue) = 0
    <3>1. k = 1 /\ nextFrame = Before + 1
      BY <1>6, <2>2 DEF NoGaps
    <3> QED BY <1>1, <1>2, <1>4, <2>1, <3>1 DEF BufferNext
  <2>3. CASE Len(queue) # 0
    <3>1. /\ nextFrame = queue[Len(queue)][1] + Cb /\ k # 1 /\ k - 1 = Len(queue)
          /\ queue'[Len(queue)] = queue[Len(queue)]
      <4>1. nextFrame = queue[Len(queue)][1] + Cb
        BY <2>3 DEF NoGaps
      <4>2. Len(queue) \in 1 .. Len(queue)
        BY <1>0, <2>3
      <4>3. queue'[Len(queue)] = queue[Len(queue)]
        BY <1>3, <4>2
      <4>4. k # 1 /\ k - 1 = Len(queue)
        BY <1>0, <1>6, <2>3
      <4> QED BY <4>1, <4>3, <4>4
    <3> QED BY <1>1, <1>2, <1>4, <2>1, <3>1 DEF BufferNext
  <2> QED BY <2>2, <2>3
<1>7. \A k \in 1 .. Len(queue') : BufferNext(k)'
  BY <1>0, <1>3, <1>5, <1>6
<1>8. nextFrame' = queue'[Len(queue')][1] + Cb /\ Len(queue') # 0
  BY <1>0, <1>2, <1>3, <1>4
<1> QED BY <1>2, <1>7, <1>8 DEF NoGaps

LEMMA NoGapsWhileKept == ASSUME NoGaps, Kept PROVE NoGaps'
BY DEF NoGaps, BufferNext, Before, Kept

LEMMA NoGapsWhenFresh == ASSUME Fresh PROVE NoGaps
<1>1. Len(<<>>) = 0
  OBVIOUS
<1> QED BY <1>1 DEF Fresh, NoGaps, Before

\* What is in the loop's hands.
TempHeld == lpc \notin {"popped", "wlock", "write", "writing", "region"} => temp = <<>>

LEMMA TempHeldKept == ASSUME DataWell, TempHeld, [DataNext]_dataVars PROVE TempHeld'
<1>0. DataTypes /\ Sizes
  BY WellParts
<1>1. ASSUME lpc' = lpc, temp' = temp PROVE TempHeld'
  BY <1>1 DEF TempHeld
<1>2. CASE LoopTurn
  <2> USE DEF TempHeld, LoopGoto
  <2>1. CASE Top \/ CheckRunning \/ Block \/ Unblock \/ IdleOver \/ Callback
    BY <2>1 DEF Top, CheckRunning, Block, Unblock, IdleOver, Callback
  <2>2. CASE Pop \/ Repush \/ Popped
    BY <2>2 DEF Pop, Repush, Popped
  <2>3. CASE WriteBegin \/ WriteRefused \/ WriteAllowed
    BY <2>3 DEF WriteBegin, WriteRefused, WriteAllowed, GiveUp
  <2>4. CASE LoopWait
    BY <2>4 DEF LoopWait
  <2>5. CASE FutexWaiter \/ FutexExpires
    BY <1>1, <2>5 DEF FutexWaiter, FutexExpires, loopVars
  <2>6. CASE WriteFrames
    <3> DEFINE n == Least(Len(temp), Total - Len(ring))
    <3>1. CASE n = 0
      BY <2>6, <3>1 DEF WriteFrames, GiveUp
    <3>2. CASE n # 0 /\ n # Len(temp)
      BY <2>6, <3>2 DEF WriteFrames
    <3>3. CASE n # 0 /\ n = Len(temp)
      <4>1. n \in 1 .. Len(temp)
        BY <1>0, <3>3 DEF Sizes, Buffers
      <4>2. temp' = Drop(n, temp)
        BY <2>6, <3>3 DEF WriteFrames
      <4>3. Drop(n, temp) \in Buffers /\ Len(Drop(n, temp)) = 0
        <5>1. n \in 0 .. Len(temp) /\ Len(temp) \in Nat
          BY <1>0, <4>1 DEF Sizes, Buffers
        <5> HIDE DEF n
        <5>2. PICK m \in 0 .. Len(temp) : m = n
          BY <5>1
        <5>3. Drop(m, temp) \in Seq(1 .. MaxFrames) /\ Len(Drop(m, temp)) = Len(temp) - m
          BY <1>0, <5>2, TakeIs DEF Sizes, Buffers
        <5> QED BY <3>3, <5>1, <5>2, <5>3 DEF Buffers
      <4> QED BY <4>2, <4>3, EmptySeq DEF Buffers
    <3> QED BY <3>1, <3>2, <3>3
  <2> QED BY <1>2, <2>1, <2>2, <2>3, <2>4, <2>5, <2>6 DEF LoopTurn, Still, LoopStep
<1>3. CASE Takes \/ Answers \/ Tells \/ Idles
  BY <1>0, <1>1, <1>3, TakesIs, AnswersIs, TellsIs, IdlesIs DEF Plays, loopVars
<1>4. ASSUME NEW a \in Apps, AppTurn(a) PROVE TempHeld'
  BY <1>1, <1>4, AppClears DEF AppTurn, Still, Clears
<1>5. ASSUME NEW a \in Apps, NEW o \in Ops, CallTurn(a, o) PROVE TempHeld'
  BY <1>1, <1>5, CallTurnIs DEF loopVars
<1> QED BY <1>2, <1>3, <1>4, <1>5, Turns

\* How many calls there have been.
LEMMA CallCounts ==
    ASSUME DataWell, NEW a \in Apps, NEW o \in Ops, CallTurn(a, o)
    PROVE  ops' = ops + 1 /\ ops' # ops
<1>1. ops \in Nat
  BY WellParts DEF Control, ControlTypes, ControlTypeOK
<1>2. ops' = ops + 1
  BY CallTurnIs DEF Call
<1> QED BY <1>1, <1>2

LEMMA OpsMoves ==
    ASSUME DataWell, [DataNext]_dataVars
    PROVE  \/ ops' = ops /\ restarted' = restarted
           \/ \E a \in Apps, o \in Ops : CallTurn(a, o)
<1>0. Control /\ Sizes /\ ops \in Nat
  BY WellParts DEF Control, ControlTypes, ControlTypeOK
<1>1. CASE LoopTurn
  BY <1>0, <1>1, LoopSteps DEF LoopMove, Spares
<1>2. CASE Takes \/ Answers \/ Tells \/ Idles
  BY <1>0, <1>2, TakesIs, AnswersIs, TellsIs, IdlesIs
     DEF controlVars, clientVars, OnOperationHandled
<1>3. ASSUME NEW a \in Apps, AppTurn(a) PROVE ops' = ops /\ restarted' = restarted
  BY <1>0, <1>3, AppKinds, CallWays DEF Control, controlVars, clientVars
<1> QED BY <1>1, <1>2, <1>3, Turns

(* The only call there has been is Start: the server is asked for nothing   *)
(* else; before the answer nothing has moved, and then the stream plays.    *)
OnlyStarts(s) == \A r \in Requests \ {"start"} : ~Holds(s, r)

SoloStart ==
    /\ \A a \in Apps : pc[a] # "idle" => op[a] = "start" /\ pc[a] # "undo"
    /\ OnlyStarts(engine) /\ OnlyStarts(pending) /\ ~drained
    /\ Fresh \/ (Running /\ ~Starting)

(* It is another one: the stream never plays.                               *)
SoloOther ==
    /\ Fresh /\ Untouched
    /\ \A a \in Apps : pc[a] # "idle" => op[a] # "start"

Solo ==
    ops <= 1 => ~restarted /\ NoGaps /\ (ops = 0 \/ SoloStart \/ SoloOther)

LEMMA SoloOtherKept ==
    ASSUME DataWell, SoloOther, [DataNext]_dataVars, ops' = ops
    PROVE  SoloOther'
<1>0. /\ Control /\ Sizes /\ ControlTypes /\ DataPlaces /\ ops \in Nat
      /\ pc \in [Apps -> CallPcs] /\ Fresh /\ Untouched
  BY WellParts DEF Control, ControlTypes, ControlTypeOK, SoloOther
<1>1. Untouched'
  <2>1. CASE LoopTurn
    BY <1>0, <2>1, LoopSteps DEF LoopMove, Spares, Untouched, serverVars
  <2>2. CASE Takes \/ Idles
    BY <1>0, <2>2, TakesIs, IdlesIs DEF controlVars, clientVars, serverVars, Untouched
  <2>3. ~Answers /\ ~Tells
    <3>1. ~drained /\ Len(engine) = 0 /\ pending = <<>>
      BY <1>0 DEF Untouched
    <3>2. 1 .. Len(engine) = {}
      BY <3>1
    <3>3. ~Answers
      BY <3>1, <3>2, AnswersIs DEF Engine, DrainEnds
    <3>4. ~Tells
      BY <3>1, TellsIs DEF OnOperationHandled
    <3> QED BY <3>3, <3>4
  <2>4. ASSUME NEW a \in Apps, AppTurn(a) PROVE Untouched'
    <3>1. CASE WakeStep(a) /\ UNCHANGED <<controlVars, loopVars>>
      BY <1>0, <3>1 DEF controlVars, clientVars, serverVars, Untouched
    <3>2. CASE CallStep(a)
      <4>1. ~(op[a] = "start" /\ pc[a] = "lock")
        BY DEF SoloOther
      <4>2. /\ engine' = <<>> /\ UNCHANGED <<pending, drained>> /\ state' \in {state, "RELEASED"}
            /\ QuietPlace(op[a], pc'[a])
        BY <1>0, <3>2, <4>1, UntouchedCall
      <4>3. op' = op /\ \A b \in Apps \ {a} : pc'[b] = pc[b]
        BY <1>0, <3>2, CallWays
      <4> QED BY <1>0, <4>2, <4>3 DEF Untouched
    <3>3. CASE /\ UNCHANGED <<state, op, ops, drained, engine, pending>>
               /\ Finishes(a) \/ Wakens(a) \/ Exits(a)
      <4>1. QuietPlace(op[a], pc'[a]) /\ \A b \in Apps \ {a} : pc'[b] = pc[b]
        BY <1>0, <3>3 DEF Finishes, Wakens, Exits, Goto, Untouched, QuietPlace
      <4> QED BY <1>0, <3>3, <4>1 DEF Untouched
    <3> QED BY <2>4, <3>1, <3>2, <3>3, AppKinds
  <2> QED BY <2>1, <2>2, <2>3, <2>4, Turns, CallCounts
<1>2. Fresh'
  BY <1>0, <1>1, FreshStays DEF Untouched, Running
<1>3. ASSUME NEW a \in Apps, pc'[a] # "idle" PROVE op'[a] # "start"
  <2>1. CallStep(a) => pc[a] # "idle"
    BY <1>0, CallWays
  <2>2. op'[a] = op[a] /\ pc[a] # "idle"
    BY <1>0, <1>3, <2>1, StepOf DEF Finishes, Wakens, Exits
  <2> QED BY <2>2 DEF SoloOther
<1> QED BY <1>1, <1>2, <1>3 DEF SoloOther

LEMMA SoloStartKept ==
    ASSUME DataWell, KeepsBuffers, SoloStart, ops # 0, ~restarted', [DataNext]_dataVars, ops' = ops,
           "start" \notin MayTimeOut
    PROVE  SoloStart'
<1>0. /\ Control /\ Sizes /\ ControlTypes /\ DataPlaces /\ ops \in Nat /\ OneStart
      /\ pc \in [Apps -> CallPcs]
      /\ engine \in Seq(Requests) /\ pending \in Seq(Requests) /\ "start" \in Requests
  BY WellParts, RestartedStays
     DEF Control, ControlTypes, ControlTypeOK, KeepsBuffers, FreshUntilStart, Requests
<1>1. ASSUME NEW a \in Apps, pc'[a] # "idle" PROVE op'[a] = "start" /\ pc'[a] # "undo"
  <2>1. CallStep(a) => pc[a] # "idle" /\ (pc'[a] = "undo" => op[a] \in MayTimeOut)
    BY <1>0, CallWays
  <2>2. op'[a] = op[a] /\ pc[a] # "idle"
    BY <1>0, <1>1, <2>1, StepOf DEF Finishes, Wakens, Exits
  <2>3. op[a] = "start" /\ pc[a] # "undo"
    BY <2>2 DEF SoloStart
  <2>4. pc'[a] # "undo"
    <3>1. Finishes(a) \/ Wakens(a) \/ Exits(a) => pc'[a] # "undo"
      BY <1>0 DEF Finishes, Wakens, Exits, Goto
    <3> QED BY <1>0, <2>1, <2>2, <2>3, <3>1, StepOf
  <2> QED BY <2>2, <2>3, <2>4
\* What the calls change.
<1>2. ASSUME NEW a \in Apps, AppTurn(a)
      PROVE  /\ UNCHANGED <<state, drained, pending>>
             /\ engine' \in {engine, Append(engine, "start")}
  <2>1. ASSUME CallStep(a)
        PROVE  /\ UNCHANGED <<state, drained, pending>>
               /\ engine' \in {engine, Append(engine, "start")}
    <3>1. op[a] = "start" /\ pc[a] # "undo"
      BY <1>0, <2>1, CallWays DEF SoloStart
    <3> QED BY <1>0, <2>1, <3>1, CallWays
  <2> QED BY <1>2, <2>1, AppKinds DEF controlVars, clientVars, serverVars
<1>3. OnlyStarts(engine') /\ OnlyStarts(pending') /\ ~drained'
  <2>0. OnlyStarts(engine) /\ OnlyStarts(pending) /\ ~drained
    BY DEF SoloStart
  <2>1. CASE LoopTurn
    BY <1>0, <2>0, <2>1, LoopSteps DEF LoopMove, Spares, serverVars
  <2>2. CASE Takes \/ Idles
    BY <1>0, <2>0, <2>2, TakesIs, IdlesIs DEF controlVars, clientVars, serverVars
  <2>3. CASE Answers
    <3>1. PICK i \in 1 .. Len(engine) : EngineDone(i) \/ EngineDrained(i)
      BY <2>0, <2>3, AnswersIs DEF Engine, DrainEnds
    <3>2. engine[i] \in Requests /\ Holds(engine, engine[i])
      BY <1>0 DEF Holds
    <3>3. engine[i] = "start"
      BY <2>0, <3>2 DEF OnlyStarts
    <3>4. engine' = Without(engine, i) /\ pending' = Append(pending, "start") /\ drained' = drained
      BY <3>1, <3>3 DEF EngineDone, EngineDrained
    <3>5. OnlyStarts(engine')
      BY <1>0, <2>0, <3>4, HoldsBack DEF OnlyStarts
    <3>6. OnlyStarts(pending')
      BY <1>0, <2>0, <3>4, HoldsBack DEF OnlyStarts
    <3> QED BY <2>0, <3>4, <3>5, <3>6
  <2>4. CASE Tells
    <3>1. UNCHANGED <<engine, drained>> /\ pending # <<>> /\ pending' = Tail(pending)
      BY <2>4, TellsIs DEF OnOperationHandled
    <3>2. OnlyStarts(pending')
      BY <1>0, <2>0, <3>1, HoldsBack DEF OnlyStarts
    <3> QED BY <2>0, <3>1, <3>2
  <2>5. ASSUME NEW a \in Apps, AppTurn(a) PROVE OnlyStarts(engine') /\ OnlyStarts(pending') /\ ~drained'
    <3>1. OnlyStarts(Append(engine, "start"))
      BY <1>0, <2>0, HoldsBack DEF OnlyStarts
    <3> QED BY <1>2, <2>0, <2>5, <3>1
  <2> QED BY <2>1, <2>2, <2>3, <2>4, <2>5, Turns, CallCounts
<1>4. Fresh' \/ (Running' /\ ~Starting')
  <2>1. CASE Fresh
    <3>1. CASE ~Running'
      BY <2>1, <3>1, FreshStays
    <3>2. CASE Running'
      BY <1>0, <2>1, <3>2, NotRunningStays DEF Fresh
    <3> QED BY <3>1, <3>2
  <2>2. CASE Running /\ ~Starting
    <3>1. ~Starting'
      BY <1>0, <2>2, StartKept
    <3>2. Running'
      <4>1. ~(Tells /\ pending # <<>>)
        <5> SUFFICES ASSUME pending # <<>> PROVE FALSE
          OBVIOUS
        <5>1. 1 \in 1 .. Len(pending) /\ pending[1] \in Requests
          BY <1>0
        <5>2. Holds(pending, pending[1])
          BY <5>1 DEF Holds
        <5>3. pending[1] = "start"
          BY <5>1, <5>2 DEF SoloStart, OnlyStarts
        <5> QED BY <2>2, <5>2, <5>3 DEF Starting
      <4>2. state' = state
        BY <1>2, <4>1, StateMoves
      <4> QED BY <2>2, <4>2 DEF Running
    <3> QED BY <3>1, <3>2
  <2> QED BY <2>1, <2>2 DEF SoloStart
<1> QED BY <1>1, <1>3, <1>4 DEF SoloStart

\* Start leaves the data alone.
LEMMA StartSpares ==
    ASSUME NEW a \in Apps, AppTurn(a), op[a] = "start" \/ pc[a] = "idle"
    PROVE  Kept
<1> USE DEF Kept, loopVars
<1>0. Clears
  BY AppClears DEF AppTurn, Still
<1>1. CASE ControlStep(a)
  <2>1. ~ClearsQueue(a) /\ ~FlushesRing(a)
    BY DEF ClearsQueue, FlushesRing, At
  <2> QED BY <1>0, <1>1, <2>1 DEF ControlStep, Clears
<1>2. CASE NotifyLoop(a) \/ Woken(a) \/ Joined(a)
  BY <1>2 DEF NotifyLoop, Woken, Joined
<1>3. CASE StopLoop(a)
  BY <1>3 DEF StopLoop
<1>4. CASE WakeWriter(a) \/ PreExit(a) \/ Wakes(a)
  BY <1>4 DEF WakeWriter, PreExit, Wakes
<1> QED BY <1>1, <1>2, <1>3, <1>4 DEF AppTurn, Still, AppStep

LEMMA NoGapsKept ==
    ASSUME DataWell, KeepsBuffers, TempHeld, NoGaps, ~restarted, SoloStart \/ SoloOther,
           [DataNext]_dataVars
    PROVE  NoGaps'
<1>0. DataTypes /\ Sizes
  BY WellParts
<1>1. Fresh \/ (Running /\ SoloStart)
  BY DEF SoloStart, SoloOther
<1>2. CASE LoopTurn
  <2>1. LoopData
    BY <1>0, <1>2, LoopSteps DEF LoopMove
  <2>2. CASE Kept
    BY <2>2, NoGapsWhileKept
  <2>3. CASE Pops
    BY <1>0, <2>3, NoGapsAtPops DEF TempHeld, Pops
  <2>4. CASE Repushes
    BY <1>1, <2>4 DEF Repushes, Fresh, FreshPcs, ParkedPcs
  <2>5. CASE Drops
    <3>1. CASE temp = <<>>
      <4>1. Kept
        BY <2>5, <3>1 DEF Drops, Kept
      <4> QED BY <4>1, NoGapsWhileKept
    <3>2. CASE temp # <<>>
      <4>1. Loses
        BY <2>5, <3>2 DEF Drops, Loses
      <4>2. ~Running
        BY <4>1, LostWhenStopped
      <4> QED BY <1>1, <2>5, <4>2 DEF Drops, Fresh, FreshPcs, ParkedPcs
    <3> QED BY <3>1, <3>2
  <2>6. CASE Provides
    BY <1>0, <2>6, NoGapsAtProvides
  <2>7. ASSUME NEW n \in 1 .. Len(temp), Copies(n) PROVE NoGaps'
    BY <1>0, <2>7, NoGapsAtCopies
  <2> QED BY <2>1, <2>2, <2>3, <2>4, <2>5, <2>6, <2>7 DEF LoopData
<1>3. CASE Takes
  <2>1. PICK n \in 1 .. Len(ring) : Plays(n)
    BY <1>0, <1>3, TakesIs
  <2> QED BY <1>0, <2>1, NoGapsAtPlays
<1>4. CASE Answers \/ Tells \/ Idles
  BY <1>4, AnswersIs, TellsIs, IdlesIs, NoGapsWhileKept
<1>5. ASSUME NEW a \in Apps, AppTurn(a) PROVE NoGaps'
  <2>1. Kept
    <3>1. CASE Fresh
      BY <1>5, <3>1, AppClears DEF AppTurn, Still, Clears, Kept, Fresh
    <3>2. CASE SoloStart
      BY <1>5, <3>2, StartSpares DEF SoloStart
    <3> QED BY <1>1, <3>1, <3>2
  <2> QED BY <2>1, NoGapsWhileKept
<1>6. ASSUME NEW a \in Apps, NEW o \in Ops, CallTurn(a, o) PROVE NoGaps'
  BY <1>6, CallTurnIs, NoGapsWhileKept
<1> QED BY <1>2, <1>3, <1>4, <1>5, <1>6, Turns

LEMMA SoloKept ==
    ASSUME DataWell, KeepsBuffers, TempHeld, Solo, KeepsBuffers', [DataNext]_dataVars,
           "start" \notin MayTimeOut
    PROVE  Solo'
<1> SUFFICES ASSUME ops' <= 1
             PROVE  ~restarted' /\ NoGaps' /\ (ops' = 0 \/ SoloStart' \/ SoloOther')
  BY DEF Solo
<1>0. Control /\ Sizes /\ ops \in Nat /\ pc \in [Apps -> CallPcs] /\ op \in [Apps -> Ops \cup {"none"}]
  BY WellParts DEF Control, ControlTypes, ControlTypeOK
<1>1. CASE ops' = ops /\ restarted' = restarted
  <2>0. ~restarted /\ ~restarted' /\ NoGaps /\ (ops = 0 \/ SoloStart \/ SoloOther)
    BY <1>1 DEF Solo
  <2>1. CASE ops = 0
    <3>1. Fresh /\ Fresh'
      BY <1>1, <2>0, <2>1 DEF KeepsBuffers, FreshUntilStart
    <3>2. Kept
      BY <3>1 DEF Fresh, Kept
    <3>3. NoGaps'
      BY <2>0, <3>2, NoGapsWhileKept
    <3> QED BY <1>1, <2>0, <2>1, <3>3
  <2>2. CASE ops # 0
    <3>1. NoGaps'
      <4>1. CASE SoloStart
        BY <2>0, <4>1, NoGapsKept
      <4>2. CASE SoloOther
        BY <2>0, <4>2, NoGapsKept
      <4> QED BY <2>0, <2>2, <4>1, <4>2
    <3>2. SoloStart => SoloStart'
      BY <1>1, <2>0, <2>2, SoloStartKept
    <3>3. SoloOther => SoloOther'
      BY <1>1, SoloOtherKept
    <3> QED BY <2>0, <2>2, <3>1, <3>2, <3>3
  <2> QED BY <2>1, <2>2
<1>2. ASSUME NEW a \in Apps, NEW o \in Ops, CallTurn(a, o)
      PROVE  ~restarted' /\ NoGaps' /\ (ops' = 0 \/ SoloStart' \/ SoloOther')
  <2>1. ops = 0
    BY <1>0, <1>2, CallCounts
  <2>2. ~restarted /\ NoGaps
    BY <2>1 DEF Solo
  <2>3. /\ Fresh /\ Untouched /\ \A b \in Apps : pc[b] = "idle"
    BY <2>1, <2>2 DEF KeepsBuffers, FreshUntilStart, StartAsked, NotAsked
  <2>4. /\ UNCHANGED <<futexVars, loopVars>> /\ Kept /\ ~restarted' /\ Call(a, o)
    <3>1. ~(ops > 0)
      BY <2>1
    <3>2. restarted' = (restarted \/ (o = "start" /\ ops > 0))
      BY <1>2, CallTurnIs
    <3>3. ~restarted'
      BY <2>2, <3>1, <3>2
    <3> QED BY <1>2, <3>3, CallTurnIs
  <2>5. /\ UNCHANGED <<state, engine, pending, drained>>
        /\ pc'[a] = "lock" /\ op'[a] = o
        /\ \A b \in Apps \ {a} : pc'[b] = "idle"
    BY <1>0, <2>3, <2>4 DEF Call, Goto, serverVars
  <2>6. NoGaps'
    BY <2>2, <2>4, NoGapsWhileKept
  <2>7. Fresh'
    BY <2>3, <2>5, FreshStays DEF Fresh, Running
  <2>8. CASE o = "start"
    <3>1. OnlyStarts(engine') /\ OnlyStarts(pending') /\ ~drained'
      BY <2>3, <2>5 DEF Untouched, OnlyStarts, Holds
    <3>2. \A b \in Apps : pc'[b] # "idle" => op'[b] = "start" /\ pc'[b] # "undo"
      BY <2>5, <2>8
    <3> QED BY <2>4, <2>6, <2>7, <3>1, <3>2 DEF SoloStart
  <2>9. CASE o # "start"
    <3>1. Untouched'
      BY <2>3, <2>5 DEF Untouched, QuietPlace
    <3>2. \A b \in Apps : pc'[b] # "idle" => op'[b] # "start"
      BY <2>5, <2>9
    <3> QED BY <2>4, <2>6, <2>7, <3>1, <3>2 DEF SoloOther
  <2> QED BY <2>8, <2>9
<1> QED BY <1>1, <1>2, OpsMoves

LEMMA SoloStarts == DataInit => TempHeld /\ Solo
<1> SUFFICES ASSUME DataInit PROVE TempHeld /\ Solo
  OBVIOUS
<1>1. temp = <<>> /\ ops = 0 /\ ~restarted
  BY DEF DataInit, ControlInit
<1>2. NoGaps
  <2>1. Fresh
    BY <1>1, ForwardStart DEF Forward, FreshUntilStart
  <2> QED BY <2>1, NoGapsWhenFresh
<1> QED BY <1>1, <1>2 DEF TempHeld, Solo

(* However the loop, the engine and the one call that has been made         *)
(* interleave: the engine plays every frame that the application has        *)
(* provided, one after the other - provided again that neither Start nor    *)
(* the wait for room runs into its time limit, that no Flush is refused,    *)
(* and that FutexWait puts up with two spurious wake-ups.                   *)
THEOREM AlwaysWithoutGaps ==
    ASSUME "start" \notin MayTimeOut, "write" \notin MayTimeOut,
           MayRefuse => "flush" \notin Ops, TryCount > 2
    PROVE  DataSpec => PlayedWithoutGaps
<1> DEFINE Inv == DataWell /\ KeepsBuffers /\ TempHeld /\ Solo
<1>1. DataInit => Inv
  BY WellStart, BuffersStart, SoloStarts
<1>2. Inv /\ [DataNext]_dataVars => Inv'
  <2> SUFFICES ASSUME DataWell, KeepsBuffers, TempHeld, Solo, [DataNext]_dataVars
               PROVE  DataWell' /\ KeepsBuffers' /\ TempHeld' /\ Solo'
    OBVIOUS
  <2>1. DataWell' /\ KeepsBuffers' /\ TempHeld'
    BY WellKept, BuffersKept, TempHeldKept
  <2> QED BY <2>1, SoloKept
<1>3. Inv /\ [DataNext]_dataVars =>
        [ops <= 1 => \A f \in taken + 1 .. taken' :
                         \E i \in 1 .. Len(ring) : ring[i] = f]_dataVars
  <2> SUFFICES ASSUME Inv, [DataNext]_dataVars, ops <= 1, NEW f \in taken + 1 .. taken'
               PROVE  \E i \in 1 .. Len(ring) : ring[i] = f
    OBVIOUS
  <2>0. DataTypes /\ Sizes /\ NoGaps /\ taken \in Nat /\ Len(ring) \in Nat
    BY WellParts, FramesAre DEF Solo
  <2>1. taken' # taken
    BY <2>0
  <2>2. PICK n \in 1 .. Len(ring) : Plays(n)
    BY <2>1, TakenMoves
  <2>3. taken' = taken + n
    BY <2>0, <2>2, NoGapsAtPlays
  <2>4. f - taken \in 1 .. Len(ring) /\ taken + (f - taken) = f
    BY <2>0, <2>3
  <2>5. ring[f - taken] = taken + (f - taken)
    BY <2>0, <2>4 DEF NoGaps
  <2> QED BY <2>4, <2>5
<1> HIDE DEF Inv
<1> QED BY <1>1, <1>2, <1>3, PTL DEF DataSpec, PlayedWithoutGaps

(* Both: the order in which a stream that is started once is heard.         *)
THEOREM AlwaysPlayedInOrder ==
    ASSUME "start" \notin MayTimeOut, "write" \notin MayTimeOut,
           MayRefuse => "flush" \notin Ops, TryCount > 2
    PROVE  DataSpec => PlayedInOrder
BY AlwaysPlayedForward, AlwaysWithoutGaps DEF PlayedInOrder
=============================================================================
