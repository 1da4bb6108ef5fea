------------------------- MODULE RendererHandshake -------------------------
(***************************************************************************)
(* The control calls of RendererControl on their own: do the client's      *)
(* state_ and the server's status_ tell the same story?                    *)
(*                                                                         *)
(* A behaviour meets failures of one kind only: late answers (a wait other *)
(* than that for a drain reaches its limit) or refusals.                   *)
(***************************************************************************)
EXTENDS RendererControl

VARIABLE failure    \* the kind of failure met so far: "none", "late", "refused"

vars == <<controlVars, failure>>

Init == ControlInit /\ failure = "none"

(* What has failed in this step.                                            *)
Late == \E a \in Apps : TimeOut(a)
Refused ==
    \E a \in Apps :
      \/ /\ pc[a] \in {"drain", "ipc", "undo"} /\ op[a] # "release"
         /\ status' # status /\ engine' = engine
      \/ At(a, "release", "ipc") /\ pc'[a] = "join" /\ status' # "RELEASED"

Failing ==
    /\ failure' = IF Late THEN "late" ELSE IF Refused THEN "refused" ELSE failure
    /\ failure \in {"none", failure'}

App(a) == (CallStep(a) \/ Wake(a) \/ Join(a)) /\ Failing

Next ==
    \/ \E a \in Apps : App(a)
    \/ /\ Engine \/ OnOperationHandled \/ \E a \in Apps, o \in Ops : Call(a, o)
       /\ UNCHANGED failure

(* A call that can go on does; the engine completes what it has accepted;   *)
(* binder delivers one-way calls.                                           *)
Spec ==
    /\ Init /\ [][Next]_vars
    /\ \A a \in Apps : WF_vars(App(a))
    /\ WF_vars(Engine /\ UNCHANGED failure)
    /\ WF_vars(OnOperationHandled /\ UNCHANGED failure)

-----------------------------------------------------------------------------
TypeOK ==
    /\ ControlTypeOK
    /\ failure \in {"none", "late", "refused"}
    /\ statusMutex \in Apps \cup {Free}
    /\ writeMutex \in Apps \cup {Free}

(* Nothing is under way anywhere.                                           *)
AtRest ==
    /\ \A a \in Apps : pc[a] = "idle"
    /\ engine = <<>> /\ pending = <<>> /\ ~drained

Counterpart == [PREPARED |-> "IDLE", RUNNING |-> "STARTED",
                PAUSED |-> "PAUSED", STOPPED |-> "STOPPED",
                RELEASED |-> "RELEASED"]

(* At rest the two sides agree, whatever answers came late on the way - as  *)
(* long as the stream is not released: a late answer still sets the state   *)
(* of a released client.  And without a failure no call leaves the client   *)
(* in a state that only Release leads out of.                               *)
SidesAgree ==
    /\ /\ AtRest /\ failure # "refused" /\ state \in DOMAIN Counterpart
       /\ failure = "late" => "RELEASED" \notin {state, status}
       => status = Counterpart[state]
    /\ AtRest /\ failure = "none" => state \notin {"STOPPING", "INVALID"}

(* A call that returns success has had its effect in the server, unless the *)
(* answer of an earlier one came late.                                      *)
Achieved(o) ==
    CASE o = "start" -> status = "STARTED"
      [] o = "pause" -> status = "PAUSED"
      [] o = "stop"  -> status = "STOPPED"
      [] o = "flush" -> status \notin Flushing

Succeeds(a) ==
    \/ op[a] = "flush" /\ FlushAnswered(a)
    \/ op[a] \in {"start", "pause", "stop"} /\ Wake(a)

SuccessIsReal ==
    [][\A a \in Apps : failure # "late" /\ Succeeds(a) => Achieved(op[a])]_vars

(* A drain that completes after its wait has timed out and the Stop that     *)
(* asked for it has returned does not set the server to STARTED while the    *)
(* client is STOPPED.                                                        *)
LateDrainKeepsStopped ==
    [][DrainEnds /\ (\A a \in Apps : pc[a] = "idle") => state # "STOPPED"]_vars

(* Every control call returns.                                              *)
EveryCallReturns == \A a \in Apps : pc[a] # "idle" ~> pc[a] = "idle"
=============================================================================
