--------------------------- MODULE NetReduceLive ----------------------------
(***************************************************************************)
(* Progress of the reduction protocol.  Links lose packets, but not        *)
(* forever: at most MaxLoss in a behaviour.  Every worker thread and every *)
(* stage of the switch runs again and again, whatever the others do.       *)
(***************************************************************************)
EXTENDS NetReduce

CONSTANT MaxLoss    \* bound of the model: packets lost in a behaviour

ASSUME MaxLossAssumption == MaxLoss \in Nat

VARIABLE lost       \* packets lost so far

liveVars == <<vars, lost>>

LiveInit == Init /\ lost = 0

\* The worker loop idles when the whole stream has been acknowledged.
AllDone == \A r \in Ranks : left[r] = NPkts

Idle == AllDone /\ UNCHANGED liveVars

LiveNext ==
    \/ /\ \/ \E r \in Ranks : Worker(r)
          \/ \E r \in Ranks : SwitchPass1(r)
          \/ SwitchPass2
       /\ UNCHANGED lost
    \/ Loss /\ lost < MaxLoss /\ lost' = lost + 1
    \/ Idle

Steady(A) == A /\ UNCHANGED <<switchVars, holder, lost>>

(***************************************************************************)
(* An empty window sends, as cwnd is at least CC_CWND_MIN and the frontend *)
(* posts the whole stream; a window without new acknowledgements times     *)
(* out; packets that are not lost are processed.  Strong fairness stands   *)
(* where a full queue of another actor, a bound of the model, may disable  *)
(* the step again and again.                                               *)
(***************************************************************************)
Fairness ==
    /\ \A r \in Ranks :
         /\ WF_liveVars(left[r] = next[r] /\ Steady(TxProcess(r)))
         /\ WF_liveVars(Steady(Timeout(r)))
         /\ WF_liveVars(Steady(RxRedundant(r)))
         /\ SF_liveVars(Steady(RxAccept(r)))
         /\ SF_liveVars(SwitchPass1(r) /\ UNCHANGED lost)
    /\ WF_liveVars(SwitchPass2 /\ UNCHANGED lost)

LiveSpec == LiveInit /\ [][LiveNext]_liveVars /\ Fairness

(***************************************************************************)
(* Every rank gets the response of every packet of the stream, whichever   *)
(* packets are lost on the way up, in recirculation or on the way down.    *)
(***************************************************************************)
EveryPacketAnswered == <>[]AllDone
=============================================================================
