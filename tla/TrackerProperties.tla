--------------------------- MODULE TrackerProperties ---------------------------
(***************************************************************************)
(* What the tracker task has to guarantee, beside the loop that takes its  *)
(* addresses.                                                              *)
(***************************************************************************)
EXTENDS TrackerIO

\* After the first announce no announce follows another sooner than the first
\* backoff or the shortest interval, however short an interval the tracker asks
\* for, nor later than the longest of what the code or the tracker can ask for.
WaitsBounded ==
  /\ backoff \in InitialBackoff .. MaxBackoff
  /\ interval # 0 => interval \in Lower(InitialBackoff, MinInterval) .. Higher(MaxBackoff, MaxInterval)
  /\ accepted # {} => interval # 0

-----------------------------------------------------------------------------
\* Fairness

\* The task wakes up and sends, the loop takes what it is sent, an HTTP request
\* ends by an answer or by the timeout of the client, and a tracker that is
\* asked again and again answers at some time.  Nothing is assumed of UDP: a
\* request or an answer that is lost is waited for for ever.
TrackerFairSpec ==
  /\ TrackerSpec
  /\ WF_trackerVars(Announce)
  /\ WF_trackerVars(PassOn)
  /\ WF_trackerVars(Take)
  /\ WF_trackerVars(HttpTimeout \/ \E r \in Replies : HttpAnswer(r))
  /\ SF_trackerVars(\E r \in Replies : HttpParses(r) /\ HttpAnswer(r))

\* An HTTP tracker learns of the completion, although announces fail and are
\* tried again, unless the swarm returns before.
CompletionIsAnnounced ==
  (transport = "http" /\ stats.left = 0) ~> ("Completed" \in accepted \/ ~listening)

=============================================================================
