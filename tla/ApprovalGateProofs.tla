------------------------- MODULE ApprovalGateProofs -------------------------
(***************************************************************************)
(* Whatever the number of requests, restarts and clock ticks, a gate has   *)
(* one resolution and a job passes it only by an approval of its own gate. *)
(***************************************************************************)
EXTENDS ApprovalGate, TLAPS

\* What a row holds after ResolveGate: the decision if it was pending.
LEMMA Resolving ==
  ASSUME TypeOK, NEW g \in GateIds, NEW st \in Resolved
  PROVE  /\ ResolveGate(g, st) \in [GateIds -> Resolved \cup {"pending", "absent"}]
         /\ \A h \in GateIds : ResolveGate(g, st)[h] =
              IF h = g /\ gstatus[g] = "pending" THEN st ELSE gstatus[h]
  BY DEF TypeOK, ResolveGate, Resolved, Decisions

\* The variables keep the shape of the columns and locals they model, and the
\* goroutine and the requests only ever work on gates that were opened.
THEOREM GateTypes == Spec => [](TypeOK /\ GateOpened)
<1>1. Init => TypeOK
  <2> SUFFICES ASSUME Init PROVE TypeOK
    OBVIOUS
  <2>1. cancelled \in BOOLEAN /\ runRow \in BOOLEAN
    BY DEF Init
  <2>2. now \in 0..MaxTime /\ gates \in 0..MaxGates /\ createdAt \in 0..MaxTime
          /\ requests \in 0..MaxRequests /\ qgate \in [Resolvers -> 0..MaxGates]
    BY GateAssumption DEF Init
  <2>3. /\ gstatus \in [GateIds -> Resolved \cup {"pending", "absent"}]
        /\ rpc \in Waiting \cup {"passed", "failed", "down"}
        /\ qpc \in [Resolvers -> {"idle", "resolve"}]
        /\ qact \in [Resolvers -> Decisions]
        /\ won \subseteq GateIds \X Decisions \X Resolvers
    BY DEF Init, Waiting, Decisions
  <2> QED BY <2>1, <2>2, <2>3 DEF TypeOK
<1>2. TypeOK /\ GateOpened /\ [Next]_vars => TypeOK'
  <2> SUFFICES ASSUME TypeOK, GateOpened, [Next]_vars PROVE TypeOK'
    OBVIOUS
  <2> USE GateAssumption DEF TypeOK, Waiting, reqVars
  <2>1. CASE RunGate        BY <2>1 DEF RunGate
  <2>2. CASE SaveGate       BY <2>2 DEF SaveGate
  <2>3. CASE CheckDeadline  BY <2>3 DEF CheckDeadline
  <2>4. CASE Expire
    <3>1. gates \in GateIds BY <2>4 DEF Expire, GateOpened
    <3>2. gstatus' \in [GateIds -> Resolved \cup {"pending", "absent"}]
      BY <2>4, <3>1, Resolving DEF Expire, Resolved
    <3> QED BY <2>4, <3>2 DEF Expire
  <2>5. CASE GetGate        BY <2>5 DEF GetGate
  <2>6. CASE PollWait       BY <2>6 DEF PollWait
  <2>7. ASSUME NEW q \in Resolvers, NEW g \in GateIds, NEW act \in Decisions, Request(q, g, act)
        PROVE  TypeOK'
    BY <2>7 DEF Request, GateIds
  <2>8. ASSUME NEW q \in Resolvers, Resolve(q) PROVE TypeOK'
    <3>1. qgate[q] \in GateIds /\ qact[q] \in Decisions
      BY <2>8 DEF Resolve, GateOpened
    <3>2. gstatus' \in [GateIds -> Resolved \cup {"pending", "absent"}]
      BY <2>8, <3>1, Resolving DEF Resolve, Resolved
    <3>3. won' \subseteq GateIds \X Decisions \X Resolvers
      BY <2>8, <3>1 DEF Resolve
    <3> QED BY <2>8, <3>2, <3>3 DEF Resolve
  <2>9. CASE StopRun        BY <2>9 DEF StopRun
  <2>10. CASE DeleteRun     BY <2>10 DEF DeleteRun
  <2>11. CASE Crash         BY <2>11 DEF Crash
  <2>12. CASE ResumeRun     BY <2>12 DEF ResumeRun
  <2>13. CASE Advance       BY <2>13 DEF Advance
  <2>14. CASE UNCHANGED vars BY <2>14 DEF vars
  <2> QED
    BY <2>1, <2>2, <2>3, <2>4, <2>5, <2>6, <2>7, <2>8, <2>9, <2>10, <2>11, <2>12, <2>13, <2>14
    DEF Next, JobStep
<1>3. Init => GateOpened
  BY DEF Init, GateOpened
<1>4. TypeOK /\ GateOpened /\ [Next]_vars => GateOpened'
  <2> SUFFICES ASSUME TypeOK, GateOpened, [Next]_vars PROVE GateOpened'
    OBVIOUS
  <2> USE GateAssumption DEF TypeOK, GateOpened, Waiting, reqVars
  <2>1. CASE RunGate        BY <2>1 DEF RunGate, GateIds
  <2>2. CASE JobStep /\ ~RunGate
    BY <2>2 DEF JobStep, SaveGate, CheckDeadline, Expire, GetGate, PollWait
  <2>3. ASSUME NEW q \in Resolvers, NEW g \in GateIds, NEW act \in Decisions, Request(q, g, act)
        PROVE  GateOpened'
    BY <2>3 DEF Request
  <2>4. ASSUME NEW q \in Resolvers, Resolve(q) PROVE GateOpened'
    BY <2>4 DEF Resolve
  <2>5. CASE StopRun \/ DeleteRun \/ ResumeRun \/ Advance
    BY <2>5 DEF StopRun, DeleteRun, ResumeRun, Advance
  <2>6. CASE Crash          BY <2>6 DEF Crash
  <2>7. CASE UNCHANGED vars BY <2>7 DEF vars
  <2> QED
    BY <2>1, <2>2, <2>3, <2>4, <2>5, <2>6, <2>7 DEF Next
<1> QED
  BY <1>1, <1>2, <1>3, <1>4, PTL DEF Spec

\* The invariant behind the two results: it holds at first and every step keeps
\* it. Only a Resolve that finds the row pending changes won, and only SaveGate
\* makes a row pending, when no request can have resolved it.
THEOREM GateInvariance == Spec => []GateInv
<1>1. Init => GateInv
  BY DEF Init, GateInv, GateOpened, UnsavedIsUnresolved, ApprovalIsKnown, OneResolution,
         PassedWasApproved, Waiting
<1>2. TypeOK /\ GateInv /\ GateOpened' /\ [Next]_vars => GateInv'
  <2> SUFFICES ASSUME TypeOK, GateInv, GateOpened', [Next]_vars PROVE GateInv'
    OBVIOUS
  <2> USE GateAssumption DEF GateInv, reqVars
  <2>1. CASE RunGate
    <3>1. \A h \in GateIds : Unsaved(h)' => Unsaved(h)
      BY <2>1 DEF RunGate, TypeOK, GateIds, Unsaved
    <3>2. gstatus' = gstatus /\ won' = won /\ rpc' = "save"
      BY <2>1 DEF RunGate
    <3> QED
      BY <3>1, <3>2 DEF UnsavedIsUnresolved, ApprovalIsKnown, OneResolution, PassedWasApproved
  <2>2. CASE SaveGate
    <3>1. gates \in GateIds
      BY <2>2 DEF SaveGate, GateOpened, Waiting
    <3>2. \A h \in GateIds : gstatus'[h] = gstatus[h] \/ (h = gates /\ gstatus'[h] = "pending")
      BY <2>2, <3>1 DEF SaveGate, TypeOK
    <3>3. won' = won /\ gates' = gates /\ rpc = "save" /\ rpc' \in {"check", "failed"}
      BY <2>2 DEF SaveGate
    <3>4. \A x \in won : x[1] \in GateIds /\ x[1] # gates
      BY <3>1, <3>3 DEF TypeOK, UnsavedIsUnresolved, Unsaved
    <3>5. \A h \in GateIds : Unsaved(h)' => Unsaved(h) /\ h # gates
      BY <3>1, <3>3 DEF TypeOK, GateIds, Unsaved
    <3>6. UnsavedIsUnresolved' /\ ApprovalIsKnown' /\ PassedWasApproved'
      BY <3>2, <3>3, <3>5 DEF UnsavedIsUnresolved, ApprovalIsKnown, PassedWasApproved
    <3>7. OneResolution'
      BY <3>2, <3>3, <3>4 DEF OneResolution
    <3> QED BY <3>6, <3>7
  <2>3. CASE CheckDeadline \/ PollWait
    BY <2>3 DEF CheckDeadline, PollWait, TypeOK, UnsavedIsUnresolved, Unsaved, ApprovalIsKnown,
                OneResolution, PassedWasApproved
  <2>4. CASE Expire
    <3>1. gates \in GateIds
      BY <2>4 DEF Expire, GateOpened, Waiting
    <3>2. \A h \in GateIds : gstatus'[h] = gstatus[h]
                               \/ (h = gates /\ gstatus[h] = "pending" /\ gstatus'[h] = "timed_out")
      BY <2>4, <3>1, Resolving DEF Expire, Resolved
    <3>3. rpc' = "failed" /\ rpc = "expire" /\ gates' = gates /\ won' = won
      BY <2>4 DEF Expire
    <3>4. UnsavedIsUnresolved' /\ ApprovalIsKnown' /\ PassedWasApproved'
      BY <3>1, <3>2, <3>3 DEF TypeOK, GateIds, UnsavedIsUnresolved, Unsaved, ApprovalIsKnown,
                              PassedWasApproved
    <3>5. OneResolution'
      BY <3>2, <3>3 DEF TypeOK, OneResolution, Decisions
    <3> QED BY <3>4, <3>5
  <2>5. CASE GetGate
    <3>1. gates \in GateIds
      BY <2>5 DEF GetGate, GateOpened, Waiting
    <3> QED
      BY <2>5, <3>1 DEF GetGate, TypeOK, UnsavedIsUnresolved, Unsaved, ApprovalIsKnown,
                        OneResolution, PassedWasApproved
  <2>6. ASSUME NEW q \in Resolvers, NEW g \in GateIds, NEW act \in Decisions, Request(q, g, act)
        PROVE  GateInv'
    BY <2>6 DEF Request, TypeOK, UnsavedIsUnresolved, Unsaved, ApprovalIsKnown, OneResolution,
                PassedWasApproved
  <2>7. ASSUME NEW q \in Resolvers, Resolve(q) PROVE GateInv'
    <3> DEFINE g == qgate[q]  d == qact[q]
    <3>1. g \in GateIds /\ d \in Decisions
      BY <2>7 DEF Resolve, GateOpened, TypeOK
    <3>2. \A h \in GateIds : gstatus'[h] = IF h = g /\ gstatus[g] = "pending" THEN d ELSE gstatus[h]
      BY <2>7, <3>1, Resolving DEF Resolve, Resolved
    <3>3. rpc' = rpc /\ gates' = gates
          /\ won' = IF gstatus[g] = "pending" THEN won \cup {<<g, d, q>>} ELSE won
      BY <2>7, <3>1, <3>2 DEF Resolve, Decisions
    <3>4. UnsavedIsUnresolved'
      BY <3>1, <3>2, <3>3 DEF TypeOK, UnsavedIsUnresolved, Unsaved
    <3>5. ApprovalIsKnown'
      BY <3>1, <3>2, <3>3 DEF TypeOK, ApprovalIsKnown
    <3>6. OneResolution'
      BY <3>1, <3>2, <3>3 DEF TypeOK, OneResolution, Decisions
    <3>7. PassedWasApproved'
      BY <3>3 DEF PassedWasApproved
    <3> QED BY <3>4, <3>5, <3>6, <3>7
  <2>8. CASE DeleteRun
    BY <2>8 DEF DeleteRun, TypeOK, UnsavedIsUnresolved, Unsaved, ApprovalIsKnown, OneResolution,
                PassedWasApproved
  <2>9. CASE StopRun \/ Crash \/ ResumeRun \/ Advance
    BY <2>9 DEF StopRun, Crash, ResumeRun, Advance, TypeOK, UnsavedIsUnresolved, Unsaved,
                ApprovalIsKnown, OneResolution, PassedWasApproved
  <2>10. CASE UNCHANGED vars
    BY <2>10 DEF vars, UnsavedIsUnresolved, Unsaved, ApprovalIsKnown, OneResolution,
                 PassedWasApproved
  <2> QED
    BY <2>1, <2>2, <2>3, <2>4, <2>5, <2>6, <2>7, <2>8, <2>9, <2>10 DEF Next, JobStep
<1> QED
  BY <1>1, <1>2, GateTypes, PTL DEF Spec

\* Approve, reject and the job's own timeout race for the row of a gate; at most
\* one request is told that it resolved it, and the row keeps what it was told.
THEOREM OneResolutionOnly == Spec => []OneResolution
  BY GateInvariance, PTL DEF GateInv

\* A job passes only when somebody was told that they approved the gate of this
\* execution, whatever earlier executions, restarts and time-outs left behind.
THEOREM PassingNeedsApproval == Spec => []PassedWasApproved
  BY GateInvariance, PTL DEF GateInv
=============================================================================
