---------------------------- MODULE ServerProofs ----------------------------
(***************************************************************************)
(* Proofs about what the server does around its runs: the deliveries of    *)
(* Webhooks, the one-time codes of LoginCodes, the claims of Scheduler and *)
(* the scanner of PassedTriggers, for any number of each.                  *)
(***************************************************************************)
EXTENDS Scheduler, PassedTriggers, Webhooks, LoginCodes, FiniteSetTheorems, WellFoundedInduction, TLAPS

\* A set whose elements are all the same has at most one.
LEMMA AtMostOne ==
    ASSUME NEW S, \A x, y \in S : x = y
    PROVE  Cardinality(S) <= 1
<1>1. CASE S = {}
  BY <1>1, FS_EmptySet
<1>2. ASSUME NEW x \in S
      PROVE  Cardinality(S) <= 1
  <2>1. S = {x}
    OBVIOUS
  <2>2. Cardinality({x}) = 1
    BY FS_Singleton
  <2>3. Cardinality(S) = Cardinality({x})
    BY <2>1, Zenon
  <2> QED
    BY <2>2, <2>3
<1> QED
  BY <1>1, <1>2

-----------------------------------------------------------------------------
(* Webhooks *)

\* An execution that recorded its key has its row in the table, unless that was pruned; no two did for one key.
KeyInv ==
    /\ \A d \in Deliveries, i \in Ids : exec[d][i].at \in {"prune", "record"} => KeyOf[d] # "none"
    /\ \A d \in Deliveries, i \in Ids : exec[d][i].passed => KeyOf[d] \in dedup \cup pruned
    /\ \A d, e \in Deliveries, i, j \in Ids :
         exec[d][i].passed /\ exec[e][j].passed /\ KeyOf[d] = KeyOf[e] /\ KeyOf[d] \notin pruned => d = e /\ i = j

\* An answer in a channel was sent by an execution; one that is about to answer has not.
AnswerInv ==
    /\ \A d \in chan : \E j \in Ids : exec[d][j].responded
    /\ \A d \in Deliveries, i \in Ids : exec[d][i].at \in {"none", "respond"} => ~exec[d][i].responded

HooksInv == WebhooksTypeOK /\ KeyInv /\ AnswerInv

\* What an execution becomes, field by field.
LEMMA AtIs ==
    ASSUME WebhooksTypeOK, NEW d \in Deliveries, NEW i \in Ids, NEW x \in ExecStates
    PROVE  /\ At(d, i, x) \in Execs /\ At(d, i, x).at = x /\ At(d, i, x).data = exec[d][i].data
           /\ At(d, i, x).passed = exec[d][i].passed /\ At(d, i, x).responded = exec[d][i].responded
<1>1. PICK r \in Execs : r = exec[d][i]
  BY DEF WebhooksTypeOK
<1>2. /\ [r EXCEPT !.at = x] \in Execs /\ [r EXCEPT !.at = x].at = x /\ [r EXCEPT !.at = x].data = r.data
      /\ [r EXCEPT !.at = x].passed = r.passed /\ [r EXCEPT !.at = x].responded = r.responded
  BY DEF Execs
<1>3. At(d, i, x) = [r EXCEPT !.at = x]
  BY <1>1, Zenon DEF At
<1> QED
  BY <1>1, <1>2, <1>3, Zenon

\* A new execution has recorded nothing and answered nothing.
LEMMA NewIs ==
    ASSUME NEW b \in BOOLEAN
    PROVE  NewExec(b) \in Execs /\ NewExec(b).at = "begin" /\ ~NewExec(b).passed /\ ~NewExec(b).responded
BY DEF NewExec, Execs, ExecStates

\* The execution that found its key unrecorded.
LEMMA PassedIs ==
    ASSUME WebhooksTypeOK, NEW d \in Deliveries, NEW i \in Ids
    PROVE  \E x \in Execs : /\ x = [At(d, i, "work") EXCEPT !.passed = TRUE] /\ x.at = "work"
                            /\ x.passed /\ x.responded = exec[d][i].responded
<1>1. PICK r \in Execs : /\ r = At(d, i, "work") /\ r.at = "work"
                           /\ r.passed = exec[d][i].passed /\ r.responded = exec[d][i].responded
  BY AtIs DEF ExecStates
<1>2. /\ [r EXCEPT !.passed = TRUE] \in Execs /\ [r EXCEPT !.passed = TRUE].at = r.at
      /\ [r EXCEPT !.passed = TRUE].passed /\ [r EXCEPT !.passed = TRUE].responded = r.responded
  BY DEF Execs
<1> QED
  BY <1>1, <1>2, Zenon

\* The execution that has answered.
LEMMA RespondedIs ==
    ASSUME WebhooksTypeOK, NEW d \in Deliveries, NEW i \in Ids
    PROVE  \E x \in Execs : /\ x = [At(d, i, "work") EXCEPT !.responded = TRUE] /\ x.at = "work"
                            /\ x.passed = exec[d][i].passed /\ x.responded
<1>1. PICK r \in Execs : /\ r = At(d, i, "work") /\ r.at = "work"
                           /\ r.passed = exec[d][i].passed /\ r.responded = exec[d][i].responded
  BY AtIs DEF ExecStates
<1>2. /\ [r EXCEPT !.responded = TRUE] \in Execs /\ [r EXCEPT !.responded = TRUE].at = r.at
      /\ [r EXCEPT !.responded = TRUE].responded /\ [r EXCEPT !.responded = TRUE].passed = r.passed
  BY DEF Execs
<1> QED
  BY <1>1, <1>2, Zenon

\* One execution changes, the others stay.
LEMMA BecomesIs ==
    ASSUME WebhooksTypeOK, NEW d \in Deliveries, NEW i \in Ids, NEW x \in Execs, Becomes(d, i, x)
    PROVE  /\ exec' \in [Deliveries -> [Ids -> Execs]] /\ exec'[d][i] = x
           /\ \A e \in Deliveries, j \in Ids : e # d \/ j # i => exec'[e][j] = exec[e][j]
BY DEF WebhooksTypeOK, Becomes

\* Every step keeps the types of the deliveries.
LEMMA WebhooksTypeStep ==
    ASSUME HooksInv, [WebhooksNext]_webhooksVars
    PROVE  WebhooksTypeOK'
<1> USE DEF HooksInv
<1>1. ASSUME NEW d \in Deliveries, Refuse(d)
      PROVE  WebhooksTypeOK'
  BY <1>1 DEF Refuse, Goes, hooks, WebhooksTypeOK, Answers
<1>2. ASSUME NEW d \in Deliveries, Admit(d)
      PROVE  WebhooksTypeOK'
  BY <1>2 DEF Admit, Goes, hooks, WebhooksTypeOK, Answers
<1>3. ASSUME NEW d \in Deliveries, Park(d)
      PROVE  WebhooksTypeOK'
  BY <1>3 DEF Park, Goes, hooks, WebhooksTypeOK, Answers
<1>4. ASSUME NEW d \in Deliveries, Dispatch(d)
      PROVE  WebhooksTypeOK'
  <2>1. exec' \in [Deliveries -> [Ids -> Execs]]
    <3>1. ASSUME NEW i \in Free(d), Becomes(d, i, NewExec(TRUE))
          PROVE  exec' \in [Deliveries -> [Ids -> Execs]]
      BY <3>1, NewIs, BecomesIs DEF Free
    <3> QED
      BY <1>4, <3>1 DEF Dispatch, WebhooksTypeOK
  <2> QED
    BY <1>4, <2>1 DEF Dispatch, Goes, hooks, WebhooksTypeOK, Answers
<1>5. ASSUME NEW d \in Deliveries, Unpark(d)
      PROVE  WebhooksTypeOK'
  BY <1>5 DEF Unpark, Goes, hooks, WebhooksTypeOK, Answers
<1>6. ASSUME NEW d \in Deliveries, AnswerArrives(d)
      PROVE  WebhooksTypeOK'
  BY <1>6 DEF AnswerArrives, Goes, hooks, WebhooksTypeOK, Answers
<1>7. ASSUME NEW d \in Deliveries, TimesOut(d)
      PROVE  WebhooksTypeOK'
  BY <1>7 DEF TimesOut, Goes, hooks, WebhooksTypeOK, Answers
<1>8. ASSUME NEW d \in Deliveries, Take(d)
      PROVE  WebhooksTypeOK'
  <2>1. exec' \in [Deliveries -> [Ids -> Execs]]
    <3>1. PICK i \in Ids, b \in BOOLEAN : Becomes(d, i, NewExec(b))
      BY <1>8 DEF Take, Free
    <3> QED
      BY <3>1, NewIs, BecomesIs
  <2> QED
    BY <1>8, <2>1 DEF Take, hooks, WebhooksTypeOK
<1>9. ASSUME NEW d \in Deliveries, PassOver(d)
      PROVE  WebhooksTypeOK'
  BY <1>9 DEF PassOver, hooks, WebhooksTypeOK
<1>10. ASSUME NEW d \in Deliveries, NEW i \in Ids, Start(d, i)
      PROVE  WebhooksTypeOK'
  <2>1. exec' \in [Deliveries -> [Ids -> Execs]]
    BY <1>10, AtIs, BecomesIs DEF Start, ExecStates
  <2> QED
    BY <1>10, <2>1 DEF Start, hooks, WebhooksTypeOK
<1>11. ASSUME NEW d \in Deliveries, NEW i \in Ids, Filter(d, i)
      PROVE  WebhooksTypeOK'
  <2>1. exec' \in [Deliveries -> [Ids -> Execs]]
    BY <1>11, AtIs, BecomesIs DEF Filter, ExecStates
  <2> QED
    BY <1>11, <2>1 DEF Filter, hooks, WebhooksTypeOK
<1>12. ASSUME NEW d \in Deliveries, NEW i \in Ids, PruneWebhookDedup(d, i)
      PROVE  WebhooksTypeOK'
  <2>1. exec' \in [Deliveries -> [Ids -> Execs]]
    BY <1>12, AtIs, BecomesIs DEF PruneWebhookDedup, ExecStates
  <2> QED
    BY <1>12, <2>1 DEF PruneWebhookDedup, hooks, WebhooksTypeOK
<1>13. ASSUME NEW d \in Deliveries, NEW i \in Ids, RecordWebhookDedup(d, i)
      PROVE  WebhooksTypeOK'
  <2>1. exec' \in [Deliveries -> [Ids -> Execs]]
    <3>1. CASE KeyOf[d] \in dedup
      BY <1>13, <3>1, AtIs, BecomesIs DEF RecordWebhookDedup, ExecStates
    <3>2. CASE KeyOf[d] \notin dedup
      BY <1>13, <3>2, PassedIs, BecomesIs DEF RecordWebhookDedup
    <3> QED
      BY <3>1, <3>2
  <2>2. KeyOf[d] \in Keys
    BY <1>13 DEF RecordWebhookDedup, KeyInv, Keys
  <2> QED
    BY <1>13, <2>1, <2>2 DEF RecordWebhookDedup, WebhooksTypeOK
<1>14. ASSUME NEW d \in Deliveries, NEW i \in Ids, RecordFails(d, i)
      PROVE  WebhooksTypeOK'
  <2>1. exec' \in [Deliveries -> [Ids -> Execs]]
    BY <1>14, AtIs, BecomesIs DEF RecordFails, ExecStates
  <2> QED
    BY <1>14, <2>1 DEF RecordFails, hooks, WebhooksTypeOK
<1>15. ASSUME NEW d \in Deliveries, NEW i \in Ids, Respond(d, i)
      PROVE  WebhooksTypeOK'
  <2>1. exec' \in [Deliveries -> [Ids -> Execs]]
    BY <1>15, AtIs, BecomesIs DEF Respond, ExecStates
  <2> QED
    BY <1>15, <2>1 DEF Respond, hooks, WebhooksTypeOK
<1>16. ASSUME NEW d \in Deliveries, NEW i \in Ids, Send(d, i)
      PROVE  WebhooksTypeOK'
  <2>1. exec' \in [Deliveries -> [Ids -> Execs]]
    BY <1>16, RespondedIs, BecomesIs DEF Send, ExecStates
  <2> QED
    BY <1>16, <2>1 DEF Send, hooks, WebhooksTypeOK
<1>17. ASSUME NEW d \in Deliveries, NEW i \in Ids, Finish(d, i)
      PROVE  WebhooksTypeOK'
  <2>1. exec' \in [Deliveries -> [Ids -> Execs]]
    BY <1>17, AtIs, BecomesIs DEF Finish, ExecStates
  <2> QED
    BY <1>17, <2>1 DEF Finish, hooks, WebhooksTypeOK
<1>18. ASSUME NEW k \in Keys, Ages(k)
      PROVE  WebhooksTypeOK'
  BY <1>18 DEF Ages, hooks, WebhooksTypeOK
<1>19. CASE ListQueued
  BY <1>19 DEF ListQueued, hooks, WebhooksTypeOK
<1>20. CASE ProcessDies
  <2>1. exec' \in [Deliveries -> [Ids -> Execs]]
    <3>1. \A e \in Deliveries, j \in Ids : At(e, j, "over") \in Execs /\ exec[e][j] \in Execs
      BY AtIs DEF ExecStates, WebhooksTypeOK
    <3> QED
      BY <1>20, <3>1 DEF ProcessDies
  <2>2. request' \in [Deliveries -> Answers \cup {"idle", "park", "park behind", "dispatch", "leave", "unpark", "wait"}]
    BY <1>20 DEF ProcessDies, WebhooksTypeOK, Answers
  <2>3. row' \in [Deliveries -> {"none", "queued", "running", "over"}]
    BY <1>20 DEF ProcessDies, WebhooksTypeOK
  <2>4. deaths' \in 0..MaxDeaths
    <3>1. deaths < MaxDeaths /\ deaths' = deaths + 1 /\ deaths \in 0..MaxDeaths
      BY <1>20 DEF ProcessDies, WebhooksTypeOK
    <3> QED
      BY <3>1, WebhooksAssumption
  <2> QED
    BY <1>20, <2>1, <2>2, <2>3, <2>4 DEF ProcessDies, hooks, WebhooksTypeOK
<1>21. CASE UNCHANGED webhooksVars
  BY <1>21 DEF webhooksVars, WebhooksTypeOK
<1> QED
  BY <1>1, <1>2, <1>3, <1>4, <1>5, <1>6, <1>7, <1>8, <1>9, <1>10, <1>11, <1>12, <1>13, <1>14, <1>15, <1>16, <1>17, <1>18, <1>19, <1>20, <1>21 DEF WebhooksNext

\* An execution that starts or goes on disturbs no key, if it records only where a key is.
LEMMA KeyKept ==
    ASSUME HooksInv, NEW d \in Deliveries, NEW i \in Ids, NEW x \in Execs, Becomes(d, i, x),
           x.passed => exec[d][i].passed, x.at \in {"prune", "record"} => KeyOf[d] # "none",
           dedup \cup pruned \subseteq dedup' \cup pruned', pruned \subseteq pruned'
    PROVE  KeyInv'
<1>1. exec'[d][i] = x /\ \A e \in Deliveries, j \in Ids : e # d \/ j # i => exec'[e][j] = exec[e][j]
  BY BecomesIs DEF HooksInv
<1>2. \A e \in Deliveries, j \in Ids : exec'[e][j].passed => exec[e][j].passed
  BY <1>1
<1>3. \A e \in Deliveries, j \in Ids : exec'[e][j].at \in {"prune", "record"} => KeyOf[e] # "none"
  BY <1>1 DEF HooksInv, KeyInv
<1> QED
  BY <1>2, <1>3 DEF HooksInv, KeyInv

\* Nor does it disturb the answers.
LEMMA AnswerKept ==
    ASSUME HooksInv, NEW d \in Deliveries, NEW i \in Ids, NEW x \in Execs, Becomes(d, i, x),
           exec[d][i].responded => x.responded, x.at \in {"none", "respond"} => ~x.responded,
           chan' \subseteq chan \/ (x.responded /\ chan' = chan \cup {d})
    PROVE  AnswerInv'
<1>1. exec'[d][i] = x /\ \A e \in Deliveries, j \in Ids : e # d \/ j # i => exec'[e][j] = exec[e][j]
  BY BecomesIs DEF HooksInv
<1>2. \A e \in Deliveries, j \in Ids : exec[e][j].responded => exec'[e][j].responded
  BY <1>1
<1>3. \A e \in Deliveries, j \in Ids : exec'[e][j].at \in {"none", "respond"} => ~exec'[e][j].responded
  BY <1>1 DEF HooksInv, AnswerInv
<1>4. chan \subseteq Deliveries
  BY DEF HooksInv, WebhooksTypeOK
<1>5. \A e \in chan' : e \in chan \/ (e = d /\ x.responded)
  OBVIOUS
<1> QED
  BY <1>1, <1>2, <1>3, <1>4, <1>5 DEF HooksInv, AnswerInv

\* Every step keeps KeyInv: the statement that records a key decides who handles it.
LEMMA KeyStep ==
    ASSUME HooksInv, [WebhooksNext]_webhooksVars
    PROVE  KeyInv'
<1> USE DEF HooksInv
<1>1. ASSUME NEW d \in Deliveries, Refuse(d)
      PROVE  KeyInv'
  BY <1>1 DEF Refuse, Goes, hooks, WebhooksTypeOK, KeyInv
<1>2. ASSUME NEW d \in Deliveries, Admit(d)
      PROVE  KeyInv'
  BY <1>2 DEF Admit, Goes, hooks, WebhooksTypeOK, KeyInv
<1>3. ASSUME NEW d \in Deliveries, Park(d)
      PROVE  KeyInv'
  BY <1>3 DEF Park, Goes, hooks, WebhooksTypeOK, KeyInv
<1>4. ASSUME NEW d \in Deliveries, Dispatch(d)
      PROVE  KeyInv'
  <2>1. ASSUME NEW i \in Free(d), Becomes(d, i, NewExec(TRUE))
        PROVE  KeyInv'
    BY <1>4, <2>1, NewIs, KeyKept DEF Free, Dispatch, hooks
  <2>2. CASE UNCHANGED exec
    BY <1>4, <2>2 DEF Dispatch, hooks, KeyInv
  <2> QED
    BY <1>4, <2>1, <2>2 DEF Dispatch
<1>5. ASSUME NEW d \in Deliveries, Unpark(d)
      PROVE  KeyInv'
  BY <1>5 DEF Unpark, Goes, hooks, WebhooksTypeOK, KeyInv
<1>6. ASSUME NEW d \in Deliveries, AnswerArrives(d)
      PROVE  KeyInv'
  BY <1>6 DEF AnswerArrives, Goes, hooks, WebhooksTypeOK, KeyInv
<1>7. ASSUME NEW d \in Deliveries, TimesOut(d)
      PROVE  KeyInv'
  BY <1>7 DEF TimesOut, Goes, hooks, WebhooksTypeOK, KeyInv
<1>8. ASSUME NEW d \in Deliveries, Take(d)
      PROVE  KeyInv'
  <2>1. PICK i \in Ids, b \in BOOLEAN : Becomes(d, i, NewExec(b))
    BY <1>8 DEF Take, Free
  <2> QED
    BY <1>8, <2>1, NewIs, KeyKept DEF Take, hooks
<1>9. ASSUME NEW d \in Deliveries, PassOver(d)
      PROVE  KeyInv'
  BY <1>9 DEF PassOver, hooks, WebhooksTypeOK, KeyInv
<1>10. ASSUME NEW d \in Deliveries, NEW i \in Ids, Start(d, i)
      PROVE  KeyInv'
  BY <1>10, AtIs, KeyKept DEF Start, hooks, ExecStates
<1>11. ASSUME NEW d \in Deliveries, NEW i \in Ids, Filter(d, i)
      PROVE  KeyInv'
  BY <1>11, AtIs, KeyKept DEF Filter, hooks, ExecStates
<1>12. ASSUME NEW d \in Deliveries, NEW i \in Ids, PruneWebhookDedup(d, i)
      PROVE  KeyInv'
  <2>1. KeyOf[d] # "none"
    BY <1>12 DEF PruneWebhookDedup, KeyInv
  <2>2. dedup \cup pruned \subseteq dedup' \cup pruned' /\ pruned \subseteq pruned'
    BY <1>12 DEF PruneWebhookDedup, hooks
  <2> QED
    BY <1>12, <2>1, <2>2, AtIs, KeyKept DEF PruneWebhookDedup, ExecStates
<1>13. ASSUME NEW d \in Deliveries, NEW i \in Ids, RecordWebhookDedup(d, i)
      PROVE  KeyInv'
  <2>1. CASE KeyOf[d] \in dedup
    BY <1>13, <2>1, AtIs, KeyKept DEF RecordWebhookDedup, ExecStates
  <2>2. CASE KeyOf[d] \notin dedup
    <3>1. PICK x \in Execs : Becomes(d, i, x) /\ x.at = "work" /\ x.passed
      BY <1>13, <2>2, PassedIs DEF RecordWebhookDedup
    <3>2. exec'[d][i] = x /\ \A e \in Deliveries, j \in Ids : e # d \/ j # i => exec'[e][j] = exec[e][j]
      BY <3>1, BecomesIs
    <3>3. dedup' = dedup \cup {KeyOf[d]} /\ pruned' = pruned
      BY <1>13 DEF RecordWebhookDedup
    <3>4. \A e \in Deliveries, j \in Ids : exec'[e][j].at \in {"prune", "record"} => KeyOf[e] # "none"
      BY <3>1, <3>2 DEF KeyInv
    <3>5. \A e \in Deliveries, j \in Ids : exec'[e][j].passed => KeyOf[e] \in dedup' \cup pruned'
      BY <3>2, <3>3 DEF KeyInv
    <3>6. \A e \in Deliveries, j \in Ids : exec[e][j].passed /\ KeyOf[e] = KeyOf[d] => KeyOf[d] \in pruned
      BY <2>2 DEF KeyInv
    <3>7. \A e, f \in Deliveries, j, k \in Ids :
            exec'[e][j].passed /\ exec'[f][k].passed /\ KeyOf[e] = KeyOf[f] /\ KeyOf[e] \notin pruned' => e = f /\ j = k
      BY <3>2, <3>3, <3>6 DEF KeyInv
    <3> QED
      BY <3>4, <3>5, <3>7 DEF KeyInv
  <2> QED
    BY <2>1, <2>2
<1>14. ASSUME NEW d \in Deliveries, NEW i \in Ids, RecordFails(d, i)
      PROVE  KeyInv'
  BY <1>14, AtIs, KeyKept DEF RecordFails, hooks, ExecStates
<1>15. ASSUME NEW d \in Deliveries, NEW i \in Ids, Respond(d, i)
      PROVE  KeyInv'
  BY <1>15, AtIs, KeyKept DEF Respond, hooks, ExecStates
<1>16. ASSUME NEW d \in Deliveries, NEW i \in Ids, Send(d, i)
      PROVE  KeyInv'
  BY <1>16, RespondedIs, KeyKept DEF Send, hooks
<1>17. ASSUME NEW d \in Deliveries, NEW i \in Ids, Finish(d, i)
      PROVE  KeyInv'
  BY <1>17, AtIs, KeyKept DEF Finish, hooks, ExecStates
<1>18. ASSUME NEW k \in Keys, Ages(k)
      PROVE  KeyInv'
  BY <1>18 DEF Ages, hooks, WebhooksTypeOK, KeyInv
<1>19. CASE ListQueued
  BY <1>19 DEF ListQueued, hooks, WebhooksTypeOK, KeyInv
<1>20. CASE ProcessDies
  <2>1. \A e \in Deliveries, j \in Ids : exec'[e][j] = At(e, j, "over") \/ (exec'[e][j] = exec[e][j] /\ ~Live(exec[e][j]))
    BY <1>20 DEF ProcessDies
  <2>2. \A e \in Deliveries, j \in Ids :
          /\ exec'[e][j].passed = exec[e][j].passed
          /\ exec'[e][j].at \in {"prune", "record"} => exec[e][j].at \in {"prune", "record"}
    BY <2>1, AtIs DEF ExecStates
  <2> QED
    BY <1>20, <2>2 DEF ProcessDies, hooks, KeyInv
<1>21. CASE UNCHANGED webhooksVars
  BY <1>21 DEF webhooksVars, WebhooksTypeOK, KeyInv
<1> QED
  BY <1>1, <1>2, <1>3, <1>4, <1>5, <1>6, <1>7, <1>8, <1>9, <1>10, <1>11, <1>12, <1>13, <1>14, <1>15, <1>16, <1>17, <1>18, <1>19, <1>20, <1>21 DEF WebhooksNext

\* Every step keeps AnswerInv.
LEMMA AnswerStep ==
    ASSUME HooksInv, [WebhooksNext]_webhooksVars
    PROVE  AnswerInv'
<1> USE DEF HooksInv
<1>1. ASSUME NEW d \in Deliveries, Refuse(d)
      PROVE  AnswerInv'
  BY <1>1 DEF Refuse, Goes, hooks, WebhooksTypeOK, AnswerInv
<1>2. ASSUME NEW d \in Deliveries, Admit(d)
      PROVE  AnswerInv'
  BY <1>2 DEF Admit, Goes, hooks, WebhooksTypeOK, AnswerInv
<1>3. ASSUME NEW d \in Deliveries, Park(d)
      PROVE  AnswerInv'
  BY <1>3 DEF Park, Goes, hooks, WebhooksTypeOK, AnswerInv
<1>4. ASSUME NEW d \in Deliveries, Dispatch(d)
      PROVE  AnswerInv'
  <2>1. ASSUME NEW i \in Free(d), Becomes(d, i, NewExec(TRUE))
        PROVE  AnswerInv'
    <3>1. i \in Ids /\ ~exec[d][i].responded /\ chan' = chan
      BY <1>4 DEF Free, AnswerInv, Dispatch
    <3> QED
      BY <2>1, <3>1, NewIs, AnswerKept
  <2>2. CASE UNCHANGED exec
    BY <1>4, <2>2 DEF Dispatch, AnswerInv
  <2> QED
    BY <1>4, <2>1, <2>2 DEF Dispatch
<1>5. ASSUME NEW d \in Deliveries, Unpark(d)
      PROVE  AnswerInv'
  BY <1>5 DEF Unpark, Goes, hooks, WebhooksTypeOK, AnswerInv
<1>6. ASSUME NEW d \in Deliveries, AnswerArrives(d)
      PROVE  AnswerInv'
  BY <1>6 DEF AnswerArrives, Goes, hooks, WebhooksTypeOK, AnswerInv
<1>7. ASSUME NEW d \in Deliveries, TimesOut(d)
      PROVE  AnswerInv'
  BY <1>7 DEF TimesOut, Goes, hooks, WebhooksTypeOK, AnswerInv
<1>8. ASSUME NEW d \in Deliveries, Take(d)
      PROVE  AnswerInv'
  <2>1. PICK i \in Free(d), b \in BOOLEAN : Becomes(d, i, NewExec(b))
    BY <1>8 DEF Take
  <2>2. i \in Ids /\ ~exec[d][i].responded /\ chan' = chan
    BY <1>8 DEF Free, AnswerInv, Take
  <2> QED
    BY <2>1, <2>2, NewIs, AnswerKept
<1>9. ASSUME NEW d \in Deliveries, PassOver(d)
      PROVE  AnswerInv'
  BY <1>9 DEF PassOver, hooks, WebhooksTypeOK, AnswerInv
<1>10. ASSUME NEW d \in Deliveries, NEW i \in Ids, Start(d, i)
      PROVE  AnswerInv'
  BY <1>10, AtIs, AnswerKept DEF Start, ExecStates
<1>11. ASSUME NEW d \in Deliveries, NEW i \in Ids, Filter(d, i)
      PROVE  AnswerInv'
  BY <1>11, AtIs, AnswerKept DEF Filter, ExecStates
<1>12. ASSUME NEW d \in Deliveries, NEW i \in Ids, PruneWebhookDedup(d, i)
      PROVE  AnswerInv'
  BY <1>12, AtIs, AnswerKept DEF PruneWebhookDedup, ExecStates
<1>13. ASSUME NEW d \in Deliveries, NEW i \in Ids, RecordWebhookDedup(d, i)
      PROVE  AnswerInv'
  <2>1. CASE KeyOf[d] \in dedup
    BY <1>13, <2>1, AtIs, AnswerKept DEF RecordWebhookDedup, ExecStates
  <2>2. CASE KeyOf[d] \notin dedup
    BY <1>13, <2>2, PassedIs, AnswerKept DEF RecordWebhookDedup
  <2> QED
    BY <2>1, <2>2
<1>14. ASSUME NEW d \in Deliveries, NEW i \in Ids, RecordFails(d, i)
      PROVE  AnswerInv'
  BY <1>14, AtIs, AnswerKept DEF RecordFails, ExecStates
<1>15. ASSUME NEW d \in Deliveries, NEW i \in Ids, Respond(d, i)
      PROVE  AnswerInv'
  BY <1>15, AtIs, AnswerKept DEF Respond, ExecStates
<1>16. ASSUME NEW d \in Deliveries, NEW i \in Ids, Send(d, i)
      PROVE  AnswerInv'
  BY <1>16, RespondedIs, AnswerKept DEF Send
<1>17. ASSUME NEW d \in Deliveries, NEW i \in Ids, Finish(d, i)
      PROVE  AnswerInv'
  BY <1>17, AtIs, AnswerKept DEF Finish, ExecStates
<1>18. ASSUME NEW k \in Keys, Ages(k)
      PROVE  AnswerInv'
  BY <1>18 DEF Ages, hooks, WebhooksTypeOK, AnswerInv
<1>19. CASE ListQueued
  BY <1>19 DEF ListQueued, hooks, WebhooksTypeOK, AnswerInv
<1>20. CASE ProcessDies
  <2>1. \A e \in Deliveries, j \in Ids : exec'[e][j] = At(e, j, "over") \/ (exec'[e][j] = exec[e][j] /\ ~Live(exec[e][j]))
    BY <1>20 DEF ProcessDies
  <2>2. \A e \in Deliveries, j \in Ids :
          /\ exec'[e][j].responded = exec[e][j].responded
          /\ exec'[e][j].at \in {"none", "respond"} => exec[e][j].at = "none"
    BY <2>1, AtIs DEF ExecStates, Live
  <2> QED
    BY <1>20, <2>2 DEF ProcessDies, AnswerInv
<1>21. CASE UNCHANGED webhooksVars
  BY <1>21 DEF webhooksVars, WebhooksTypeOK, AnswerInv
<1> QED
  BY <1>1, <1>2, <1>3, <1>4, <1>5, <1>6, <1>7, <1>8, <1>9, <1>10, <1>11, <1>12, <1>13, <1>14, <1>15, <1>16, <1>17, <1>18, <1>19, <1>20, <1>21 DEF WebhooksNext

\* The invariant holds of every state of the deliveries.
THEOREM WebhooksInvariant == WebhooksSpec => []HooksInv
<1>1. WebhooksInit => HooksInv
  <2> SUFFICES ASSUME WebhooksInit
               PROVE  HooksInv
    OBVIOUS
  <2>1. NoExec \in Execs /\ NoExec.at = "none" /\ ~NoExec.passed /\ ~NoExec.responded
    BY DEF NoExec, Execs, ExecStates
  <2>2. WebhooksTypeOK
    BY <2>1, WebhooksAssumption DEF WebhooksInit, WebhooksTypeOK
  <2>3. KeyInv /\ AnswerInv
    BY <2>1 DEF WebhooksInit, KeyInv, AnswerInv
  <2> QED
    BY <2>2, <2>3 DEF HooksInv
<1>2. HooksInv /\ [WebhooksNext]_webhooksVars => HooksInv'
  BY WebhooksTypeStep, KeyStep, AnswerStep DEF HooksInv
<1> QED
  BY <1>1, <1>2, PTL DEF WebhooksSpec

\* For any number of deliveries and executions, one runs the job of a key whose row has not been pruned, and only
\* an execution whose run was answered by another one finds its channel full.
THEOREM HooksAreHandledOnce == WebhooksSpec => []HookIsHandledOnce
<1>1. HooksInv => HookIsHandledOnce
  <2> SUFFICES ASSUME HooksInv
               PROVE  HandledOnce /\ OnlyASecondAnswerBlocks
    BY DEF HookIsHandledOnce
  <2>1. HandledOnce
    <3> SUFFICES ASSUME NEW k \in Keys \ pruned
                 PROVE  Cardinality({di \in Deliveries \X Ids : KeyOf[di[1]] = k /\ exec[di[1]][di[2]].passed}) <= 1
      BY DEF HandledOnce
    <3> DEFINE S == {di \in Deliveries \X Ids : KeyOf[di[1]] = k /\ exec[di[1]][di[2]].passed}
    <3>1. ASSUME NEW x \in S, NEW y \in S
          PROVE  x = y
      <4>1. x[1] = y[1] /\ x[2] = y[2]
        BY DEF HooksInv, KeyInv
      <4> QED
        BY <4>1
    <3> HIDE DEF S
    <3>2. Cardinality(S) <= 1
      BY <3>1, AtMostOne
    <3> QED
      BY <3>2 DEF S
  <2>2. OnlyASecondAnswerBlocks
    BY DEF HooksInv, AnswerInv, OnlyASecondAnswerBlocks, Room
  <2> QED
    BY <2>1, <2>2
<1> QED
  BY <1>1, WebhooksInvariant, PTL

-----------------------------------------------------------------------------
(* LoginCodes *)

\* Where a request is, its code is of the kind it asks for.
ReqInv ==
    \A r \in Requests :
      /\ req[r].at \in {"poll", "generate", "consume", "gone"} => req[r].code \in Of("cli")
      /\ req[r].at = "check" => req[r].code \in Of("mcp") \ known
      /\ req[r].at = "generate" => code[req[r].code].approved
      /\ req[r].at \in {"idle", "poll", "generate", "gone", "check"} => token[r] = NoToken

\* An approved device code names a user who approved it.
ApprovedInv == \A c \in Of("cli") : code[c].approved => <<c, code[c].user>> \in approvals

\* An authorization code that is still known was not exchanged; one that is being checked or was exchanged belongs
\* to one request.
Uses(r, c) == (req[r].at = "check" /\ req[r].code = c) \/ token[r].code = c
OnceInv ==
    \A c \in Of("mcp") : /\ c \in known => \A r \in Requests : ~Uses(r, c)
                         /\ \A r, s \in Requests : Uses(r, c) /\ Uses(s, c) => r = s

\* What a token says.
TokenInv ==
    \A r \in Requests : LET t == token[r] IN t # NoToken =>
      \/ t.code \in Of("cli") /\ <<t.code, t.user>> \in approvals
      \/ /\ t.code \in Of("mcp") \ known /\ code[t.code].owner = req[r].client
         /\ t.user = code[t.code].user /\ t.at <= code[t.code].expires

CodesInv == LoginTypeOK /\ ReqInv /\ ApprovedInv /\ OnceInv /\ TokenInv

\* What a code is once it is made.
LEMMA MadeIs ==
    ASSUME LoginTypeOK, NEW c \in Codes, NEW kind \in {"cli", "mcp"}, NEW m \in Clients \cup {"none"},
           NEW u \in Users \cup {"none"}, Made(c, kind, m, u)
    PROVE  /\ code[c].kind = "none" /\ c \notin known
           /\ code' \in [Codes -> CodeRows] /\ \A d \in Codes \ {c} : code'[d] = code[d]
           /\ code'[c].kind = kind /\ code'[c].approved = FALSE
           /\ known' = known \cup {c} /\ cleanup' \subseteq {"cli", "mcp"}
<1> DEFINE made == CodeRow(kind, m, u, FALSE, loginNow + Lifetime)
<1>1. made \in CodeRows /\ made.kind = kind /\ made.approved = FALSE
  BY LoginAssumption DEF CodeRow, CodeRows, LoginTypeOK
<1>2. code' = [code EXCEPT ![c] = made]
  BY DEF Made
<1> HIDE DEF made
<1>3. code \in [Codes -> CodeRows] /\ known \subseteq {d \in Codes : code[d].kind # "none"} /\ cleanup \subseteq {"cli", "mcp"}
  BY DEF LoginTypeOK
<1>4. code[c].kind = "none" /\ known' = known \cup {c} /\ cleanup' = cleanup \cup {kind}
  BY DEF Made, Fresh
<1>5. code' \in [Codes -> CodeRows] /\ code'[c] = made /\ \A d \in Codes \ {c} : code'[d] = code[d]
  BY <1>1, <1>2, <1>3
<1> QED
  BY <1>1, <1>3, <1>4, <1>5

\* What an approval makes of a device code.
LEMMA ApprovedIs ==
    ASSUME LoginTypeOK, NEW c \in Of("cli"), NEW u \in Users, Approved(c, u)
    PROVE  /\ code' \in [Codes -> CodeRows] /\ \A d \in Codes \ {c} : code'[d] = code[d]
           /\ code'[c].kind = "cli" /\ code'[c].approved /\ code'[c].user = u
           /\ approvals' = approvals \cup {<<c, u>>} /\ approvals' \subseteq Codes \X Users
<1> DEFINE made == CodeRow(code[c].kind, code[c].owner, u, TRUE, code[c].expires)
<1>1. c \in Codes /\ code[c].kind = "cli" /\ code[c] \in CodeRows
  BY DEF Of, LoginTypeOK
<1>2. made \in CodeRows /\ made.kind = "cli" /\ made.approved /\ made.user = u
  BY <1>1 DEF CodeRow, CodeRows
<1>3. code' = [code EXCEPT ![c] = made]
  BY DEF Approved
<1> HIDE DEF made
<1> QED
  <2>1. approvals' = approvals \cup {<<c, u>>} /\ approvals' \subseteq Codes \X Users
    BY <1>1 DEF Approved, LoginTypeOK
  <2> QED
    BY <1>1, <1>2, <1>3, <2>1 DEF LoginTypeOK

\* A step of the sessions or of the codes leaves what requests and tokens say: a device code stays one, and approved
\* if it was, an authorization code does not change and does not come back.
LEMMA CodesStep ==
    ASSUME CodesInv, req' = req, token' = token, approvals \subseteq approvals',
           \A c \in Codes : code[c].kind = "cli" => /\ code'[c].kind = "cli"
                                                    /\ code[c].approved => code'[c].approved,
           \A c \in Codes : code[c].kind = "mcp" => code'[c] = code[c] /\ (c \in known' => c \in known)
    PROVE  ReqInv' /\ OnceInv' /\ TokenInv'
<1>1. ReqInv'
  BY DEF CodesInv, LoginTypeOK, ReqInv, Of
<1>2. TokenInv'
  BY DEF CodesInv, LoginTypeOK, TokenInv, Of
<1>3. ASSUME NEW c \in Codes, code'[c].kind = "mcp", code[c].kind # "mcp", NEW r \in Requests
      PROVE  ~Uses(r, c)'
  <2>1. code[c].kind = "none"
    BY <1>3 DEF CodesInv, LoginTypeOK, CodeRows
  <2>2. CASE req[r].at = "check" /\ req[r].code = c
    BY <2>1, <2>2 DEF CodesInv, ReqInv, Of
  <2>3. CASE token[r].code = c
    <3>1. token[r] # NoToken
      BY <2>3 DEF NoToken, Codes
    <3> QED
      BY <2>1, <2>3, <3>1 DEF CodesInv, TokenInv, Of
  <2> QED
    BY <2>2, <2>3 DEF Uses
<1>4. ASSUME NEW c \in Codes, code[c].kind = "mcp"
      PROVE  /\ c \in known' => \A r \in Requests : ~Uses(r, c)'
             /\ \A r, s \in Requests : Uses(r, c)' /\ Uses(s, c)' => r = s
  BY <1>4 DEF CodesInv, OnceInv, Uses, Of
<1>5. OnceInv'
  BY <1>3, <1>4 DEF OnceInv, Of, Uses
<1> QED
  BY <1>1, <1>2, <1>5

\* A request moves to q and holds t, which agree with the codes.
Turns(r, q, t) ==
    /\ req' = [req EXCEPT ![r] = q] /\ token' = [token EXCEPT ![r] = t]
    /\ code' = code /\ approvals' = approvals /\ known' \subseteq known
    /\ q.at \in {"poll", "generate", "consume", "gone"} => q.code \in Of("cli")
    /\ q.at = "check" => q.code \in Of("mcp") \ known'
    /\ q.at = "generate" => code[q.code].approved
    /\ q.at \in {"idle", "poll", "generate", "gone", "check"} => t = NoToken
    /\ \A c \in Of("mcp") : (q.at = "check" /\ q.code = c) \/ t.code = c
                              => c \notin known' /\ \A s \in Requests \ {r} : ~Uses(s, c)
    /\ t # NoToken => \/ t.code \in Of("cli") /\ <<t.code, t.user>> \in approvals
                      \/ /\ t.code \in Of("mcp") \ known' /\ code[t.code].owner = q.client
                         /\ t.user = code[t.code].user /\ t.at <= code[t.code].expires

\* Such a step keeps the invariant.
LEMMA RequestStep ==
    ASSUME CodesInv, NEW r \in Requests, NEW q, NEW t, Turns(r, q, t)
    PROVE  ReqInv' /\ ApprovedInv' /\ OnceInv' /\ TokenInv'
<1>1. /\ req'[r] = q /\ token'[r] = t
      /\ \A s \in Requests \ {r} : req'[s] = req[s] /\ token'[s] = token[s]
  BY DEF CodesInv, LoginTypeOK, Turns
<1>2. ReqInv'
  BY <1>1 DEF CodesInv, ReqInv, Of, Turns
<1>3. TokenInv'
  <2>1. CASE t = NoToken
    BY <1>1, <2>1 DEF CodesInv, TokenInv, Of, Turns
  <2>2. CASE t # NoToken
    BY <1>1, <2>2 DEF CodesInv, TokenInv, Of, Turns
  <2> QED
    BY <2>1, <2>2
<1>4. \A s \in Requests \ {r}, c \in Codes : Uses(s, c)' <=> Uses(s, c)
  BY <1>1 DEF Uses
<1>5. \A c \in Codes : Uses(r, c)' <=> (q.at = "check" /\ q.code = c) \/ t.code = c
  BY <1>1 DEF Uses
<1>6. ASSUME NEW c \in Of("mcp")
      PROVE  /\ c \in known' => \A s \in Requests : ~Uses(s, c)'
             /\ \A s, x \in Requests : Uses(s, c)' /\ Uses(x, c)' => s = x
  BY <1>4, <1>5, <1>6 DEF CodesInv, OnceInv, Of, Turns
<1>7. OnceInv'
  BY <1>6 DEF OnceInv, Of, Uses, Turns
<1>8. ApprovedInv'
  BY DEF CodesInv, ApprovedInv, Of, Turns
<1> QED
  BY <1>2, <1>3, <1>7, <1>8

\* The initial state.
LEMMA CodesInitially ==
    ASSUME LoginInit
    PROVE  CodesInv
<1>1. LoginTypeOK
  <2>1. code \in [Codes -> CodeRows]
    BY LoginAssumption DEF LoginInit, NoCode, CodeRow, CodeRows
  <2>2. cookie \in [Browsers -> [user : Users \cup {"none"}, pending : Clients \cup {"none"}]]
    BY DEF LoginInit, Session
  <2>3. req \in [Requests -> [at : ReqStates, code : Codes \cup {0}, client : Clients \cup {"none"}]]
    BY DEF LoginInit, NoReq, Req, ReqStates
  <2>4. token \in [Requests -> [code : Codes \cup {0}, user : Users \cup {"none"}, at : 0..LoginMaxTime]]
    BY LoginAssumption DEF LoginInit, NoToken
  <2> QED
    BY <2>1, <2>2, <2>3, <2>4, LoginAssumption DEF LoginInit, LoginTypeOK
<1>2. /\ \A r \in Requests : req[r].at = "idle" /\ token[r] = NoToken
      /\ \A c \in Codes : code[c].kind = "none"
  BY DEF LoginInit, NoReq, Req, NoCode, CodeRow
<1> QED
  BY <1>1, <1>2 DEF CodesInv, ReqInv, ApprovedInv, OnceInv, TokenInv, Of

\* A new code keeps the invariant.
LEMMA MadeKeepsCodes ==
    ASSUME CodesInv, NEW c \in Codes, NEW kind \in {"cli", "mcp"}, NEW m \in Clients \cup {"none"},
           NEW u \in Users \cup {"none"}, Made(c, kind, m, u), UNCHANGED <<time, clients, req, token, approvals>>,
           cookie' \in [Browsers -> [user : Users \cup {"none"}, pending : Clients \cup {"none"}]]
    PROVE  CodesInv'
<1>1. /\ code[c].kind = "none" /\ c \notin known
      /\ code' \in [Codes -> CodeRows] /\ \A d \in Codes \ {c} : code'[d] = code[d]
      /\ code'[c].kind = kind /\ code'[c].approved = FALSE
      /\ known' = known \cup {c} /\ cleanup' \subseteq {"cli", "mcp"}
  BY MadeIs DEF CodesInv
<1>2. LoginTypeOK'
  BY <1>1 DEF CodesInv, LoginTypeOK, time
<1>3. ReqInv' /\ OnceInv' /\ TokenInv'
  BY <1>1, CodesStep DEF time
<1>4. ApprovedInv'
  BY <1>1 DEF CodesInv, ApprovedInv, Of
<1> QED
  BY <1>2, <1>3, <1>4 DEF CodesInv

\* An approval keeps the invariant.
LEMMA ApprovalKeepsCodes ==
    ASSUME CodesInv, NEW c \in Of("cli"), NEW u \in Users, Approved(c, u),
           UNCHANGED <<time, known, clients, cleanup, req, token>>,
           cookie' \in [Browsers -> [user : Users \cup {"none"}, pending : Clients \cup {"none"}]]
    PROVE  CodesInv'
<1>1. /\ code' \in [Codes -> CodeRows] /\ \A d \in Codes \ {c} : code'[d] = code[d]
      /\ code'[c].kind = "cli" /\ code'[c].approved /\ code'[c].user = u
      /\ approvals' = approvals \cup {<<c, u>>} /\ approvals' \subseteq Codes \X Users
  BY ApprovedIs DEF CodesInv
<1>2. c \in Codes /\ code[c].kind = "cli"
  BY DEF Of
<1>3. LoginTypeOK'
  BY <1>1, <1>2 DEF CodesInv, LoginTypeOK, time
<1>4. ReqInv' /\ OnceInv' /\ TokenInv'
  BY <1>1, <1>2, CodesStep DEF time
<1>5. ApprovedInv'
  BY <1>1 DEF CodesInv, ApprovedInv, Of
<1> QED
  BY <1>3, <1>4, <1>5 DEF CodesInv

\* A step of the session or of the clock alone keeps the invariant.
LEMMA SessionKeepsCodes ==
    ASSUME CodesInv, UNCHANGED <<code, req, token, approvals>>, LoginTypeOK', known' \subseteq known
    PROVE  CodesInv'
<1>1. ReqInv' /\ OnceInv' /\ TokenInv'
  BY CodesStep
<1>2. ApprovedInv'
  BY DEF CodesInv, ApprovedInv, Of
<1> QED
  BY <1>1, <1>2 DEF CodesInv

\* Steps of the sessions, of the clock and of the clean-up.
LEMMA SessionsKeepCodes ==
    ASSUME CodesInv,
           \/ CLIBegin \/ LoginTick
           \/ \E b \in Browsers : \/ Logout(b)
                                  \/ \E u \in Users : Callback(b, u)
                                  \/ \E c \in Codes : CLIApproveConfirm(b, c)
                                  \/ \E m \in Clients : HandleAuthorize(b, m)
           \/ \E m \in Clients : HandleRegister(m)
           \/ \E kind \in {"cli", "mcp"} : CleanupExpiredCodes(kind)
    PROVE  CodesInv'
<1> DEFINE Cookies == [Browsers -> [user : Users \cup {"none"}, pending : Clients \cup {"none"}]]
<1>1. /\ cookie \in Cookies
      /\ \A b \in Browsers : /\ cookie[b].user \in Users \cup {"none"}
                             /\ cookie[b].pending \in Clients \cup {"none"}
  BY DEF CodesInv, LoginTypeOK
<1>2. ASSUME NEW b \in Browsers, NEW u \in Users \cup {"none"}, NEW m \in Clients \cup {"none"},
             cookie' = [cookie EXCEPT ![b] = Session(u, m)]
      PROVE  cookie' \in Cookies
  BY <1>1, <1>2 DEF Session
<1>3. CASE CLIBegin
  BY <1>1, <1>3, MadeKeepsCodes DEF CLIBegin
<1>4. CASE LoginTick
  <2>1. LoginTypeOK'
    BY <1>4, LoginAssumption DEF CodesInv, LoginTypeOK, LoginTick
  <2> QED
    BY <1>4, <2>1, SessionKeepsCodes DEF LoginTick
<1>5. ASSUME NEW b \in Browsers, Logout(b)
      PROVE  CodesInv'
  <2>1. cookie' \in Cookies
    BY <1>2, <1>5 DEF Logout
  <2>2. LoginTypeOK'
    BY <1>5, <2>1 DEF CodesInv, LoginTypeOK, Logout, time
  <2> QED
    BY <1>5, <2>2, SessionKeepsCodes DEF Logout
<1>6. ASSUME NEW b \in Browsers, NEW u \in Users, Callback(b, u)
      PROVE  CodesInv'
  <2>1. ASSUME NEW c \in known \cap Of("cli"), cookie' = [cookie EXCEPT ![b] = Session(u, @.pending)],
               IF loginNow < code[c].expires THEN Approved(c, u) ELSE UNCHANGED <<code, approvals>>,
               UNCHANGED <<known, cleanup>>
        PROVE  CodesInv'
    <3>1. cookie' \in Cookies
      BY <1>1, <1>2, <2>1
    <3>2. CASE Approved(c, u)
      BY <1>6, <2>1, <3>1, <3>2, ApprovalKeepsCodes DEF Callback
    <3>3. CASE UNCHANGED <<code, approvals>>
      <4>1. LoginTypeOK'
        BY <1>6, <2>1, <3>1, <3>3 DEF CodesInv, LoginTypeOK, Callback, time
      <4> QED
        BY <1>6, <2>1, <3>3, <4>1, SessionKeepsCodes DEF Callback
    <3> QED
      BY <2>1, <3>2, <3>3
  <2>2. CASE /\ cookie[b].pending = "none" /\ cookie' = [cookie EXCEPT ![b] = Session(u, @.pending)]
             /\ UNCHANGED <<code, known, cleanup, approvals>>
    <3>1. cookie' \in Cookies
      BY <1>1, <1>2, <2>2
    <3>2. LoginTypeOK'
      BY <1>6, <2>2, <3>1 DEF CodesInv, LoginTypeOK, Callback, time
    <3> QED
      BY <1>6, <2>2, <3>2, SessionKeepsCodes DEF Callback
  <2>3. CASE /\ cookie[b].pending # "none" /\ cookie' = [cookie EXCEPT ![b] = Session(u, "none")]
             /\ IssueCode(u, cookie[b].pending) /\ UNCHANGED approvals
    <3>1. cookie' \in Cookies
      BY <1>2, <2>3
    <3> QED
      BY <1>1, <1>6, <2>3, <3>1, MadeKeepsCodes DEF Callback, IssueCode
  <2> QED
    BY <1>6, <2>1, <2>2, <2>3 DEF Callback
<1>7. ASSUME NEW b \in Browsers, NEW c \in Codes, CLIApproveConfirm(b, c)
      PROVE  CodesInv'
  <2>1. cookie[b].user \in Users /\ cookie' \in Cookies
    BY <1>1, <1>7 DEF CLIApproveConfirm
  <2>2. PICK u \in Users : u = cookie[b].user
    BY <2>1
  <2>3. c \in Of("cli") /\ Approved(c, u)
    BY <1>7, <2>2 DEF CLIApproveConfirm
  <2> QED
    BY <1>7, <2>1, <2>3, ApprovalKeepsCodes DEF CLIApproveConfirm
<1>8. ASSUME NEW b \in Browsers, NEW m \in Clients, HandleAuthorize(b, m)
      PROVE  CodesInv'
  <2>1. CASE IssueCode(cookie[b].user, m) /\ UNCHANGED cookie
    <3>1. PICK u \in Users \cup {"none"} : u = cookie[b].user
      BY <1>1
    <3>2. PICK c \in Codes : Made(c, "mcp", m, u)
      BY <2>1, <3>1 DEF IssueCode
    <3> QED
      BY <1>1, <1>8, <2>1, <3>2, MadeKeepsCodes DEF HandleAuthorize
  <2>2. CASE /\ cookie' = [cookie EXCEPT ![b] = Session("none", m)] /\ UNCHANGED <<code, known, cleanup>>
    <3>1. cookie' \in Cookies
      BY <1>2, <2>2
    <3>2. LoginTypeOK'
      BY <1>8, <2>2, <3>1 DEF CodesInv, LoginTypeOK, HandleAuthorize, time
    <3> QED
      BY <1>8, <2>2, <3>2, SessionKeepsCodes DEF HandleAuthorize
  <2> QED
    BY <1>8, <2>1, <2>2 DEF HandleAuthorize
<1>9. ASSUME NEW m \in Clients, HandleRegister(m)
      PROVE  CodesInv'
  <2>1. LoginTypeOK'
    BY <1>9 DEF CodesInv, LoginTypeOK, HandleRegister, time
  <2> QED
    BY <1>9, <2>1, SessionKeepsCodes DEF HandleRegister
<1>10. ASSUME NEW kind \in {"cli", "mcp"}, CleanupExpiredCodes(kind)
       PROVE  CodesInv'
  <2>1. LoginTypeOK'
    BY <1>10 DEF CodesInv, LoginTypeOK, CleanupExpiredCodes, time
  <2> QED
    BY <1>10, <2>1, SessionKeepsCodes DEF CleanupExpiredCodes
<1> QED
  BY <1>3, <1>4, <1>5, <1>6, <1>7, <1>8, <1>9, <1>10

\* A request with a code, as a record.
LEMMA ReqIs ==
    ASSUME NEW s \in ReqStates, NEW c \in Codes \cup {0}, NEW m \in Clients \cup {"none"}
    PROVE  /\ Req(s, c, m) \in [at : ReqStates, code : Codes \cup {0}, client : Clients \cup {"none"}]
           /\ Req(s, c, m).at = s /\ Req(s, c, m).code = c /\ Req(s, c, m).client = m
BY DEF Req

\* A token, as a record.
LEMMA TokenIs ==
    ASSUME LoginTypeOK, NEW c \in Codes \cup {0}, NEW u \in Users \cup {"none"}
    PROVE  /\ Token(c, u) \in [code : Codes \cup {0}, user : Users \cup {"none"}, at : 0..LoginMaxTime]
           /\ Token(c, u).code = c /\ Token(c, u).user = u /\ Token(c, u).at = loginNow
BY DEF Token, LoginTypeOK

\* A request moves on.
LEMMA GoesIs ==
    ASSUME LoginTypeOK, NEW r \in Requests, NEW s \in ReqStates, ReqGoes(r, s)
    PROVE  \E q \in [at : ReqStates, code : Codes \cup {0}, client : Clients \cup {"none"}] :
             /\ q.at = s /\ q.code = req[r].code /\ q.client = req[r].client
             /\ req' = [req EXCEPT ![r] = q]
<1>1. req[r].code \in Codes \cup {0} /\ req[r].client \in Clients \cup {"none"}
  BY DEF LoginTypeOK
<1>2. req' = [req EXCEPT ![r] = Req(s, req[r].code, req[r].client)]
  BY DEF ReqGoes
<1>3. PICK q \in [at : ReqStates, code : Codes \cup {0}, client : Clients \cup {"none"}] :
        /\ q = Req(s, req[r].code, req[r].client)
        /\ q.at = s /\ q.code = req[r].code /\ q.client = req[r].client
  BY <1>1, ReqIs
<1> QED
  BY <1>2, <1>3, Zenon

\* The steps of a request for a device token.
LEMMA PollsKeepCodes ==
    ASSUME CodesInv, NEW r \in Requests,
           PollExpiry(r) \/ PollToken(r) \/ PollRemoves(r) \/ \E c \in Codes : CLIPoll(r, c)
    PROVE  CodesInv'
<1> DEFINE Reqs == [at : ReqStates, code : Codes \cup {0}, client : Clients \cup {"none"}]
<1> DEFINE Tokens == [code : Codes \cup {0}, user : Users \cup {"none"}, at : 0..LoginMaxTime]
<1>1. LoginTypeOK /\ ReqInv /\ req \in [Requests -> Reqs] /\ token \in [Requests -> Tokens] /\ TokenInv /\ ApprovedInv
  BY DEF CodesInv, LoginTypeOK
<1>2. token = [token EXCEPT ![r] = token[r]] /\ \A c \in Codes : token[r].code = c => Uses(r, c)
  BY <1>1 DEF Uses
<1>3. \A c \in Of("mcp") : token[r].code = c => c \notin known /\ \A s \in Requests \ {r} : ~Uses(s, c)
  BY <1>2 DEF CodesInv, OnceInv, Of
<1>4. ASSUME NEW c \in Codes, CLIPoll(r, c)
      PROVE  CodesInv'
  <2>1. PICK s \in {"poll", "refused"} : req' = [req EXCEPT ![r] = Req(s, c, "none")]
    BY <1>4 DEF CLIPoll
  <2>2. PICK q \in Reqs : q = Req(s, c, "none") /\ q.at = s /\ q.code = c /\ q.client = "none"
    BY ReqIs DEF ReqStates
  <2>3. req' = [req EXCEPT ![r] = q] /\ token[r] = NoToken /\ c \in Of("cli")
    BY <1>1, <1>4, <2>1, <2>2 DEF ReqInv, CLIPoll
  <2>4. ReqInv' /\ ApprovedInv' /\ OnceInv' /\ TokenInv'
    <3>1. c \notin Of("mcp") /\ \A d \in Of("mcp") : token[r].code # d
      BY <2>3 DEF Of, NoToken, Codes
    <3> HIDE DEF Reqs, Tokens
    <3>2. Turns(r, q, token[r])
      BY <1>2, <1>4, <2>2, <2>3, <3>1 DEF Turns, CLIPoll
    <3> QED
      BY <3>2, RequestStep
  <2>5. LoginTypeOK'
    BY <1>1, <1>4, <2>3 DEF LoginTypeOK, CLIPoll, time
  <2> QED
    BY <2>4, <2>5 DEF CodesInv
<1>5. CASE PollExpiry(r)
  <2>1. PICK s \in {"gone", "generate", "idle"} :
          ReqGoes(r, s) /\ (s = "generate" => code[req[r].code].approved)
    BY <1>5 DEF PollExpiry
  <2>2. PICK q \in Reqs : /\ q.at = s /\ q.code = req[r].code /\ q.client = req[r].client
                          /\ req' = [req EXCEPT ![r] = q]
    BY <1>1, <2>1, GoesIs DEF ReqStates
  <2>3. req[r].code \in Of("cli") /\ token[r] = NoToken
    BY <1>1, <1>5 DEF ReqInv, PollExpiry
  <2>4. ReqInv' /\ ApprovedInv' /\ OnceInv' /\ TokenInv'
    <3>1. \A d \in Of("mcp") : token[r].code # d
      BY <2>3 DEF Of, NoToken, Codes
    <3> HIDE DEF Reqs, Tokens
    <3>2. Turns(r, q, token[r])
      BY <1>2, <1>5, <2>1, <2>2, <2>3, <3>1 DEF Turns, PollExpiry
    <3> QED
      BY <3>2, RequestStep
  <2>5. LoginTypeOK'
    BY <1>1, <1>5, <2>2 DEF LoginTypeOK, PollExpiry, time
  <2> QED
    BY <2>4, <2>5 DEF CodesInv
<1>6. CASE PollToken(r)
  <2>1. PICK q \in Reqs : /\ q.at = "consume" /\ q.code = req[r].code /\ q.client = req[r].client
                          /\ req' = [req EXCEPT ![r] = q]
    BY <1>1, <1>6, GoesIs DEF PollToken, ReqStates
  <2>2. req[r].code \in Of("cli") /\ code[req[r].code].approved
    BY <1>1, <1>6 DEF ReqInv, PollToken
  <2>3. PICK c \in Of("cli") : c = req[r].code
    BY <2>2
  <2>4. <<c, code[c].user>> \in approvals /\ code[c].user \in Users \cup {"none"} /\ c \in Codes
    BY <1>1, <2>2, <2>3 DEF ApprovedInv, LoginTypeOK, CodeRows, Of
  <2>5. PICK t \in Tokens : t = Token(c, code[c].user) /\ t.code = c /\ t.user = code[c].user
    BY <1>1, <2>4, TokenIs
  <2>6. token' = [token EXCEPT ![r] = t]
    BY <1>6, <2>3, <2>5 DEF PollToken
  <2>7. ReqInv' /\ ApprovedInv' /\ OnceInv' /\ TokenInv'
    <3>1. c \notin Of("mcp")
      BY DEF Of
    <3> HIDE DEF Reqs, Tokens
    <3>2. Turns(r, q, t)
      BY <1>6, <2>1, <2>3, <2>4, <2>5, <2>6, <3>1 DEF Turns, PollToken
    <3> QED
      BY <3>2, RequestStep
  <2>8. LoginTypeOK'
    BY <1>1, <1>6, <2>1, <2>6 DEF LoginTypeOK, PollToken, time
  <2> QED
    BY <2>7, <2>8 DEF CodesInv
<1>7. CASE PollRemoves(r)
  <2>1. PICK s \in {"answered", "refused"} : ReqGoes(r, s)
    BY <1>7 DEF PollRemoves
  <2>2. PICK q \in Reqs : /\ q.at = s /\ q.code = req[r].code /\ q.client = req[r].client
                          /\ req' = [req EXCEPT ![r] = q]
    BY <1>1, <2>1, GoesIs DEF ReqStates
  <2>3. ReqInv' /\ ApprovedInv' /\ OnceInv' /\ TokenInv'
    <3>1. known' \subseteq known /\ UNCHANGED <<code, token, approvals>>
      BY <1>7 DEF PollRemoves
    <3>2. token[r] # NoToken => LET t == token[r] IN
               \/ t.code \in Of("cli") /\ <<t.code, t.user>> \in approvals
               \/ /\ t.code \in Of("mcp") \ known' /\ code[t.code].owner = q.client
                  /\ t.user = code[t.code].user /\ t.at <= code[t.code].expires
      BY <1>1, <2>2, <3>1 DEF TokenInv
    <3> HIDE DEF Reqs, Tokens
    <3>3. Turns(r, q, token[r])
      BY <1>2, <1>3, <2>2, <3>1, <3>2 DEF Turns
    <3> QED
      BY <3>3, RequestStep
  <2>4. LoginTypeOK'
    BY <1>1, <1>7, <2>2 DEF LoginTypeOK, PollRemoves, time
  <2> QED
    BY <2>3, <2>4 DEF CodesInv
<1> QED
  BY <1>4, <1>5, <1>6, <1>7

\* The steps of a request with an authorization code.
LEMMA ExchangesKeepCodes ==
    ASSUME CodesInv, NEW r \in Requests,
           CheckCode(r) \/ \E c \in Codes, m \in Clients : HandleToken(r, m, c)
    PROVE  CodesInv'
<1> DEFINE Reqs == [at : ReqStates, code : Codes \cup {0}, client : Clients \cup {"none"}]
<1> DEFINE Tokens == [code : Codes \cup {0}, user : Users \cup {"none"}, at : 0..LoginMaxTime]
<1>1. LoginTypeOK /\ ReqInv /\ req \in [Requests -> Reqs] /\ token \in [Requests -> Tokens] /\ OnceInv
  BY DEF CodesInv, LoginTypeOK
<1>2. token = [token EXCEPT ![r] = token[r]]
  BY <1>1
<1>3. ASSUME NEW c \in Codes, NEW m \in Clients, HandleToken(r, m, c)
      PROVE  CodesInv'
  <2>1. PICK s \in {"check", "refused"} : req' = [req EXCEPT ![r] = Req(s, c, m)] /\ (s = "check" => c \in known)
    BY <1>3 DEF HandleToken
  <2>2. PICK q \in Reqs : q = Req(s, c, m) /\ q.at = s /\ q.code = c /\ q.client = m
    BY ReqIs DEF ReqStates
  <2>3. req' = [req EXCEPT ![r] = q] /\ token[r] = NoToken /\ c \in Of("mcp")
    BY <1>1, <1>3, <2>1, <2>2 DEF ReqInv, HandleToken
  <2>4. ReqInv' /\ ApprovedInv' /\ OnceInv' /\ TokenInv'
    <3>1. \A d \in Of("mcp") : token[r].code # d
      BY <2>3 DEF Of, NoToken, Codes
    <3>2. s = "check" => \A x \in Requests : ~Uses(x, c)
      BY <1>1, <2>1, <2>3 DEF OnceInv
    <3>3. known' \subseteq known /\ c \notin known' /\ UNCHANGED <<code, token, approvals>>
      BY <1>3 DEF HandleToken
    <3> HIDE DEF Reqs, Tokens
    <3>4. Turns(r, q, token[r])
      BY <1>2, <2>1, <2>2, <2>3, <3>1, <3>2, <3>3 DEF Turns
    <3> QED
      BY <3>4, RequestStep
  <2>5. LoginTypeOK'
    BY <1>1, <1>3, <2>3 DEF LoginTypeOK, HandleToken, time
  <2> QED
    BY <2>4, <2>5 DEF CodesInv
<1>4. CASE CheckCode(r)
  <2>1. req[r].code \in Of("mcp") \ known /\ token[r] = NoToken
    BY <1>1, <1>4 DEF ReqInv, CheckCode
  <2>2. PICK c \in Of("mcp") \ known : c = req[r].code
    BY <2>1
  <2>3. c \in Codes /\ code[c].user \in Users \cup {"none"} /\ code[c].expires \in Nat /\ loginNow \in Nat
    BY <1>1, LoginAssumption DEF Of, LoginTypeOK, CodeRows
  <2>4. \A x \in Requests \ {r} : ~Uses(x, c)
    BY <1>1, <1>4, <2>2 DEF OnceInv, Uses, CheckCode
  <2>5. CASE ReqGoes(r, "refused") /\ UNCHANGED token
    <3>1. PICK q \in Reqs : /\ q.at = "refused" /\ q.code = req[r].code /\ q.client = req[r].client
                            /\ req' = [req EXCEPT ![r] = q]
      BY <1>1, <2>5, GoesIs DEF ReqStates
    <3>2. \A d \in Of("mcp") : token[r].code # d
      BY <2>1 DEF Of, NoToken, Codes
    <3>3. ReqInv' /\ ApprovedInv' /\ OnceInv' /\ TokenInv'
      <4> HIDE DEF Reqs, Tokens
      <4>1. Turns(r, q, token[r])
        BY <1>2, <1>4, <2>1, <2>5, <3>1, <3>2 DEF Turns, CheckCode
      <4> QED
        BY <4>1, RequestStep
    <3>4. LoginTypeOK'
      BY <1>1, <1>4, <2>5, <3>1 DEF LoginTypeOK, CheckCode, time
    <3> QED
      BY <3>3, <3>4 DEF CodesInv
  <2>6. CASE /\ ~(Expired(c) \/ code[c].owner # req[r].client)
             /\ ReqGoes(r, "answered") /\ token' = [token EXCEPT ![r] = Token(c, code[c].user)]
    <3>1. PICK q \in Reqs : /\ q.at = "answered" /\ q.code = req[r].code /\ q.client = req[r].client
                            /\ req' = [req EXCEPT ![r] = q]
      BY <1>1, <2>6, GoesIs DEF ReqStates
    <3>2. PICK t \in Tokens : /\ t = Token(c, code[c].user)
                              /\ t.code = c /\ t.user = code[c].user /\ t.at = loginNow
      BY <1>1, <2>3, TokenIs
    <3>3. token' = [token EXCEPT ![r] = t]
      BY <2>6, <3>2
    <3>4. loginNow <= code[c].expires
      BY <2>3, <2>6 DEF Expired
    <3>5. ReqInv' /\ ApprovedInv' /\ OnceInv' /\ TokenInv'
      <4> HIDE DEF Reqs, Tokens
      <4>1. Turns(r, q, t)
        BY <1>4, <2>2, <2>4, <2>6, <3>1, <3>2, <3>3, <3>4 DEF Turns, CheckCode
      <4> QED
        BY <4>1, RequestStep
    <3>6. LoginTypeOK'
      BY <1>1, <1>4, <3>1, <3>3 DEF LoginTypeOK, CheckCode, time
    <3> QED
      BY <3>5, <3>6 DEF CodesInv
  <2> QED
    BY <1>4, <2>2, <2>5, <2>6 DEF CheckCode
<1> QED
  BY <1>3, <1>4

\* A restart loses the codes and the requests, never a token.
LEMMA RestartKeepsCodes ==
    ASSUME CodesInv, Restart
    PROVE  CodesInv'
<1>1. \A r \in Requests : /\ req[r].at \in ReqStates /\ req[r].code \in Codes \cup {0}
                          /\ req[r].client \in Clients \cup {"none"}
  BY DEF CodesInv, LoginTypeOK
<1>2. ASSUME NEW r \in Requests
      PROVE  /\ req'[r] \in [at : ReqStates, code : Codes \cup {0}, client : Clients \cup {"none"}]
             /\ req'[r].client = req[r].client
             /\ req'[r].at # "refused" => req'[r] = req[r] /\ req[r].at \in {"answered", "idle"}
  <2>1. CASE req[r].at \in {"answered", "idle"}
    <3>1. req'[r] = req[r]
      BY <2>1 DEF Restart
    <3> QED
      BY <2>1, <3>1 DEF CodesInv, LoginTypeOK
  <2>2. CASE req[r].at \notin {"answered", "idle"}
    <3>1. req'[r] = Req("refused", req[r].code, req[r].client)
      BY <2>2 DEF Restart
    <3>2. PICK c \in Codes \cup {0}, m \in Clients \cup {"none"} : c = req[r].code /\ m = req[r].client
      BY <1>1
    <3> QED
      BY <3>1, <3>2, ReqIs DEF ReqStates
  <2> QED
    BY <2>1, <2>2
<1>3. req' \in [Requests -> [at : ReqStates, code : Codes \cup {0}, client : Clients \cup {"none"}]]
  BY <1>2 DEF Restart
<1>4. LoginTypeOK'
  BY <1>3, LoginAssumption DEF CodesInv, LoginTypeOK, Restart
<1>5. UNCHANGED <<code, token, approvals>> /\ known' = {}
  BY DEF Restart
<1>6. ReqInv'
  BY <1>2, <1>5 DEF CodesInv, ReqInv
<1>7. TokenInv'
  BY <1>2, <1>5 DEF CodesInv, TokenInv, Of
<1>8. \A r \in Requests, c \in Codes : Uses(r, c)' => Uses(r, c)
  BY <1>2, <1>5 DEF Uses
<1>9. ASSUME NEW c \in Of("mcp"), NEW r \in Requests, NEW s \in Requests, Uses(r, c)', Uses(s, c)'
      PROVE  r = s
  BY <1>8, <1>9 DEF CodesInv, OnceInv, Of
<1>10. OnceInv'
  BY <1>5, <1>9 DEF OnceInv, Of, Uses
<1>11. ApprovedInv'
  BY <1>5 DEF CodesInv, ApprovedInv, Of
<1> QED
  BY <1>4, <1>6, <1>7, <1>10, <1>11 DEF CodesInv

\* The invariant of the one-time codes.
THEOREM LoginInvariant == LoginSpec => []CodesInv
<1>1. LoginInit => CodesInv
  BY CodesInitially
<1>2. CodesInv /\ [LoginNext]_loginVars => CodesInv'
  <2> SUFFICES ASSUME CodesInv, [LoginNext]_loginVars
               PROVE  CodesInv'
    OBVIOUS
  <2>1. CASE UNCHANGED loginVars
    <3>1. LoginTypeOK'
      BY <2>1 DEF CodesInv, LoginTypeOK, loginVars
    <3> QED
      BY <2>1, <3>1, SessionKeepsCodes DEF loginVars
  <2>2. CASE Restart
    BY <2>2, RestartKeepsCodes
  <2>3. ASSUME NEW r \in Requests, NEW c \in Codes, CLIPoll(r, c) \/ \E m \in Clients : HandleToken(r, m, c)
        PROVE  CodesInv'
    BY <2>3, PollsKeepCodes, ExchangesKeepCodes
  <2>4. ASSUME NEW r \in Requests, PollExpiry(r) \/ PollToken(r) \/ PollRemoves(r) \/ CheckCode(r)
        PROVE  CodesInv'
    BY <2>4, PollsKeepCodes, ExchangesKeepCodes
  <2> QED
    BY <2>1, <2>2, <2>3, <2>4, SessionsKeepCodes DEF LoginNext
<1> QED
  BY <1>1, <1>2, PTL DEF LoginSpec

\* Every token was earned: an authorization code is worth one token, in its lifetime, for the client and the user it
\* was made for; a device token names a user who approved that code (HandleToken, CLIPoll).
THEOREM TokensAreEarned == LoginSpec => []TokenIsEarned
<1>1. CodesInv => TokenIsEarned
  <2> SUFFICES ASSUME CodesInv
               PROVE  TokenIsEarned
    OBVIOUS
  <2>1. ASSUME NEW r \in Requests, token[r] # NoToken, token[r].code \in Of("mcp"), NEW s \in Requests \ {r}
        PROVE  token[s].code # token[r].code
    BY <2>1 DEF CodesInv, OnceInv, Uses
  <2> QED
    BY <2>1 DEF CodesInv, TokenInv, TokenIsEarned, Of
<1> QED
  BY <1>1, LoginInvariant, PTL

\* Type correctness of the sessions, the codes and the requests.
THEOREM LoginTypeCorrect == LoginSpec => []LoginTypeOK
<1>1. CodesInv => LoginTypeOK
  BY DEF CodesInv
<1> QED
  BY <1>1, LoginInvariant, PTL

-----------------------------------------------------------------------------
(* Scheduler *)

\* A row that exists has its expression; a scheduler that waits holds nothing, one that updates has its claim, and
\* no batch claims a job twice.
HeldInv ==
    /\ \A j \in Jobs : Exists(j) => expr[j] \in Exprs
    /\ \A i \in Instances : /\ pc[i] = "wait" => batch[i] = {}
                            /\ pc[i] = "update" => cur[i] \in [claim : Claims, result : {"ok", "full"}]
                            /\ \A c, d \in batch[i] : c.job = d.job => c = d

Holders(j) == {i \in Instances : \E c \in batch[i] : c.job = j}

ClaimsInv == SchedulerTypeOK /\ HeldInv /\ ClaimIsNeverForgotten /\ NextRunFiresOnce

\* Both kinds of expression give a time.
LEMMA NextRunIsATime ==
    ASSUME NEW e \in Exprs, NEW from \in Nat
    PROVE  ComputeNextRun(e, from) \in Nat /\ ComputeNextRun(e, from) # Null
<1>1. PICK n \in Nat \ {0} : n = e.n
  BY SchedulerAssumption
<1>2. from \div n \in Nat
  OBVIOUS
<1>3. \A a, b \in Nat : a * b \in Nat
  OBVIOUS
<1>4. (from \div n + 1) * n \in Nat
  BY <1>2, <1>3
<1>5. from + n \in Nat
  OBVIOUS
<1>6. ComputeNextRun(e, from) \in Nat
  BY <1>1, <1>4, <1>5 DEF ComputeNextRun
<1> QED
  BY <1>6, SchedulerAssumption

\* The instances that hold a claim of a job are finitely many.
LEMMA HoldersAreFinite ==
    ASSUME NEW j
    PROVE  IsFiniteSet(Holders(j)) /\ Cardinality(Holders(j)) \in Nat
<1>1. Holders(j) \subseteq Instances
  BY DEF Holders
<1>2. IsFiniteSet(Holders(j))
  BY <1>1, FS_Subset, SchedulerAssumption
<1> QED
  BY <1>2, FS_CardinalityType

\* A step that leaves the claims alone: a next run may be cleared, and a new one is one more value.
LEMMA ValuesStep ==
    ASSUME ClaimsInv, batch' = batch, fires' = fires, nextRun' \in [Jobs -> Nat \cup {Null}],
           \A j \in Jobs : \/ nextRun'[j] = Null /\ arms'[j] = arms[j]
                           \/ nextRun'[j] = nextRun[j] /\ arms'[j] = arms[j]
                           \/ arms'[j] = arms[j] + 1
    PROVE  NextRunFiresOnce'
<1> SUFFICES ASSUME NEW j \in Jobs
             PROVE  fires'[j] + Cardinality(Holders(j))' + (IF nextRun'[j] # Null THEN 1 ELSE 0) <= arms'[j]
  BY DEF NextRunFiresOnce, Holders
<1>1. Cardinality(Holders(j))' = Cardinality(Holders(j))
  BY DEF Holders
<1>2. fires[j] + Cardinality(Holders(j)) + (IF nextRun[j] # Null THEN 1 ELSE 0) <= arms[j]
  BY DEF ClaimsInv, NextRunFiresOnce, Holders
<1>3. PICK n \in Nat : n = Cardinality(Holders(j))
  BY HoldersAreFinite
<1>4. fires[j] \in Nat /\ arms[j] \in Nat
  BY DEF ClaimsInv, SchedulerTypeOK
<1> QED
  BY <1>1, <1>2, <1>3, <1>4

\* A step that leaves the claims and the rows' ids and next runs alone forgets no claim.
LEMMA ClaimsStay ==
    ASSUME ClaimsInv, UNCHANGED <<pc, batch, cur>>, lost \subseteq lost',
           \A j \in Jobs : id'[j] # 0 /\ nextRun'[j] = Null => id'[j] = id[j] /\ nextRun[j] = Null
    PROVE  ClaimIsNeverForgotten'
<1> SUFFICES ASSUME NEW j \in Jobs \ lost', id'[j] # 0, nextRun'[j] = Null
             PROVE  \E i \in Instances : Holds(i, j)'
  BY DEF ClaimIsNeverForgotten, Exists, Holds
<1>1. PICK i \in Instances : Holds(i, j)
  BY DEF ClaimsInv, ClaimIsNeverForgotten, Exists
<1>2. Holds(i, j)'
  BY <1>1 DEF Holds, Claimed
<1> QED
  BY <1>2

\* The initial state.
LEMMA ClaimsInitially ==
    ASSUME SchedulerInit
    PROVE  ClaimsInv
<1>1. SchedulerTypeOK
  BY SchedulerAssumption DEF SchedulerInit, SchedulerTypeOK, Times
<1>2. HeldInv /\ ClaimIsNeverForgotten
  BY DEF SchedulerInit, HeldInv, ClaimIsNeverForgotten, Exists
<1>3. NextRunFiresOnce
  <2> SUFFICES ASSUME NEW j \in Jobs
               PROVE  fires[j] + Cardinality(Holders(j)) + (IF nextRun[j] # Null THEN 1 ELSE 0) <= arms[j]
    BY DEF NextRunFiresOnce, Holders
  <2>1. Holders(j) = {}
    BY DEF SchedulerInit, Holders
  <2>2. Cardinality(Holders(j)) = 0
    BY <2>1, FS_EmptySet
  <2> QED
    BY <2>2 DEF SchedulerInit
<1> QED
  BY <1>1, <1>2, <1>3 DEF ClaimsInv

\* A tick claims what is due and nobody else can claim it again.
LEMMA TickKeepsClaims ==
    ASSUME ClaimsInv, NEW i \in Instances, SchedTick(i)
    PROVE  ClaimsInv'
<1> DEFINE due == {j \in Jobs : Due(j)}
<1>1. SchedulerTypeOK /\ HeldInv
  BY DEF ClaimsInv
<1>2. pc[i] = "wait" /\ batch[i] = {} /\ Claimed(i) = {}
  BY <1>1 DEF HeldInv, SchedTick, Claimed
<1>3. \A j \in due : /\ Claim(j) \in Claims /\ Claim(j).job = j /\ Claim(j).id = id[j]
                     /\ nextRun[j] # Null /\ nextRun'[j] = Null
  BY <1>1 DEF Due, Claim, Claims, HeldInv, SchedulerTypeOK, SchedTick, ClaimDueSchedules
<1>4. /\ batch' \in [Instances -> SUBSET Claims] /\ batch'[i] = {Claim(j) : j \in due}
      /\ \A k \in Instances \ {i} : batch'[k] = batch[k]
  BY <1>1, <1>3 DEF SchedulerTypeOK, SchedTick, ClaimDueSchedules
<1>5. pc' = [pc EXCEPT ![i] = "fire"] /\ \A j \in Jobs \ due : nextRun'[j] = nextRun[j]
  BY DEF SchedTick, ClaimDueSchedules
<1>6. SchedulerTypeOK'
  <2>1. lastRun' \in [Jobs -> Times \cup {Null}] /\ nextRun' \in [Jobs -> Nat \cup {Null}]
    BY <1>1 DEF SchedulerTypeOK, SchedTick, ClaimDueSchedules
  <2>2. at' \in [Instances -> Times] /\ pc' \in [Instances -> {"wait", "fire", "update"}]
    BY <1>1, <1>5 DEF SchedulerTypeOK, SchedTick
  <2> QED
    BY <1>1, <1>4, <2>1, <2>2 DEF SchedulerTypeOK, SchedTick, setVars
<1>7. HeldInv'
  <2>1. \A j \in Jobs : Exists(j)' => expr'[j] \in Exprs
    BY <1>1 DEF HeldInv, SchedTick, Exists
  <2>2. \A c, d \in batch'[i] : c.job = d.job => c = d
    BY <1>3, <1>4
  <2>3. pc'[i] = "fire" /\ \A k \in Instances \ {i} : pc'[k] = pc[k] /\ cur'[k] = cur[k]
    BY <1>1, <1>5 DEF SchedulerTypeOK, SchedTick
  <2> QED
    BY <1>1, <1>4, <2>1, <2>2, <2>3 DEF HeldInv
<1>8. ClaimIsNeverForgotten'
  <2> SUFFICES ASSUME NEW j \in Jobs \ lost', id'[j] # 0, nextRun'[j] = Null
               PROVE  \E k \in Instances : Holds(k, j)'
    BY DEF ClaimIsNeverForgotten, Exists, Holds
  <2>1. CASE j \in due
    <3>1. Claim(j) \in batch'[i] /\ Claim(j).job = j /\ Claim(j).id = id'[j]
      BY <1>3, <1>4, <2>1 DEF SchedTick
    <3>2. PICK c \in batch'[i] : c.job = j /\ c.id = id'[j]
      BY <3>1
    <3>3. Holds(i, j)'
      BY <3>2 DEF Holds, Claimed
    <3> QED
      BY <3>3
  <2>2. CASE j \notin due
    <3>1. PICK k \in Instances : Holds(k, j)
      BY <1>5, <2>2 DEF ClaimsInv, ClaimIsNeverForgotten, Exists, SchedTick
    <3>2. k # i
      BY <1>2, <3>1 DEF Holds
    <3>3. Claimed(k)' = Claimed(k)
      BY <1>1, <1>4, <3>2 DEF Claimed, SchedTick, SchedulerTypeOK
    <3>4. Holds(k, j)'
      BY <3>1, <3>3 DEF Holds, SchedTick
    <3> QED
      BY <3>4
  <2> QED
    BY <2>1, <2>2
<1>9. NextRunFiresOnce'
  <2> SUFFICES ASSUME NEW j \in Jobs
               PROVE  fires'[j] + Cardinality(Holders(j))' + (IF nextRun'[j] # Null THEN 1 ELSE 0) <= arms'[j]
    BY DEF NextRunFiresOnce, Holders
  <2>1. fires[j] + Cardinality(Holders(j)) + (IF nextRun[j] # Null THEN 1 ELSE 0) <= arms[j]
    BY DEF ClaimsInv, NextRunFiresOnce, Holders
  <2>2. PICK n \in Nat : n = Cardinality(Holders(j))
    BY HoldersAreFinite
  <2>3. fires[j] \in Nat /\ arms[j] \in Nat /\ fires' = fires /\ arms' = arms
    BY <1>1 DEF SchedulerTypeOK, SchedTick
  <2>4. i \notin Holders(j)
    BY <1>2 DEF Holders
  <2>5. CASE j \in due
    <3>1. Holders(j)' = Holders(j) \cup {i}
      BY <1>3, <1>4, <2>5 DEF Holders
    <3>2. Cardinality(Holders(j) \cup {i}) = Cardinality(Holders(j)) + 1
      BY <2>4, HoldersAreFinite, FS_AddElement
    <3>3. Cardinality(Holders(j))' = n + 1
      BY <2>2, <3>1, <3>2, Zenon
    <3> QED
      BY <1>3, <2>1, <2>2, <2>3, <2>5, <3>3
  <2>6. CASE j \notin due
    <3>1. Holders(j)' = Holders(j)
      BY <1>2, <1>3, <1>4, <2>6 DEF Holders
    <3>2. Cardinality(Holders(j))' = n
      BY <2>2, <3>1, Zenon
    <3> QED
      BY <1>5, <2>1, <2>2, <2>3, <2>6, <3>2
  <2> QED
    BY <2>5, <2>6
<1> QED
  BY <1>6, <1>7, <1>8, <1>9 DEF ClaimsInv

\* The trigger takes a claim out of the batch: it fires at most once for it.
LEMMA FireKeepsClaims ==
    ASSUME ClaimsInv, NEW i \in Instances, Fire(i)
    PROVE  ClaimsInv'
<1>1. SchedulerTypeOK /\ HeldInv
  BY DEF ClaimsInv
<1>2. PICK c \in batch[i], r \in {"ok", "full"} :
        /\ cur' = [cur EXCEPT ![i] = [claim |-> c, result |-> r]]
        /\ batch' = [batch EXCEPT ![i] = @ \ {c}]
        /\ fires' = [fires EXCEPT ![c.job] = IF Triggerable(c) /\ r = "ok" THEN @ + 1 ELSE @]
  BY DEF Fire
<1>3. /\ pc[i] = "fire" /\ pc' = [pc EXCEPT ![i] = "update"] /\ c \in Claims /\ c.job \in Jobs
      /\ UNCHANGED <<id, expr, nextRun, arms, lost>>
  BY <1>1 DEF Fire, rows, SchedulerTypeOK, Claims
<1>4. /\ batch' \in [Instances -> SUBSET Claims] /\ batch'[i] = batch[i] \ {c}
      /\ \A k \in Instances \ {i} : batch'[k] = batch[k] /\ cur'[k] = cur[k] /\ pc'[k] = pc[k]
      /\ pc'[i] = "update" /\ cur'[i] = [claim |-> c, result |-> r]
  BY <1>1, <1>2, <1>3 DEF SchedulerTypeOK
<1>5. /\ [claim |-> c, result |-> r] \in [claim : Claims, result : {"ok", "full"}]
      /\ [claim |-> c, result |-> r].claim = c
  BY <1>3
<1>6. cur'[i] \in [claim : Claims, result : {"ok", "full"}] /\ cur'[i].claim = c
  BY <1>4, <1>5
<1>7. SchedulerTypeOK'
  <2>1. fires' \in [Jobs -> Nat]
    BY <1>1, <1>2, <1>3 DEF SchedulerTypeOK
  <2>2. cur' \in [Instances -> [claim : Claims, result : {"ok", "full"}] \cup {Null}]
    BY <1>1, <1>2, <1>5 DEF SchedulerTypeOK
  <2>3. pc' \in [Instances -> {"wait", "fire", "update"}]
    BY <1>1, <1>3 DEF SchedulerTypeOK
  <2> QED
    BY <1>1, <1>4, <2>1, <2>2, <2>3 DEF SchedulerTypeOK, Fire, rows, setVars
<1>8. HeldInv'
  BY <1>1, <1>3, <1>4, <1>6 DEF HeldInv, Exists
<1>9. \A k \in Instances : Claimed(k)' = Claimed(k)
  <2>1. Claimed(i) = batch[i] /\ Claimed(i)' = (batch[i] \ {c}) \cup {c}
    BY <1>3, <1>4, <1>6 DEF Claimed
  <2> QED
    BY <1>4, <2>1 DEF Claimed
<1>10. ClaimIsNeverForgotten'
  <2> SUFFICES ASSUME NEW j \in Jobs \ lost', id'[j] # 0, nextRun'[j] = Null
               PROVE  \E k \in Instances : Holds(k, j)'
    BY DEF ClaimIsNeverForgotten, Exists, Holds
  <2>1. PICK k \in Instances : Holds(k, j)
    BY <1>3 DEF ClaimsInv, ClaimIsNeverForgotten, Exists
  <2>2. Holds(k, j)'
    BY <1>3, <1>9, <2>1 DEF Holds
  <2> QED
    BY <2>2
<1>11. NextRunFiresOnce'
  <2> SUFFICES ASSUME NEW j \in Jobs
               PROVE  fires'[j] + Cardinality(Holders(j))' + (IF nextRun'[j] # Null THEN 1 ELSE 0) <= arms'[j]
    BY DEF NextRunFiresOnce, Holders
  <2>1. fires[j] + Cardinality(Holders(j)) + (IF nextRun[j] # Null THEN 1 ELSE 0) <= arms[j]
    BY DEF ClaimsInv, NextRunFiresOnce, Holders
  <2>2. PICK n \in Nat : n = Cardinality(Holders(j))
    BY HoldersAreFinite
  <2>3. fires[j] \in Nat /\ arms[j] \in Nat
    BY <1>1 DEF SchedulerTypeOK
  <2>4. CASE j = c.job
    <3>1. i \in Holders(j) /\ Holders(j)' = Holders(j) \ {i}
      BY <1>1, <1>4, <2>4 DEF Holders, HeldInv
    <3>2. Cardinality(Holders(j) \ {i}) = Cardinality(Holders(j)) - 1
      BY <3>1, HoldersAreFinite, FS_RemoveElement
    <3>3. Cardinality(Holders(j))' = n - 1
      BY <2>2, <3>1, <3>2, Zenon
    <3>4. fires'[j] \in {fires[j], fires[j] + 1}
      BY <1>1, <1>2, <2>4 DEF SchedulerTypeOK
    <3> QED
      BY <1>3, <2>1, <2>2, <2>3, <3>3, <3>4
  <2>5. CASE j # c.job
    <3>1. Holders(j)' = Holders(j)
      BY <1>4, <2>5 DEF Holders
    <3>2. Cardinality(Holders(j))' = n
      BY <2>2, <3>1, Zenon
    <3>3. fires'[j] = fires[j]
      BY <1>1, <1>2, <2>5 DEF SchedulerTypeOK
    <3> QED
      BY <1>3, <2>1, <2>2, <2>3, <3>2, <3>3
  <2> QED
    BY <2>4, <2>5
<1> QED
  BY <1>7, <1>8, <1>10, <1>11 DEF ClaimsInv

\* The update that ends a claim: the row of the claim has a next run again, or is another row by now.
LEMMA UpdateKeepsClaims ==
    ASSUME ClaimsInv, NEW i \in Instances, UpdateScheduleAfterRun(i)
    PROVE  ClaimsInv'
<1>1. SchedulerTypeOK /\ HeldInv
  BY DEF ClaimsInv
<1>2. /\ pc[i] = "update" /\ UNCHANGED <<id, expr, batch, fires>>
      /\ cur' = [cur EXCEPT ![i] = Null] /\ pc' = [pc EXCEPT ![i] = IF batch[i] = {} THEN "wait" ELSE "fire"]
  BY DEF UpdateScheduleAfterRun
<1>3. cur[i] \in [claim : Claims, result : {"ok", "full"}]
  BY <1>1, <1>2 DEF SchedulerTypeOK, HeldInv
<1>4. PICK c \in Claims : c = cur[i].claim /\ c.job \in Jobs /\ c.expr \in Exprs
  BY <1>3 DEF Claims
<1>5. PICK next \in Nat : next = ComputeNextRun(c.expr, at[i]) /\ next # Null
  BY <1>1, <1>4, NextRunIsATime DEF SchedulerTypeOK, Times
<1>6. \/ /\ id[c.job] = c.id /\ UNCHANGED lost
         /\ lastRun' = [lastRun EXCEPT ![c.job] = at[i]] /\ nextRun' = [nextRun EXCEPT ![c.job] = next]
         /\ arms' = [arms EXCEPT ![c.job] = @ + 1]
      \/ id[c.job] # c.id /\ UNCHANGED <<lastRun, nextRun, arms, lost>>
      \/ lost' = lost \cup {c.job} /\ UNCHANGED <<lastRun, nextRun, arms>>
  BY <1>4, <1>5 DEF UpdateScheduleAfterRun
<1>7. /\ lastRun' \in [Jobs -> Times \cup {Null}] /\ nextRun' \in [Jobs -> Nat \cup {Null}]
      /\ arms' \in [Jobs -> Nat] /\ lost' \subseteq Jobs
  BY <1>1, <1>4, <1>6 DEF SchedulerTypeOK
<1>8. /\ pc'[i] \in {"wait", "fire"} /\ (pc'[i] = "wait" => batch[i] = {})
      /\ \A k \in Instances \ {i} : pc'[k] = pc[k] /\ cur'[k] = cur[k]
  BY <1>1, <1>2 DEF SchedulerTypeOK
<1>9. SchedulerTypeOK'
  <2>1. cur' \in [Instances -> [claim : Claims, result : {"ok", "full"}] \cup {Null}]
    BY <1>1, <1>2 DEF SchedulerTypeOK
  <2>2. pc' \in [Instances -> {"wait", "fire", "update"}]
    BY <1>1, <1>2 DEF SchedulerTypeOK
  <2> QED
    BY <1>1, <1>2, <1>7, <2>1, <2>2 DEF SchedulerTypeOK, UpdateScheduleAfterRun, setVars
<1>10. HeldInv'
  BY <1>1, <1>2, <1>8 DEF HeldInv, Exists
<1>11. ClaimIsNeverForgotten'
  <2> SUFFICES ASSUME NEW j \in Jobs \ lost', id'[j] # 0, nextRun'[j] = Null
               PROVE  \E k \in Instances : Holds(k, j)'
    BY DEF ClaimIsNeverForgotten, Exists, Holds
  <2>1. j \notin lost /\ nextRun[j] = Null /\ (c.job = j => c.id # id[j])
    BY <1>1, <1>4, <1>5, <1>6 DEF SchedulerTypeOK
  <2>2. PICK k \in Instances : Holds(k, j)
    BY <1>2, <2>1 DEF ClaimsInv, ClaimIsNeverForgotten, Exists
  <2>3. PICK d \in Claimed(k) : d.job = j /\ d.id = id[j]
    BY <2>2 DEF Holds
  <2>4. d \in Claimed(k)'
    <3>1. CASE k = i
      BY <1>2, <1>4, <2>1, <2>3, <3>1 DEF Claimed
    <3>2. CASE k # i
      BY <1>2, <1>8, <2>3, <3>2 DEF Claimed
    <3> QED
      BY <3>1, <3>2
  <2>5. Holds(k, j)'
    BY <1>2, <2>3, <2>4 DEF Holds
  <2> QED
    BY <2>5
<1>12. NextRunFiresOnce'
  <2>1. \A j \in Jobs : \/ nextRun'[j] = nextRun[j] /\ arms'[j] = arms[j]
                        \/ arms'[j] = arms[j] + 1
    BY <1>1, <1>4, <1>6 DEF SchedulerTypeOK
  <2> QED
    BY <1>2, <1>7, <2>1, ValuesStep
<1> QED
  BY <1>9, <1>10, <1>11, <1>12 DEF ClaimsInv

\* A process that dies loses its claims, and says so in the history.
LEMMA DeathKeepsClaims ==
    ASSUME ClaimsInv, NEW i \in Instances, InstanceDies(i)
    PROVE  ClaimsInv'
<1>1. SchedulerTypeOK /\ HeldInv
  BY DEF ClaimsInv
<1>2. /\ pc' = [pc EXCEPT ![i] = "wait"] /\ batch' = [batch EXCEPT ![i] = {}] /\ cur' = [cur EXCEPT ![i] = Null]
      /\ lost' = lost \cup {c.job : c \in Claimed(i)} /\ UNCHANGED <<id, expr, nextRun, fires, arms>>
  BY DEF InstanceDies, rows
<1>3. \A c \in Claimed(i) : c \in Claims /\ c.job \in Jobs
  <2>1. pc[i] = "update" => cur[i] \in [claim : Claims, result : {"ok", "full"}]
    BY <1>1 DEF SchedulerTypeOK, HeldInv
  <2> QED
    BY <1>1, <2>1 DEF Claimed, SchedulerTypeOK, Claims
<1>4. /\ pc'[i] = "wait" /\ batch'[i] = {}
      /\ \A k \in Instances \ {i} : pc'[k] = pc[k] /\ batch'[k] = batch[k] /\ cur'[k] = cur[k]
  BY <1>1, <1>2 DEF SchedulerTypeOK
<1>5. SchedulerTypeOK'
  <2>1. /\ cur' \in [Instances -> [claim : Claims, result : {"ok", "full"}] \cup {Null}]
        /\ pc' \in [Instances -> {"wait", "fire", "update"}] /\ batch' \in [Instances -> SUBSET Claims]
    BY <1>1, <1>2 DEF SchedulerTypeOK
  <2>2. lost' \subseteq Jobs
    BY <1>1, <1>2, <1>3 DEF SchedulerTypeOK
  <2> QED
    BY <1>1, <2>1, <2>2 DEF SchedulerTypeOK, InstanceDies, rows, setVars
<1>6. HeldInv'
  BY <1>1, <1>2, <1>4 DEF HeldInv, Exists
<1>7. ClaimIsNeverForgotten'
  <2> SUFFICES ASSUME NEW j \in Jobs \ lost', id'[j] # 0, nextRun'[j] = Null
               PROVE  \E k \in Instances : Holds(k, j)'
    BY DEF ClaimIsNeverForgotten, Exists, Holds
  <2>1. PICK k \in Instances : Holds(k, j)
    BY <1>2 DEF ClaimsInv, ClaimIsNeverForgotten, Exists
  <2>2. k # i
    BY <1>2, <2>1 DEF Holds
  <2>3. Holds(k, j)'
    BY <1>2, <1>4, <2>1, <2>2 DEF Holds, Claimed
  <2> QED
    BY <2>3
<1>8. NextRunFiresOnce'
  <2> SUFFICES ASSUME NEW j \in Jobs
               PROVE  fires'[j] + Cardinality(Holders(j))' + (IF nextRun'[j] # Null THEN 1 ELSE 0) <= arms'[j]
    BY DEF NextRunFiresOnce, Holders
  <2>1. fires[j] + Cardinality(Holders(j)) + (IF nextRun[j] # Null THEN 1 ELSE 0) <= arms[j]
    BY DEF ClaimsInv, NextRunFiresOnce, Holders
  <2>2. PICK S : S = Holders(j)'
    OBVIOUS
  <2>3. S \subseteq Holders(j)
    BY <1>4, <2>2 DEF Holders
  <2>4. IsFiniteSet(S) /\ Cardinality(S) <= Cardinality(Holders(j)) /\ Cardinality(S) \in Nat
    BY <2>3, HoldersAreFinite, FS_Subset, FS_CardinalityType
  <2>5. Cardinality(Holders(j))' = Cardinality(S)
    BY <2>2, Zenon
  <2>6. fires[j] \in Nat /\ arms[j] \in Nat /\ Cardinality(Holders(j)) \in Nat
    BY <1>1, HoldersAreFinite DEF SchedulerTypeOK
  <2> QED
    BY <1>2, <2>1, <2>4, <2>5, <2>6
<1> QED
  BY <1>5, <1>6, <1>7, <1>8 DEF ClaimsInv

\* Rows of the pipeline are deleted.
LEMMA DeletedIs ==
    ASSUME ClaimsInv, NEW gone, Deleted(gone), UNCHANGED <<pc, batch, cur, fires, arms, lost>>
    PROVE  /\ id' \in [Jobs -> Nat] /\ nextRun' \in [Jobs -> Nat \cup {Null}] /\ lastRun' \in [Jobs -> Times \cup {Null}]
           /\ HeldInv' /\ ClaimIsNeverForgotten' /\ NextRunFiresOnce'
<1>1. SchedulerTypeOK /\ HeldInv
  BY DEF ClaimsInv
<1>2. /\ id' \in [Jobs -> Nat] /\ nextRun' \in [Jobs -> Nat \cup {Null}] /\ lastRun' \in [Jobs -> Times \cup {Null}]
      /\ \A j \in Jobs : \/ id'[j] = 0 /\ nextRun'[j] = Null
                         \/ id'[j] = id[j] /\ nextRun'[j] = nextRun[j]
  BY <1>1 DEF SchedulerTypeOK, Deleted
<1>3. HeldInv'
  BY <1>1, <1>2 DEF HeldInv, Exists, Deleted
<1>4. ClaimIsNeverForgotten'
  BY <1>2, ClaimsStay
<1>5. NextRunFiresOnce'
  BY <1>2, ValuesStep
<1> QED
  BY <1>2, <1>3, <1>4, <1>5

\* The requests that set, pause and delete the pipeline, and time.
LEMMA RequestsKeepClaims ==
    ASSUME ClaimsInv,
           \/ \E decl \in [Jobs -> Exprs \cup {Null}] : SetPipeline(decl)
           \/ SetStep \/ DeletePipeline \/ SchedAdvance
           \/ \E j \in Jobs, b \in BOOLEAN : UpdateScheduleEnabled(j, b)
           \/ \E state \in {"active", "paused"} : PausePipeline(state)
    PROVE  ClaimsInv'
<1>1. SchedulerTypeOK /\ HeldInv
  BY DEF ClaimsInv
<1>2. ASSUME UNCHANGED <<id, expr, nextRun, pc, batch, cur, fires, arms, lost>>, SchedulerTypeOK'
      PROVE  ClaimsInv'
  <2>1. HeldInv'
    BY <1>1, <1>2 DEF HeldInv, Exists
  <2>2. ClaimIsNeverForgotten'
    BY <1>2, ClaimsStay
  <2>3. NextRunFiresOnce'
    BY <1>1, <1>2, ValuesStep DEF SchedulerTypeOK
  <2> QED
    BY <1>2, <2>1, <2>2, <2>3 DEF ClaimsInv
<1>3. ASSUME NEW decl \in [Jobs -> Exprs \cup {Null}], SetPipeline(decl)
      PROVE  ClaimsInv'
  <2>1. setTodo' \subseteq Jobs \X Exprs /\ keep' \subseteq Jobs /\ sets' \in 0..MaxSets
    BY <1>1, <1>3, SchedulerAssumption DEF SetPipeline, SchedulerTypeOK
  <2>2. pipeline' \in {"active", "paused", "gone"} /\ pid' \in Nat
    BY <1>1, <1>3 DEF SetPipeline, SchedulerTypeOK
  <2>3. SchedulerTypeOK'
    BY <1>1, <1>3, <2>1, <2>2 DEF SetPipeline, SchedulerTypeOK, rows, tickVars
  <2> QED
    BY <1>2, <1>3, <2>3 DEF SetPipeline, rows, tickVars
<1>4. ASSUME NEW j \in Jobs, NEW e \in Exprs, SaveSchedule(j, e)
      PROVE  ClaimsInv'
  <2>1. PICK next \in Nat : next = ComputeNextRun(e, setAt) /\ next # Null
    BY <1>1, NextRunIsATime DEF SchedulerTypeOK, Times
  <2>2. /\ nextRun' = [nextRun EXCEPT ![j] = next] /\ expr' = [expr EXCEPT ![j] = e]
        /\ arms' = [arms EXCEPT ![j] = @ + 1] /\ UNCHANGED <<pc, batch, cur, fires, lost>>
    BY <1>4, <2>1 DEF SaveSchedule, tickVars
  <2>3. id' \in [Jobs -> Nat] /\ ids' \in Nat /\ \A k \in Jobs \ {j} : id'[k] = id[k]
    BY <1>1, <1>4 DEF SaveSchedule, SchedulerTypeOK
  <2>4. enabled' \in [Jobs -> BOOLEAN] /\ lastRun' \in [Jobs -> Times \cup {Null}]
    BY <1>1, <1>4 DEF SaveSchedule, SchedulerTypeOK
  <2>5. /\ nextRun' \in [Jobs -> Nat \cup {Null}] /\ expr' \in [Jobs -> Exprs \cup {Null}]
        /\ arms' \in [Jobs -> Nat]
    BY <1>1, <2>2 DEF SchedulerTypeOK
  <2>6. SchedulerTypeOK'
    BY <1>1, <1>4, <2>3, <2>4, <2>5 DEF SaveSchedule, SchedulerTypeOK, tickVars
  <2>7. HeldInv'
    BY <1>1, <2>2, <2>3 DEF HeldInv, Exists, SchedulerTypeOK
  <2>8. ClaimIsNeverForgotten'
    <3>1. \A k \in Jobs : id'[k] # 0 /\ nextRun'[k] = Null => id'[k] = id[k] /\ nextRun[k] = Null
      BY <1>1, <2>1, <2>2, <2>3 DEF SchedulerTypeOK
    <3> QED
      BY <2>2, <3>1, ClaimsStay
  <2>9. NextRunFiresOnce'
    <3>1. \A k \in Jobs : \/ nextRun'[k] = nextRun[k] /\ arms'[k] = arms[k]
                          \/ arms'[k] = arms[k] + 1
      BY <1>1, <2>2 DEF SchedulerTypeOK
    <3> QED
      BY <2>2, <2>5, <3>1, ValuesStep
  <2> QED
    BY <2>6, <2>7, <2>8, <2>9 DEF ClaimsInv
<1>5. CASE PruneSchedulesByPipeline
  <2>1. Deleted(Jobs \ keep) /\ UNCHANGED <<pc, batch, cur, fires, arms, lost>>
    BY <1>5 DEF PruneSchedulesByPipeline, tickVars
  <2>2. /\ id' \in [Jobs -> Nat] /\ nextRun' \in [Jobs -> Nat \cup {Null}] /\ lastRun' \in [Jobs -> Times \cup {Null}]
        /\ HeldInv' /\ ClaimIsNeverForgotten' /\ NextRunFiresOnce'
    BY <2>1, DeletedIs
  <2>3. SchedulerTypeOK'
    BY <1>1, <1>5, <2>1, <2>2 DEF PruneSchedulesByPipeline, SchedulerTypeOK, Deleted, tickVars
  <2> QED
    BY <2>2, <2>3 DEF ClaimsInv
<1>6. CASE SetFails
  <2>1. SchedulerTypeOK'
    BY <1>1, <1>6 DEF SetFails, SchedulerTypeOK, rows, tickVars
  <2> QED
    BY <1>2, <1>6, <2>1 DEF SetFails, rows, tickVars
<1>7. CASE DeletePipeline
  <2>1. Deleted(Jobs) /\ UNCHANGED <<pc, batch, cur, fires, arms, lost>>
    BY <1>7 DEF DeletePipeline, tickVars
  <2>2. /\ id' \in [Jobs -> Nat] /\ nextRun' \in [Jobs -> Nat \cup {Null}] /\ lastRun' \in [Jobs -> Times \cup {Null}]
        /\ HeldInv' /\ ClaimIsNeverForgotten' /\ NextRunFiresOnce'
    BY <2>1, DeletedIs
  <2>3. SchedulerTypeOK'
    BY <1>1, <1>7, <2>1, <2>2 DEF DeletePipeline, SchedulerTypeOK, Deleted, tickVars, setVars
  <2> QED
    BY <2>2, <2>3 DEF ClaimsInv
<1>8. CASE SchedAdvance
  <2>1. SchedulerTypeOK'
    BY <1>1, <1>8, SchedulerAssumption DEF SchedAdvance, SchedulerTypeOK, rows, tickVars, setVars, Times
  <2> QED
    BY <1>2, <1>8, <2>1 DEF SchedAdvance, rows, tickVars
<1>9. ASSUME NEW j \in Jobs, NEW b \in BOOLEAN, UpdateScheduleEnabled(j, b)
      PROVE  ClaimsInv'
  <2>1. enabled' \in [Jobs -> BOOLEAN]
    BY <1>1, <1>9 DEF UpdateScheduleEnabled, SchedulerTypeOK
  <2>2. SchedulerTypeOK'
    BY <1>1, <1>9, <2>1 DEF UpdateScheduleEnabled, SchedulerTypeOK, tickVars, setVars
  <2> QED
    BY <1>2, <1>9, <2>2 DEF UpdateScheduleEnabled, tickVars
<1>10. ASSUME NEW state \in {"active", "paused"}, PausePipeline(state)
       PROVE  ClaimsInv'
  <2>1. SchedulerTypeOK'
    BY <1>1, <1>10 DEF PausePipeline, SchedulerTypeOK, rows, tickVars, setVars
  <2> QED
    BY <1>2, <1>10, <2>1 DEF PausePipeline, rows, tickVars
<1> QED
  BY <1>3, <1>4, <1>5, <1>6, <1>7, <1>8, <1>9, <1>10 DEF SetStep

\* The invariant of the schedules.
THEOREM SchedulerInvariant == SchedulerSpec => []ClaimsInv
<1>1. SchedulerInit => ClaimsInv
  BY ClaimsInitially
<1>2. ClaimsInv /\ [SchedulerNext]_schedulerVars => ClaimsInv'
  <2> SUFFICES ASSUME ClaimsInv, [SchedulerNext]_schedulerVars
               PROVE  ClaimsInv'
    OBVIOUS
  <2>1. CASE UNCHANGED schedulerVars
    <3>1. SchedulerTypeOK'
      BY <2>1 DEF ClaimsInv, SchedulerTypeOK, schedulerVars
    <3>2. HeldInv'
      BY <2>1 DEF ClaimsInv, HeldInv, Exists, schedulerVars
    <3>3. ClaimIsNeverForgotten'
      BY <2>1, ClaimsStay DEF schedulerVars
    <3>4. NextRunFiresOnce'
      BY <2>1, ValuesStep DEF ClaimsInv, SchedulerTypeOK, schedulerVars
    <3> QED
      BY <3>1, <3>2, <3>3, <3>4 DEF ClaimsInv
  <2>2. ASSUME NEW i \in Instances, SchedulerStep(i) \/ InstanceDies(i)
        PROVE  ClaimsInv'
    BY <2>2, TickKeepsClaims, FireKeepsClaims, UpdateKeepsClaims, DeathKeepsClaims DEF SchedulerStep
  <2> QED
    BY <2>1, <2>2, RequestsKeepClaims DEF SchedulerNext
<1> QED
  BY <1>1, <1>2, PTL DEF SchedulerSpec

\* No claim of a schedule is forgotten: unless a process died with it or the write that ends it failed, a schedule
\* without a next run is held by an instance that will write one (ClaimDueSchedules, UpdateScheduleAfterRun).
THEOREM ClaimsAreNeverForgotten == SchedulerSpec => []ClaimIsNeverForgotten
<1>1. ClaimsInv => ClaimIsNeverForgotten
  BY DEF ClaimsInv
<1> QED
  BY <1>1, SchedulerInvariant, PTL

\* Every value of next_run_at triggers the pipeline at most once, for any number of instances that share the
\* database (ClaimDueSchedules, processSchedule).
THEOREM NextRunsFireOnce == SchedulerSpec => []NextRunFiresOnce
<1>1. ClaimsInv => NextRunFiresOnce
  BY DEF ClaimsInv
<1> QED
  BY <1>1, SchedulerInvariant, PTL

-----------------------------------------------------------------------------
(* PassedTriggers *)

\* A run names upstream runs that are no younger than itself, and none is younger than the clock.
AgesInv ==
    \A r \in DOMAIN runs : /\ runs[r].created <= clock
                           /\ \A x \in runs[r].upstream : runs[x].created <= runs[r].created

\* The scanner's active runs of one job are one.
ActiveInv == \A j \in Downstreams : \A r, q \in PassedRuns(j) : Active(r) /\ Active(q) => r = q

FiredInv == PassedTypeOK /\ AgesInv /\ ActiveInv /\ UpstreamFiresOnce

\* A bounded set of numbers has a largest one.
LEMMA LargestExists ==
    ASSUME NEW S \in SUBSET Nat, S # {}, NEW n \in Nat, \A s \in S : s <= n
    PROVE  \E m \in S : \A s \in S : s <= m
<1> DEFINE T == {t \in Nat : \E s \in S : t = n - s}
<1>1. \A s \in S : n - s \in T
  OBVIOUS
<1>2. IsWellFoundedOn(OpToRel(<, Nat), Nat)
  BY NatLessThanWellFounded
<1>3. PICK t \in T : \A w \in T : ~(<<w, t>> \in OpToRel(<, Nat))
  <2>1. T \in SUBSET Nat /\ T # {}
    BY <1>1
  <2> HIDE DEF T
  <2> QED
    BY <1>2, <2>1, WFMin
<1>4. \A w \in T : ~(w < t)
  BY <1>3 DEF OpToRel
<1>5. PICK m \in S : t = n - m
  BY <1>3
<1>6. \A s \in S : ~(n - s < n - m)
  BY <1>1, <1>4, <1>5
<1> QED
  BY <1>6

\* No run of a job was created after the job's last run.
LEMMA LastRunIsLast ==
    ASSUME FiredInv, NEW j
    PROVE  /\ LastRunOf(j) \in Nat
           /\ \A r \in DOMAIN runs : j \in runs[r].jobs => runs[r].created <= LastRunOf(j)
<1> DEFINE of == {runs[r].created : r \in {q \in DOMAIN runs : j \in runs[q].jobs}}
<1>1. \A r \in DOMAIN runs : runs[r] \in RunRows
  BY DEF FiredInv, PassedTypeOK
<1>2. of \subseteq 1..MaxClock /\ MaxClock \in Nat
  BY <1>1, PassedAssumption DEF RunRows
<1>3. \E t \in of \cup {0} : \A s \in of : s <= t
  <2>1. CASE of = {}
    BY <2>1
  <2>2. CASE of # {}
    <3>1. of \in SUBSET Nat /\ \A s \in of : s <= MaxClock
      BY <1>2
    <3> HIDE DEF of
    <3>2. \E m \in of : \A s \in of : s <= m
      BY <1>2, <2>2, <3>1, LargestExists
    <3> QED
      BY <3>2
  <2> QED
    BY <2>1, <2>2
<1>4. PICK t \in of \cup {0} : t = LastRunOf(j) /\ \A s \in of : s <= t
  <2> DEFINE last == CHOOSE t \in of \cup {0} : \A s \in of : s <= t
  <2>1. last = LastRunOf(j)
    BY Zenon DEF LastRunOf
  <2>2. last \in of \cup {0} /\ \A s \in of : s <= last
    <3> HIDE DEF of
    <3> QED
      BY <1>3
  <2> QED
    BY <2>1, <2>2, Zenon
<1> QED
  BY <1>2, <1>4

\* The upstream runs recorded with a run that is due succeeded after the job's last run.
LEMMA UpstreamsAreFresh ==
    ASSUME FiredInv, NEW j \in JobNames, Evaluates(j)
    PROVE  \A x \in UpstreamRunIDs(j) : x \in DOMAIN runs /\ runs[x].created > LastRunOf(j)
<1> DEFINE of(u) == FreshSuccesses(u, LastRunOf(j))
<1> DEFINE Newest(u, r) == \A q \in of(u) : \/ runs[q].created < runs[r].created
                                            \/ runs[q].created = runs[r].created /\ q <= r
<1>1. runs \in Seq(RunRows) /\ \A r \in DOMAIN runs : runs[r].created \in Nat /\ runs[r].created <= MaxClock
  <2>1. runs \in Seq(RunRows) /\ \A r \in DOMAIN runs : runs[r] \in RunRows
    BY DEF FiredInv, PassedTypeOK
  <2> QED
    BY <2>1, PassedAssumption DEF RunRows
<1>2. ASSUME NEW u \in PassedOf[j]
      PROVE  \E r \in of(u) : Newest(u, r)
  <2>1. of(u) # {} /\ of(u) \subseteq 1..Len(runs) /\ Len(runs) \in Nat
    BY <1>1, <1>2 DEF Evaluates, FreshSuccesses
  <2> DEFINE S == {runs[r].created : r \in of(u)}
  <2>2. S \in SUBSET Nat /\ S # {} /\ MaxClock \in Nat /\ \A s \in S : s <= MaxClock
    BY <1>1, <2>1, PassedAssumption
  <2>3. PICK m \in S : \A s \in S : s <= m
    <3> HIDE DEF S
    <3> QED
      BY <2>2, LargestExists
  <2> DEFINE T == {r \in of(u) : runs[r].created = m}
  <2>4. T \in SUBSET Nat /\ T # {} /\ \A t \in T : t <= Len(runs)
    BY <2>1
  <2>5. PICK r \in T : \A t \in T : t <= r
    <3> HIDE DEF T
    <3> QED
      BY <2>1, <2>4, LargestExists
  <2>6. Newest(u, r)
    <3> SUFFICES ASSUME NEW q \in of(u)
                 PROVE  \/ runs[q].created < runs[r].created
                        \/ runs[q].created = runs[r].created /\ q <= r
      OBVIOUS
    <3>1. runs[q].created \in S /\ runs[r].created = m /\ runs[q].created <= m
      BY <2>3, <2>5
    <3>2. m \in Nat /\ runs[q].created \in Nat
      BY <2>2, <3>1
    <3>3. CASE runs[q].created = m
      <4>1. q \in T
        BY <3>3
      <4> QED
        BY <2>5, <3>1, <3>3, <4>1
    <3>4. CASE runs[q].created # m
      BY <3>1, <3>2, <3>4
    <3> QED
      BY <3>3, <3>4
  <2> QED
    BY <2>5, <2>6
<1>3. ASSUME NEW u \in PassedOf[j]
      PROVE  (CHOOSE r \in of(u) : Newest(u, r)) \in of(u)
  <2>1. \E r \in of(u) : Newest(u, r)
    BY <1>2
  <2> HIDE DEF of, Newest
  <2> QED
    BY <2>1
<1>4. ASSUME NEW x \in UpstreamRunIDs(j)
      PROVE  \E u \in PassedOf[j] : x = CHOOSE r \in of(u) : Newest(u, r)
  BY <1>4, Zenon DEF UpstreamRunIDs
<1>5. ASSUME NEW x \in UpstreamRunIDs(j)
      PROVE  \E u \in PassedOf[j] : x \in of(u)
  <2>1. PICK u \in PassedOf[j] : x = CHOOSE r \in of(u) : Newest(u, r)
    BY <1>4
  <2> HIDE DEF of, Newest
  <2> QED
    BY <1>3, <2>1
<1> QED
  BY <1>5 DEF FreshSuccesses

\* The scanner's order of a finite set of jobs names each of them once.
LEMMA OrderIsInjective ==
    ASSUME NEW S, IsFiniteSet(S)
    PROVE  /\ SetToSeq(S) \in [1..Cardinality(S) -> S] /\ Cardinality(S) \in Nat
           /\ \A a, b \in 1..Cardinality(S) : SetToSeq(S)[a] = SetToSeq(S)[b] => a = b
<1>1. ExistsBijection(1..Cardinality(S), S) /\ Cardinality(S) \in Nat
  BY FS_CardinalityType
<1>2. PICK f \in [1..Cardinality(S) -> S] : IsInjective(f)
  BY <1>1 DEF ExistsBijection, Bijection, Injection
<1>3. SetToSeq(S) \in [1..Cardinality(S) -> S] /\ IsInjective(SetToSeq(S))
  BY <1>2 DEF SetToSeq
<1> QED
  BY <1>1, <1>3 DEF IsInjective

\* A status that changes, from active to one that is not or to success, changes nothing else.
LEMMA StatusStep ==
    ASSUME FiredInv, UNCHANGED clock, runs' \in Seq(RunRows), Len(runs') = Len(runs),
           \A r \in DOMAIN runs : /\ runs'[r].jobs = runs[r].jobs /\ runs'[r].created = runs[r].created
                                  /\ runs'[r].via = runs[r].via /\ runs'[r].upstream = runs[r].upstream
                                  /\ runs'[r].status = "active" => runs[r].status = "active"
    PROVE  /\ AgesInv' /\ ActiveInv' /\ UpstreamFiresOnce'
           /\ DOMAIN runs' = DOMAIN runs /\ \A r \in DOMAIN runs' : runs'[r].upstream \subseteq DOMAIN runs'
<1>1. runs \in Seq(RunRows) /\ \A r \in DOMAIN runs : runs[r].upstream \subseteq DOMAIN runs
  BY DEF FiredInv, PassedTypeOK
<1>2. DOMAIN runs' = DOMAIN runs
  BY <1>1
<1>3. AgesInv'
  BY <1>1, <1>2 DEF FiredInv, AgesInv
<1>4. \A j : PassedRuns(j)' = PassedRuns(j)
  BY <1>2 DEF PassedRuns
<1>5. ActiveInv'
  BY <1>2, <1>4 DEF FiredInv, ActiveInv, Active, Downstreams, PassedRuns
<1>6. UpstreamFiresOnce'
  BY <1>2, <1>4 DEF FiredInv, UpstreamFiresOnce, Downstreams, PassedRuns
<1> QED
  BY <1>1, <1>2, <1>3, <1>5, <1>6

\* A row with another status.
LEMMA StatusIs ==
    ASSUME NEW rec \in RunRows, NEW s \in {"active", "success", "failed"}
    PROVE  /\ [rec EXCEPT !.status = s] \in RunRows /\ [rec EXCEPT !.status = s].status = s
           /\ [rec EXCEPT !.status = s].jobs = rec.jobs /\ [rec EXCEPT !.status = s].created = rec.created
           /\ [rec EXCEPT !.status = s].via = rec.via /\ [rec EXCEPT !.status = s].upstream = rec.upstream
BY DEF RunRows

\* One row is given its final status.
LEMMA OneStatusStep ==
    ASSUME FiredInv, UNCHANGED clock, NEW r \in DOMAIN runs, NEW s \in {"success", "failed"},
           runs' = [runs EXCEPT ![r].status = s]
    PROVE  /\ runs' \in Seq(RunRows) /\ AgesInv' /\ ActiveInv' /\ UpstreamFiresOnce'
           /\ DOMAIN runs' = DOMAIN runs /\ \A q \in DOMAIN runs' : runs'[q].upstream \subseteq DOMAIN runs'
<1>1. runs \in Seq(RunRows)
  BY DEF FiredInv, PassedTypeOK
<1>2. PICK rec \in RunRows : rec = runs[r]
  BY <1>1
<1>3. runs' = [runs EXCEPT ![r] = [rec EXCEPT !.status = s]]
  BY <1>2, Zenon
<1>4. PICK new \in RunRows : /\ new = [rec EXCEPT !.status = s] /\ new.status = s /\ new.jobs = rec.jobs
                             /\ new.created = rec.created /\ new.via = rec.via /\ new.upstream = rec.upstream
  <2>1. s \in {"active", "success", "failed"}
    OBVIOUS
  <2>2. /\ [rec EXCEPT !.status = s] \in RunRows /\ [rec EXCEPT !.status = s].status = s
        /\ [rec EXCEPT !.status = s].jobs = rec.jobs /\ [rec EXCEPT !.status = s].created = rec.created
        /\ [rec EXCEPT !.status = s].via = rec.via /\ [rec EXCEPT !.status = s].upstream = rec.upstream
    BY <2>1, StatusIs, Zenon
  <2> QED
    BY <2>2, Zenon
<1>5. runs' = [runs EXCEPT ![r] = new]
  BY <1>3, <1>4, Zenon
<1>6. runs' \in Seq(RunRows) /\ Len(runs') = Len(runs)
  BY <1>1, <1>5
<1>7. runs'[r] = new /\ \A q \in DOMAIN runs \ {r} : runs'[q] = runs[q]
  BY <1>1, <1>5
<1>8. \A q \in DOMAIN runs : /\ runs'[q].jobs = runs[q].jobs /\ runs'[q].created = runs[q].created
                             /\ runs'[q].via = runs[q].via /\ runs'[q].upstream = runs[q].upstream
                             /\ runs'[q].status = "active" => runs[q].status = "active"
  BY <1>2, <1>4, <1>7
<1> QED
  BY <1>6, <1>8, StatusStep

\* Rows are added behind the others: for every one of the scanner's, nothing active is there, and its upstream runs
\* are younger than every run of its job.
LEMMA AddedStep ==
    ASSUME FiredInv, UNCHANGED clock, NEW new \in Seq(RunRows), runs' = runs \o new,
           \A i \in DOMAIN new :
             /\ new[i].created = clock /\ new[i].upstream \subseteq DOMAIN runs
             /\ new[i].via = "passed" => \A j \in new[i].jobs :
                  /\ ~HasActiveRun(j)
                  /\ \A x \in new[i].upstream, r \in DOMAIN runs :
                        j \in runs[r].jobs => runs[r].created < runs[x].created
                  /\ \A k \in DOMAIN new : new[k].via = "passed" /\ j \in new[k].jobs => k = i
    PROVE  /\ runs' \in Seq(RunRows) /\ AgesInv' /\ ActiveInv' /\ UpstreamFiresOnce'
           /\ DOMAIN runs \subseteq DOMAIN runs' /\ \A q \in DOMAIN runs' : runs'[q].upstream \subseteq DOMAIN runs'
<1>1. /\ runs \in Seq(RunRows) /\ clock \in Nat
      /\ \A r \in DOMAIN runs : runs[r].upstream \subseteq DOMAIN runs /\ runs[r].created \in Nat
  <2>1. runs \in Seq(RunRows) /\ \A r \in DOMAIN runs : runs[r] \in RunRows /\ runs[r].upstream \subseteq DOMAIN runs
    BY DEF FiredInv, PassedTypeOK
  <2> QED
    BY <2>1 DEF FiredInv, PassedTypeOK, RunRows
<1>2. /\ runs' \in Seq(RunRows) /\ DOMAIN runs' = 1..(Len(runs) + Len(new)) /\ DOMAIN runs = 1..Len(runs)
      /\ DOMAIN new = 1..Len(new) /\ Len(new) \in Nat /\ Len(runs) \in Nat
      /\ \A r \in DOMAIN runs : runs'[r] = runs[r]
      /\ \A r \in DOMAIN runs' \ DOMAIN runs : r - Len(runs) \in DOMAIN new /\ runs'[r] = new[r - Len(runs)]
  BY <1>1
<1>3. AgesInv'
  <2> SUFFICES ASSUME NEW r \in DOMAIN runs'
               PROVE  /\ runs'[r].created <= clock
                      /\ \A x \in runs'[r].upstream : runs'[x].created <= runs'[r].created
    BY DEF AgesInv
  <2>1. CASE r \in DOMAIN runs
    BY <1>1, <1>2, <2>1 DEF FiredInv, AgesInv
  <2>2. CASE r \notin DOMAIN runs
    BY <1>1, <1>2, <2>2 DEF FiredInv, AgesInv
  <2> QED
    BY <2>1, <2>2
<1>4. ASSUME NEW j, NEW r \in PassedRuns(j)'
      PROVE  \/ r \in PassedRuns(j) /\ runs'[r] = runs[r]
             \/ /\ r \notin DOMAIN runs /\ r - Len(runs) \in DOMAIN new /\ runs'[r] = new[r - Len(runs)]
                /\ new[r - Len(runs)].via = "passed" /\ j \in new[r - Len(runs)].jobs
  BY <1>2, <1>4 DEF PassedRuns
<1>5. ASSUME NEW j, NEW r \in PassedRuns(j)', NEW q \in PassedRuns(j)', r \notin DOMAIN runs, q \notin DOMAIN runs
      PROVE  r = q
  <2>1. r - Len(runs) = q - Len(runs)
    BY <1>4, <1>5 DEF PassedRuns
  <2>2. r \in Int /\ q \in Int
    BY <1>2, <1>5 DEF PassedRuns
  <2> QED
    BY <1>2, <2>1, <2>2
<1>6. ASSUME NEW j, NEW r \in PassedRuns(j), NEW q \in PassedRuns(j)', q \notin DOMAIN runs
      PROVE  ~Active(r) /\ runs'[r].upstream \cap runs'[q].upstream = {}
  <2>1. r \in DOMAIN runs /\ j \in runs[r].jobs /\ runs'[r] = runs[r]
    BY <1>2, <1>6 DEF PassedRuns
  <2>2. /\ q - Len(runs) \in DOMAIN new /\ runs'[q] = new[q - Len(runs)]
        /\ new[q - Len(runs)].via = "passed" /\ j \in new[q - Len(runs)].jobs
    BY <1>4, <1>6 DEF PassedRuns
  <2>3. ~Active(r)
    BY <2>1, <2>2 DEF HasActiveRun
  <2>4. ASSUME NEW x \in runs'[q].upstream, x \in runs[r].upstream
        PROVE  FALSE
    <3>1. runs[r].created < runs[x].created
      BY <2>1, <2>2, <2>4
    <3>2. runs[x].created <= runs[r].created /\ runs[r].created \in Nat /\ runs[x].created \in Nat
      BY <1>1, <2>1, <2>4 DEF FiredInv, AgesInv
    <3> QED
      BY <3>1, <3>2
  <2> QED
    BY <2>1, <2>3, <2>4
<1>7. ActiveInv'
  <2> SUFFICES ASSUME NEW j \in Downstreams, NEW r \in PassedRuns(j)', NEW q \in PassedRuns(j)', Active(r)', Active(q)'
               PROVE  r = q
    BY SMTT(30) DEF ActiveInv, Downstreams, PassedRuns, Active
  <2>1. CASE r \in PassedRuns(j) /\ q \in PassedRuns(j)
    BY <1>2, <2>1 DEF FiredInv, ActiveInv, Active, PassedRuns
  <2>2. CASE r \notin DOMAIN runs /\ q \notin DOMAIN runs
    BY <1>5, <2>2
  <2>3. CASE r \in PassedRuns(j) /\ q \notin DOMAIN runs
    BY <1>2, <1>6, <2>3 DEF Active, PassedRuns
  <2>4. CASE r \notin DOMAIN runs /\ q \in PassedRuns(j)
    BY <1>2, <1>6, <2>4 DEF Active, PassedRuns
  <2> QED
    BY <1>4, <2>1, <2>2, <2>3, <2>4
<1>8. UpstreamFiresOnce'
  <2> SUFFICES ASSUME NEW j \in Downstreams, NEW r \in PassedRuns(j)', NEW q \in PassedRuns(j)', r # q
               PROVE  runs'[r].upstream \cap runs'[q].upstream = {}
    BY DEF UpstreamFiresOnce, Downstreams, PassedRuns
  <2>1. CASE r \in PassedRuns(j) /\ q \in PassedRuns(j)
    BY <1>2, <2>1 DEF FiredInv, UpstreamFiresOnce, PassedRuns
  <2>2. CASE r \notin DOMAIN runs /\ q \notin DOMAIN runs
    BY <1>5, <2>2
  <2>3. CASE r \in PassedRuns(j) /\ q \notin DOMAIN runs
    BY <1>6, <2>3
  <2>4. CASE r \notin DOMAIN runs /\ q \in PassedRuns(j)
    BY <1>6, <2>4
  <2> QED
    BY <1>4, <2>1, <2>2, <2>3, <2>4
<1>9. \A q \in DOMAIN runs' : runs'[q].upstream \subseteq DOMAIN runs'
  BY <1>1, <1>2
<1> QED
  BY <1>2, <1>3, <1>7, <1>8, <1>9

\* A row of a request or a schedule.
LEMMA OtherRowStep ==
    ASSUME FiredInv, UNCHANGED clock, NEW js \in SUBSET JobNames, NEW via \in {"trigger", "seed"},
           runs' = Append(runs, Row(js, via, {}))
    PROVE  /\ runs' \in Seq(RunRows) /\ AgesInv' /\ ActiveInv' /\ UpstreamFiresOnce'
           /\ DOMAIN runs' = DOMAIN runs \cup {Len(runs) + 1}
           /\ \A q \in DOMAIN runs' : runs'[q].upstream \subseteq DOMAIN runs'
<1>1. runs \in Seq(RunRows)
  BY DEF FiredInv, PassedTypeOK
<1>2. PICK rec \in RunRows : rec = Row(js, via, {}) /\ rec.created = clock /\ rec.via = via /\ rec.upstream = {}
  <2>1. /\ Row(js, via, {}) \in RunRows /\ Row(js, via, {}).created = clock
        /\ Row(js, via, {}).via = via /\ Row(js, via, {}).upstream = {}
    BY DEF Row, RunRows, FiredInv, PassedTypeOK
  <2> QED
    BY <2>1, Zenon
<1>3. runs' = runs \o <<rec>> /\ <<rec>> \in Seq(RunRows) /\ DOMAIN <<rec>> = {1} /\ <<rec>>[1] = rec
  BY <1>1, <1>2
<1>4. DOMAIN runs' = DOMAIN runs \cup {Len(runs) + 1}
  BY <1>1, <1>2
<1>5. PICK new \in Seq(RunRows) : new = <<rec>> /\ DOMAIN new = {1} /\ new[1] = rec /\ runs' = runs \o new
  BY <1>3
<1>6. /\ runs' \in Seq(RunRows) /\ AgesInv' /\ ActiveInv' /\ UpstreamFiresOnce'
      /\ \A q \in DOMAIN runs' : runs'[q].upstream \subseteq DOMAIN runs'
  <2>1. \A i \in DOMAIN new : new[i].created = clock /\ new[i].upstream \subseteq DOMAIN runs /\ new[i].via # "passed"
    BY <1>2, <1>5
  <2> QED
    BY <1>5, <2>1, AddedStep
<1> QED
  BY <1>4, <1>6

\* The rows the scanner adds.
LEMMA ScanStep ==
    ASSUME FiredInv, UNCHANGED clock, NEW S \in SUBSET JobNames, \A j \in S : Evaluates(j), runs' = runs \o Rows(S)
    PROVE  /\ runs' \in Seq(RunRows) /\ AgesInv' /\ ActiveInv' /\ UpstreamFiresOnce'
           /\ DOMAIN runs \subseteq DOMAIN runs' /\ \A q \in DOMAIN runs' : runs'[q].upstream \subseteq DOMAIN runs'
<1>1. IsFiniteSet(S)
  BY FS_Subset, PassedAssumption
<1> DEFINE order == SetToSeq(S)
<1> DEFINE n == Cardinality(S)
<1>2. order \in [1..n -> S] /\ n \in Nat /\ \A a, b \in 1..n : order[a] = order[b] => a = b
  BY <1>1, OrderIsInjective
<1> HIDE DEF n
<1>3. Rows(S) = [i \in 1..n |-> Row({order[i]}, "passed", UpstreamRunIDs(order[i]))]
  <2>1. Rows(S) = [i \in DOMAIN order |-> Row({order[i]}, "passed", UpstreamRunIDs(order[i]))]
    BY DEF Rows
  <2>2. DOMAIN order = 1..n
    BY <1>2
  <2> QED
    BY <2>1, <2>2, Zenon
<1> HIDE DEF order
<1>4. /\ runs \in Seq(RunRows) /\ DOMAIN runs \subseteq Nat
      /\ \A r \in DOMAIN runs : runs[r].created \in Nat
  <2>1. runs \in Seq(RunRows) /\ \A r \in DOMAIN runs : runs[r] \in RunRows
    BY DEF FiredInv, PassedTypeOK
  <2> QED
    BY <2>1 DEF RunRows
<1>5. ASSUME NEW i \in 1..n
      PROVE  /\ Rows(S)[i] \in RunRows /\ Rows(S)[i].jobs = {order[i]} /\ Rows(S)[i].created = clock
             /\ Rows(S)[i].upstream = UpstreamRunIDs(order[i]) /\ UpstreamRunIDs(order[i]) \subseteq DOMAIN runs
  <2>1. order[i] \in S /\ order[i] \in JobNames /\ Evaluates(order[i])
    BY <1>2
  <2>2. UpstreamRunIDs(order[i]) \subseteq DOMAIN runs
    BY <2>1, UpstreamsAreFresh
  <2>3. Rows(S)[i] = Row({order[i]}, "passed", UpstreamRunIDs(order[i]))
    BY <1>3
  <2>4. PICK up \in SUBSET Nat : up = UpstreamRunIDs(order[i])
    BY <1>4, <2>2
  <2>5. {order[i]} \in SUBSET JobNames
    BY <2>1
  <2>6. PICK rec : rec = Row({order[i]}, "passed", up)
    OBVIOUS
  <2>7. rec \in RunRows /\ rec.jobs = {order[i]} /\ rec.created = clock /\ rec.upstream = up
    BY <2>5, <2>6 DEF Row, RunRows, FiredInv, PassedTypeOK
  <2>8. Rows(S)[i] = rec
    BY <2>3, <2>4, <2>6, Zenon
  <2> QED
    BY <2>2, <2>4, <2>7, <2>8
<1>6. PICK new \in Seq(RunRows) : new = Rows(S) /\ DOMAIN new = 1..n /\ runs' = runs \o new
  <2>1. DOMAIN Rows(S) = 1..n /\ Rows(S) \in [1..n -> RunRows]
    BY <1>3, <1>5
  <2>2. Rows(S) \in Seq(RunRows)
    BY <1>2, <2>1
  <2> QED
    BY <2>1, <2>2
<1>7. ASSUME NEW i \in DOMAIN new
      PROVE  /\ new[i].created = clock /\ new[i].upstream \subseteq DOMAIN runs /\ new[i].jobs = {order[i]}
             /\ ~HasActiveRun(order[i])
             /\ \A x \in new[i].upstream, r \in DOMAIN runs :
                   order[i] \in runs[r].jobs => runs[r].created < runs[x].created
  <2>1. order[i] \in S /\ order[i] \in JobNames /\ Evaluates(order[i])
    BY <1>2, <1>6
  <2>2. /\ new[i].jobs = {order[i]} /\ new[i].created = clock /\ new[i].upstream \subseteq DOMAIN runs
        /\ new[i].upstream = UpstreamRunIDs(order[i])
    BY <1>5, <1>6
  <2>3. PICK last : last = LastRunOf(order[i])
    OBVIOUS
  <2>4. ASSUME NEW x \in new[i].upstream, NEW r \in DOMAIN runs, order[i] \in runs[r].jobs
        PROVE  runs[r].created < runs[x].created
    <3>1. runs[x].created > last /\ x \in DOMAIN runs
      BY <2>1, <2>2, <2>3, <2>4, UpstreamsAreFresh
    <3>2. runs[r].created <= last
      BY <2>3, <2>4, LastRunIsLast
    <3>3. last \in Nat
      BY <2>3, LastRunIsLast
    <3> QED
      BY <1>4, <3>1, <3>2, <3>3
  <2>5. ~HasActiveRun(order[i])
    BY <2>1 DEF Evaluates
  <2> QED
    BY <2>2, <2>4, <2>5
<1>8. \A i \in DOMAIN new :
        /\ new[i].created = clock /\ new[i].upstream \subseteq DOMAIN runs
        /\ new[i].via = "passed" => \A j \in new[i].jobs :
             /\ ~HasActiveRun(j)
             /\ \A x \in new[i].upstream, r \in DOMAIN runs :
                   j \in runs[r].jobs => runs[r].created < runs[x].created
             /\ \A k \in DOMAIN new : new[k].via = "passed" /\ j \in new[k].jobs => k = i
  <2> SUFFICES ASSUME NEW i \in DOMAIN new, NEW j \in new[i].jobs
               PROVE  /\ ~HasActiveRun(j)
                      /\ \A x \in new[i].upstream, r \in DOMAIN runs :
                            j \in runs[r].jobs => runs[r].created < runs[x].created
                      /\ \A k \in DOMAIN new : j \in new[k].jobs => k = i
    BY <1>7
  <2>1. j = order[i]
    BY <1>7
  <2>2. \A k \in DOMAIN new : j \in new[k].jobs => k = i
    BY <1>2, <1>6, <1>7, <2>1
  <2> QED
    BY <1>7, <2>1, <2>2
<1> QED
  BY <1>6, <1>8, AddedStep

\* Every step of the scanner, of the triggers and of the server keeps the invariant.
LEMMA PassedStepKeepsFired ==
    ASSUME FiredInv, [PassedNext]_passedVars
    PROVE  FiredInv'
<1>1. /\ PassedTypeOK /\ runs \in Seq(RunRows)
      /\ \A r \in DOMAIN runs : runs[r] \in RunRows /\ runs[r].upstream \subseteq DOMAIN runs
  BY DEF FiredInv, PassedTypeOK
<1>2. ASSUME NEW S \in SUBSET JobNames, Trigger(S)
      PROVE  FiredInv'
  <2>1. /\ runs' \in Seq(RunRows) /\ AgesInv' /\ ActiveInv' /\ UpstreamFiresOnce'
        /\ DOMAIN runs' = DOMAIN runs \cup {Len(runs) + 1}
        /\ \A q \in DOMAIN runs' : runs'[q].upstream \subseteq DOMAIN runs'
    BY <1>2, OtherRowStep DEF Trigger
  <2>2. PassedTypeOK'
    BY <1>1, <1>2, <2>1 DEF PassedTypeOK, Trigger
  <2> QED
    BY <2>1, <2>2 DEF FiredInv
<1>3. ASSUME NEW r \in DOMAIN runs, NEW s \in {"success", "failed"}, FinishRun(r, s)
      PROVE  FiredInv'
  <2>1. /\ runs' \in Seq(RunRows) /\ AgesInv' /\ ActiveInv' /\ UpstreamFiresOnce'
        /\ DOMAIN runs' = DOMAIN runs /\ \A q \in DOMAIN runs' : runs'[q].upstream \subseteq DOMAIN runs'
    BY <1>3, OneStatusStep DEF FinishRun
  <2>2. toScan' \subseteq toScan \cup {r} /\ UNCHANGED <<seeding, clock, crashes, server>>
    BY <1>3 DEF FinishRun
  <2>3. PassedTypeOK'
    BY <1>1, <2>1, <2>2 DEF PassedTypeOK
  <2> QED
    BY <2>1, <2>3 DEF FiredInv
<1>4. ASSUME NEW r \in DOMAIN runs, ScanPassedDownstreams(r)
      PROVE  FiredInv'
  <2> DEFINE due == {j \in Candidates(r) : Evaluates(j)}
  <2>1. UNCHANGED <<seeding, clock, crashes, server>> /\ toScan' \subseteq toScan
    BY <1>4 DEF ScanPassedDownstreams
  <2>2. due \in SUBSET JobNames /\ \A j \in due : Evaluates(j)
    BY DEF Candidates, Downstreams
  <2>3. CASE runs' = runs \o Rows(due)
    <3> HIDE DEF due
    <3>1. /\ runs' \in Seq(RunRows) /\ AgesInv' /\ ActiveInv' /\ UpstreamFiresOnce'
          /\ DOMAIN runs \subseteq DOMAIN runs' /\ \A q \in DOMAIN runs' : runs'[q].upstream \subseteq DOMAIN runs'
      BY <2>1, <2>2, <2>3, ScanStep
    <3>2. PassedTypeOK'
      BY <1>1, <2>1, <3>1 DEF PassedTypeOK
    <3> QED
      BY <3>1, <3>2 DEF FiredInv
  <2>4. CASE UNCHANGED runs
    BY <2>1, <2>4 DEF FiredInv, PassedTypeOK, AgesInv, ActiveInv, UpstreamFiresOnce, PassedRuns, Active, Downstreams
  <2> QED
    BY <1>4, <2>3, <2>4 DEF ScanPassedDownstreams
<1>5. CASE SeedSavesRun
  <2>1. /\ runs' \in Seq(RunRows) /\ AgesInv' /\ ActiveInv' /\ UpstreamFiresOnce'
        /\ DOMAIN runs' = DOMAIN runs \cup {Len(runs) + 1}
        /\ \A q \in DOMAIN runs' : runs'[q].upstream \subseteq DOMAIN runs'
    BY <1>5, OtherRowStep DEF SeedSavesRun
  <2>2. PassedTypeOK'
    BY <1>1, <1>5, <2>1 DEF PassedTypeOK, SeedSavesRun
  <2> QED
    BY <2>1, <2>2 DEF FiredInv
<1>6. ASSUME NEW r \in DOMAIN runs, SeedCompletes(r)
      PROVE  FiredInv'
  <2>1. /\ runs' \in Seq(RunRows) /\ AgesInv' /\ ActiveInv' /\ UpstreamFiresOnce'
        /\ DOMAIN runs' = DOMAIN runs /\ \A q \in DOMAIN runs' : runs'[q].upstream \subseteq DOMAIN runs'
    BY <1>6, OneStatusStep DEF SeedCompletes
  <2>2. seeding' \subseteq seeding /\ UNCHANGED <<toScan, clock, crashes, server>>
    BY <1>6 DEF SeedCompletes
  <2>3. PassedTypeOK'
    BY <1>1, <2>1, <2>2 DEF PassedTypeOK
  <2> QED
    BY <2>1, <2>3 DEF FiredInv
<1>7. ASSUME UNCHANGED runs, PassedTypeOK', clock' >= clock
      PROVE  FiredInv'
  <2>1. clock \in Nat /\ clock' \in Nat /\ \A r \in DOMAIN runs : runs[r].created \in Nat
    BY <1>1, <1>7, PassedAssumption DEF PassedTypeOK, RunRows
  <2>2. AgesInv'
    BY <1>1, <1>7, <2>1 DEF FiredInv, AgesInv
  <2>3. ActiveInv' /\ UpstreamFiresOnce'
    BY <1>7 DEF FiredInv, ActiveInv, UpstreamFiresOnce, PassedRuns, Active, Downstreams
  <2> QED
    BY <1>7, <2>2, <2>3 DEF FiredInv
<1>8. CASE PassedTick
  <2>1. PassedTypeOK' /\ clock' >= clock
    BY <1>1, <1>8, PassedAssumption DEF PassedTypeOK, PassedTick
  <2> QED
    BY <1>7, <1>8, <2>1 DEF PassedTick
<1>9. CASE ServerDies
  <2>1. PassedTypeOK' /\ clock' >= clock
    BY <1>1, <1>9, PassedAssumption DEF PassedTypeOK, ServerDies
  <2> QED
    BY <1>7, <1>9, <2>1 DEF ServerDies
<1>10. CASE Boot
  <2>1. PICK running \in SUBSET DOMAIN runs :
          runs' = [r \in DOMAIN runs |-> IF r \in running THEN [runs[r] EXCEPT !.status = "failed"] ELSE runs[r]]
    BY <1>10 DEF Boot
  <2>2. ASSUME NEW r \in DOMAIN runs
        PROVE  /\ runs'[r] \in RunRows
               /\ runs'[r].jobs = runs[r].jobs /\ runs'[r].created = runs[r].created
               /\ runs'[r].via = runs[r].via /\ runs'[r].upstream = runs[r].upstream
               /\ runs'[r].status = "active" => runs[r].status = "active"
    <3>1. CASE r \in running
      <4>1. PICK rec \in RunRows : rec = runs[r]
        BY <1>1
      <4>2. runs'[r] = [rec EXCEPT !.status = "failed"]
        BY <2>1, <3>1, <4>1, Zenon
      <4>3. /\ [rec EXCEPT !.status = "failed"] \in RunRows /\ [rec EXCEPT !.status = "failed"].status = "failed"
            /\ [rec EXCEPT !.status = "failed"].jobs = rec.jobs
            /\ [rec EXCEPT !.status = "failed"].created = rec.created
            /\ [rec EXCEPT !.status = "failed"].via = rec.via
            /\ [rec EXCEPT !.status = "failed"].upstream = rec.upstream
        BY DEF RunRows
      <4>4. PICK new \in RunRows : /\ new = [rec EXCEPT !.status = "failed"] /\ new.status = "failed"
                                   /\ new.jobs = rec.jobs /\ new.created = rec.created
                                   /\ new.via = rec.via /\ new.upstream = rec.upstream
        BY <4>3, Zenon
      <4>5. runs'[r] = new
        BY <4>2, <4>4, Zenon
      <4> QED
        BY <4>1, <4>4, <4>5
    <3>2. CASE r \notin running
      <4>1. runs'[r] = runs[r]
        BY <2>1, <3>2, Zenon
      <4> QED
        BY <1>1, <4>1
    <3> QED
      BY <3>1, <3>2
  <2>3. runs' \in Seq(RunRows) /\ Len(runs') = Len(runs)
    <3>1. DOMAIN runs' = DOMAIN runs /\ runs' = [r \in DOMAIN runs |-> runs'[r]]
      BY <2>1
    <3>2. DOMAIN runs = 1..Len(runs) /\ Len(runs) \in Nat
      BY <1>1
    <3>3. runs' \in [1..Len(runs) -> RunRows]
      BY <2>2, <3>1, <3>2
    <3> QED
      BY <3>2, <3>3
  <2>4. UNCHANGED <<toScan, seeding, clock, crashes>> /\ server' \in {"up", "panicked"}
    BY <1>10 DEF Boot
  <2>5. /\ AgesInv' /\ ActiveInv' /\ UpstreamFiresOnce'
        /\ DOMAIN runs' = DOMAIN runs /\ \A r \in DOMAIN runs' : runs'[r].upstream \subseteq DOMAIN runs'
    BY <2>2, <2>3, <2>4, StatusStep
  <2>6. PassedTypeOK'
    BY <1>1, <2>3, <2>4, <2>5 DEF PassedTypeOK
  <2> QED
    BY <2>5, <2>6 DEF FiredInv
<1>11. CASE UNCHANGED passedVars
  <2>1. PassedTypeOK' /\ clock' >= clock
    BY <1>1, <1>11, PassedAssumption DEF PassedTypeOK, passedVars
  <2> QED
    BY <1>7, <1>11, <2>1 DEF passedVars
<1>12. (\E j \in JobNames : Trigger({j})) \/ Trigger({}) => FiredInv'
  BY <1>2
<1> QED
  BY <1>3, <1>4, <1>5, <1>6, <1>8, <1>9, <1>10, <1>11, <1>12 DEF PassedNext, Over

\* The invariant of triggers.passed.
THEOREM PassedInvariant == PassedSpec => []FiredInv
<1>1. PassedInit => FiredInv
  BY PassedAssumption DEF PassedInit, FiredInv, PassedTypeOK, AgesInv, ActiveInv, UpstreamFiresOnce, PassedRuns
<1>2. FiredInv /\ [PassedNext]_passedVars => FiredInv'
  BY PassedStepKeepsFired
<1> QED
  BY <1>1, <1>2, PTL DEF PassedSpec

\* The scanner never has two active runs of one downstream job, for any jobs and any triggers.passed among them
\* (evaluatePassedDownstream under scannerMu).
THEOREM OneRunPerDownstream == PassedSpec => []OneActiveDownstream
<1>1. FiredInv => OneActiveDownstream
  <2> SUFFICES ASSUME FiredInv, NEW j \in Downstreams
               PROVE  Cardinality({r \in PassedRuns(j) : Active(r)}) <= 1
    BY DEF OneActiveDownstream
  <2>1. \A r, q \in {x \in PassedRuns(j) : Active(x)} : r = q
    BY DEF FiredInv, ActiveInv
  <2> QED
    BY <2>1, AtMostOne
<1> QED
  BY <1>1, PassedInvariant, PTL

\* A success of an upstream job fires a downstream job at most once (GetSuccessfulJobRunSince after
\* GetMostRecentJobRun).
THEOREM UpstreamsFireOnce == PassedSpec => []UpstreamFiresOnce
<1>1. FiredInv => UpstreamFiresOnce
  BY DEF FiredInv
<1> QED
  BY <1>1, PassedInvariant, PTL

=============================================================================
