-------------------------- MODULE WebSessionProofs --------------------------
(***************************************************************************)
(* Theorems about the console's sessions, for any number of tabs, logouts  *)
(* and reloads.                                                            *)
(***************************************************************************)
EXTENDS WebSession, TLAPS

(* Whatever a tab waits for, it began after the last logout or will be     *)
(* told of it; a page that is being loaded has nothing to lose.            *)
NoneOutlivesLogout ==
    \A t \in Tabs :
        /\ flow[t] = "mount" => ~token[t]
        /\ token[t] \/ flow[t] \notin {"none", "mount"}
               => began[t] = logouts \/ news[t] # {}

(* Older calls are left over only where a tab is signed out, or waits for  *)
(* them before it signs in.                                                *)
OlderCallsSettle ==
    \A t \in Tabs : token[t] \/ flow[t] \notin {"none", "wait"} => pending[t] = {}

(* A tab that waits to become signed in has no token yet.                  *)
TokenIsLast == \A t \in Tabs : flow[t] \in {"restore", "wait", "login"} => ~token[t]

WebInv == TabsTypeOK /\ NoneOutlivesLogout /\ OlderCallsSettle /\ TokenIsLast

LEMMA InitEstablishes ==
    Init => WebInv
<1> SUFFICES ASSUME Init PROVE WebInv
  OBVIOUS
<1> USE WebAssumption
<1>1. TabsTypeOK
  BY DEF Init, TabsTypeOK, Flows, HydrationCalls
<1> QED
  BY <1>1 DEF Init, WebInv, NoneOutlivesLogout, OlderCallsSettle, TokenIsLast

LEMMA NextKeepsTypes ==
    ASSUME TabsTypeOK, [Next]_vars
    PROVE  TabsTypeOK'
<1> USE WebAssumption DEF TabsTypeOK, Flows, AwaitsRefresh, Calls, HydrationCalls
<1>1. ASSUME NEW t \in Tabs PROVE Outstanding(t) \in SUBSET Calls /\ pending[t] \in SUBSET Calls
  BY DEF Outstanding
<1>2. ASSUME NEW t \in Tabs, Restore(t) PROVE TabsTypeOK'
  <2>1. CASE marker # 0
    BY <1>2, <2>1 DEF Restore, ClearLocalSession
  <2>2. CASE marker = 0
    BY <1>2, <2>2 DEF Restore
  <2> QED
    BY <2>1, <2>2
<1>3. ASSUME NEW t \in Tabs, RestoreAnswer(t) PROVE TabsTypeOK'
  <2>1. CASE Hydrate(t)
    BY <1>3, <2>1 DEF RestoreAnswer, Hydrate, ClearLocalSession
  <2>2. CASE ClearLocalSession(t, pending[t])
    BY <1>1, <1>3, <2>2 DEF RestoreAnswer, Hydrate, ClearLocalSession
  <2>3. CASE UNCHANGED <<status, token, tries, pending>> /\ flow' = [flow EXCEPT ![t] = "none"]
    BY <1>3, <2>3 DEF RestoreAnswer
  <2> QED
    BY <1>3, <2>1, <2>2, <2>3 DEF RestoreAnswer
<1>4. ASSUME NEW t \in Tabs, HydrateAnswer(t) \/ GoAhead(t) PROVE TabsTypeOK'
  BY <1>4 DEF HydrateAnswer, GoAhead
<1>5. ASSUME NEW t \in Tabs, HydrateFails(t) PROVE TabsTypeOK'
  BY <1>1, <1>5 DEF HydrateFails, ClearLocalSession
<1>6. ASSUME NEW t \in Tabs, RenewAnswer(t) PROVE TabsTypeOK'
  BY <1>1, <1>6 DEF RenewAnswer, ClearLocalSession
<1>7. ASSUME NEW t \in Tabs, Unauthorized(t) PROVE TabsTypeOK'
  <2>1. CASE marker # 0
    BY <1>1, <1>7, <2>1 DEF Unauthorized, ClearLocalSession
  <2>2. CASE marker = 0
    <3>1. tries' \in [Tabs -> 0..HydrationCalls]
      BY <1>7, <2>2 DEF Unauthorized
    <3>2. flow' \in [Tabs -> Flows]
      BY <1>7, <2>2 DEF Unauthorized
    <3> QED
      BY <1>7, <2>2, <3>1, <3>2 DEF Unauthorized
  <2> QED
    BY <2>1, <2>2
<1>8. ASSUME NEW t \in Tabs, SignIn(t) PROVE TabsTypeOK'
  BY <1>1, <1>8 DEF SignIn
<1>9. ASSUME NEW t \in Tabs, LoginAnswer(t) PROVE TabsTypeOK'
  <2>1. CASE marker' = 0 /\ Hydrate(t)
    BY <1>9, <2>1 DEF LoginAnswer, Hydrate
  <2>2. CASE flow' = [flow EXCEPT ![t] = "none"] /\ UNCHANGED <<marker, token, tries>>
    BY <1>9, <2>2 DEF LoginAnswer
  <2> QED
    BY <1>9, <2>1, <2>2 DEF LoginAnswer
<1>10. ASSUME NEW t \in Tabs, SignOut(t) PROVE TabsTypeOK'
  <2>1. logouts + 1 \in 1..MaxLogouts /\ logouts + 1 \in 0..MaxLogouts
    BY <1>10 DEF SignOut
  <2>2. Outstanding(t) \cup {"logout"} \in SUBSET Calls
    BY <1>1
  <2>3. news' \in [Tabs -> SUBSET (1..MaxLogouts)]
    BY <1>10, <2>1 DEF SignOut
  <2> QED
    BY <1>10, <2>1, <2>2, <2>3 DEF SignOut, ClearLocalSession
<1>11. ASSUME NEW t \in Tabs, OnStorage(t) PROVE TabsTypeOK'
  BY <1>1, <1>11 DEF OnStorage, ClearLocalSession
<1>12. ASSUME NEW t \in Tabs, Settle(t) PROVE TabsTypeOK'
  BY <1>12 DEF Settle
<1>13. ASSUME NEW t \in Tabs, Reload(t) PROVE TabsTypeOK'
  BY <1>13 DEF Reload
<1>14. CASE UNCHANGED vars
  BY <1>14 DEF vars
<1> QED
  BY <1>2, <1>3, <1>4, <1>5, <1>6, <1>7, <1>8, <1>9, <1>10, <1>11, <1>12, <1>13, <1>14
     DEF Next, Answer

LEMMA NextKeepsOrder ==
    ASSUME WebInv, [Next]_vars
    PROVE  (NoneOutlivesLogout /\ OlderCallsSettle /\ TokenIsLast)'
<1> USE DEF WebInv, TabsTypeOK, NoneOutlivesLogout, OlderCallsSettle, TokenIsLast
<1> DEFINE Order == NoneOutlivesLogout /\ OlderCallsSettle /\ TokenIsLast
<1>1. ASSUME NEW t \in Tabs, Restore(t) PROVE Order'
  BY <1>1 DEF Restore, ClearLocalSession
<1>2. ASSUME NEW t \in Tabs, RestoreAnswer(t) PROVE Order'
  BY <1>2 DEF RestoreAnswer, ClearLocalSession, Hydrate
<1>3. ASSUME NEW t \in Tabs, HydrateAnswer(t) \/ HydrateFails(t) PROVE Order'
  BY <1>3 DEF HydrateAnswer, HydrateFails, ClearLocalSession
<1>4. ASSUME NEW t \in Tabs, RenewAnswer(t) PROVE Order'
  BY <1>4 DEF RenewAnswer, ClearLocalSession
<1>5. ASSUME NEW t \in Tabs, Unauthorized(t) PROVE Order'
  BY <1>5 DEF Unauthorized, ClearLocalSession
<1>6. ASSUME NEW t \in Tabs, SignIn(t) PROVE Order'
  BY <1>6 DEF SignIn
<1>7. ASSUME NEW t \in Tabs, GoAhead(t) PROVE Order'
  BY <1>7 DEF GoAhead
<1>8. ASSUME NEW t \in Tabs, LoginAnswer(t) PROVE Order'
  BY <1>8 DEF LoginAnswer, Hydrate
<1>9. ASSUME NEW t \in Tabs, SignOut(t) PROVE Order'
  <2>1. ASSUME NEW u \in Tabs, u # t, flow[u] # "mount" PROVE news'[u] # {}
    BY <1>9, <2>1 DEF SignOut
  <2>2. ASSUME NEW u \in Tabs, u # t
        PROVE  token'[u] = token[u] /\ flow'[u] = flow[u] /\ pending'[u] = pending[u]
    BY <1>9, <2>2 DEF SignOut, ClearLocalSession
  <2>3. ~token'[t] /\ flow'[t] = "none"
    BY <1>9 DEF SignOut, ClearLocalSession
  <2> QED
    BY <2>1, <2>2, <2>3
<1>10. ASSUME NEW t \in Tabs, OnStorage(t) PROVE Order'
  BY <1>10 DEF OnStorage, ClearLocalSession
<1>11. ASSUME NEW t \in Tabs, Settle(t) PROVE Order'
  BY <1>11 DEF Settle
<1>12. ASSUME NEW t \in Tabs, Reload(t) PROVE Order'
  BY <1>12 DEF Reload
<1>13. CASE UNCHANGED vars
  BY <1>13 DEF vars
<1> QED
  BY <1>1, <1>2, <1>3, <1>4, <1>5, <1>6, <1>7, <1>8, <1>9, <1>10, <1>11, <1>12, <1>13
     DEF Next, Answer

LEMMA NextKeepsInv ==
    WebInv /\ [Next]_vars => WebInv'
BY NextKeepsTypes, NextKeepsOrder DEF WebInv

(* Every tab's state keeps its types, for any bounds.                      *)
THEOREM TabsTyping ==
    Spec => []TabsTypeOK
<1>1. WebInv => TabsTypeOK
  BY DEF WebInv
<1> QED
  BY <1>1, InitEstablishes, NextKeepsInv, PTL DEF Spec

(* No session outlives a logout in any tab that has heard of it.           *)
THEOREM LogoutReachesEveryTab ==
    Spec => []SignedOutEverywhere
<1>1. WebInv => SignedOutEverywhere
  BY DEF WebInv, NoneOutlivesLogout, SignedOutEverywhere, TabsTypeOK
<1> QED
  BY <1>1, InitEstablishes, NextKeepsInv, PTL DEF Spec

(* A tab never has a session, or credentials under way, while an older     *)
(* call of its own may still be answered.                                  *)
THEOREM OwnAnswersComeFirst ==
    Spec => []AnswersInOrder
<1>1. WebInv => AnswersInOrder
  BY DEF WebInv, OlderCallsSettle, AnswersInOrder
<1> QED
  BY <1>1, InitEstablishes, NextKeepsInv, PTL DEF Spec

(* No late answer signs a tab in, or keeps it signed in, after a logout.   *)
THEOREM NoLateRestore ==
    Spec => LateAnswersDoNotRestore
<1>1. WebInv /\ [Next]_vars
      => [\A t \in Tabs :
            flow[t] \in AwaitsRefresh \cup {"login"} /\ flow'[t] # flow[t] /\ token'[t]
                => marker' = 0]_vars
  <2> SUFFICES ASSUME WebInv, Next, NEW t \in Tabs,
                      flow[t] \in AwaitsRefresh \cup {"login"}, flow'[t] # flow[t], token'[t]
               PROVE  marker' = 0
    OBVIOUS
  <2> USE DEF WebInv, TabsTypeOK, TokenIsLast, AwaitsRefresh
  <2>1. ASSUME NEW s \in Tabs, Restore(s) \/ HydrateAnswer(s) \/ HydrateFails(s) PROVE marker' = 0
    BY <2>1 DEF Restore, HydrateAnswer, HydrateFails, ClearLocalSession
  <2>2. ASSUME NEW s \in Tabs, RestoreAnswer(s) PROVE marker' = 0
    BY <2>2 DEF RestoreAnswer, ClearLocalSession, Hydrate
  <2>3. ASSUME NEW s \in Tabs, RenewAnswer(s) \/ Unauthorized(s) PROVE marker' = 0
    BY <2>3 DEF RenewAnswer, Unauthorized, ClearLocalSession
  <2>4. ASSUME NEW s \in Tabs, SignIn(s) \/ GoAhead(s) PROVE marker' = 0
    BY <2>4 DEF SignIn, GoAhead
  <2>5. ASSUME NEW s \in Tabs, LoginAnswer(s) PROVE marker' = 0
    BY <2>5 DEF LoginAnswer, Hydrate
  <2>6. ASSUME NEW s \in Tabs, SignOut(s) \/ OnStorage(s) PROVE marker' = 0
    BY <2>6 DEF SignOut, OnStorage, ClearLocalSession
  <2>7. ASSUME NEW s \in Tabs, Settle(s) \/ Reload(s) PROVE marker' = 0
    BY <2>7 DEF Settle, Reload
  <2> QED
    BY <2>1, <2>2, <2>3, <2>4, <2>5, <2>6, <2>7 DEF Next, Answer
<1>2. Spec => []WebInv
  BY InitEstablishes, NextKeepsInv, PTL DEF Spec
<1> QED
  BY <1>1, <1>2, PTL DEF Spec, LateAnswersDoNotRestore
=============================================================================
