----------------------------- MODULE WebSession -----------------------------
(***************************************************************************)
(* The session of the browser console.  Every tab runs a controller of its *)
(* own; the tabs share the logout marker in the browser's storage, and are *)
(* told of each other's writes to it by storage events, some time later.   *)
(*                                                                         *)
(* A tab is a chain of asynchronous calls: "flow" is what it waits for.    *)
(* Whatever signs it out, or signs it in anew, counts its generation up,   *)
(* and an answer to a call of an older generation is thrown away.  Here    *)
(* the tab forgets such a call at once, except that a refresh or a logout  *)
(* stays "pending", since a later sign-in waits for it.  The API is        *)
(* external: it answers or fails as it likes (SessionFamilies is its side).*)
(***************************************************************************)
EXTENDS Integers, FiniteSets

CONSTANTS
    Tabs,
    MaxLogouts,   \* bound on logouts
    MaxReloads    \* bound on pages opened anew

ASSUME WebAssumption == MaxLogouts \in Nat /\ MaxReloads \in Nat

VARIABLES
    marker,     \* the stored marker: the number of a logout; 0: none
    logouts,    \* how many logouts there were (a marker is a fresh value)
    reloads,    \* how many pages were opened anew
    status,     \* what the tab shows
    token,      \* whether the tab's client has an access token
    flow,       \* what the tab waits for; "mount": the page is being loaded
    captured,   \* the marker a sign-in found when it began
    tries,      \* calls of the hydration that may still refresh and retry
    pending,    \* unanswered calls of an older generation
    news,       \* storage events on their way to the tab
    began       \* history: the logouts there were when its session began

vars == <<marker, logouts, reloads, status, token, flow, captured, tries,
          pending, news, began>>

AwaitsRefresh == {"restore", "renew", "rehydrate"}
Flows == AwaitsRefresh \cup {"mount", "none", "hydrate", "wait", "login"}
Calls == {"refresh", "logout"}

HydrationCalls == 2     \* /auth/me and /organizations

TabsTypeOK ==
    /\ marker \in 0..MaxLogouts /\ logouts \in 0..MaxLogouts /\ reloads \in 0..MaxReloads
    /\ status \in [Tabs -> {"loading", "authenticated", "signed_out"}]
    /\ token \in [Tabs -> BOOLEAN] /\ flow \in [Tabs -> Flows]
    /\ captured \in [Tabs -> 0..MaxLogouts] /\ tries \in [Tabs -> 0..HydrationCalls]
    /\ pending \in [Tabs -> SUBSET Calls] /\ news \in [Tabs -> SUBSET (1..MaxLogouts)]
    /\ began \in [Tabs -> 0..MaxLogouts]

Init ==
    /\ marker = 0 /\ logouts = 0 /\ reloads = 0
    /\ status = [t \in Tabs |-> "loading"]
    /\ token = [t \in Tabs |-> FALSE]
    /\ flow = [t \in Tabs |-> "mount"]
    /\ captured = [t \in Tabs |-> 0]
    /\ tries = [t \in Tabs |-> 0]
    /\ pending = [t \in Tabs |-> {}]
    /\ news = [t \in Tabs |-> {}]
    /\ began = [t \in Tabs |-> 0]

-----------------------------------------------------------------------------
(* The refresh a tab waits for outlives the generation that sent it.       *)
Outstanding(t) == pending[t] \cup (IF flow[t] \in AwaitsRefresh THEN {"refresh"} ELSE {})

ClearLocalSession(t, outstanding) ==
    /\ status' = [status EXCEPT ![t] = "signed_out"]
    /\ token' = [token EXCEPT ![t] = FALSE]
    /\ flow' = [flow EXCEPT ![t] = "none"]
    /\ pending' = [pending EXCEPT ![t] = outstanding]

Hydrate(t) ==
    /\ token' = [token EXCEPT ![t] = TRUE]
    /\ flow' = [flow EXCEPT ![t] = "hydrate"]
    /\ tries' = [tries EXCEPT ![t] = HydrationCalls]

(* restore(), when the page is shown: no refresh after a logout.           *)
Restore(t) ==
    /\ flow[t] = "mount"
    /\ IF marker # 0
       THEN ClearLocalSession(t, {}) /\ UNCHANGED began
       ELSE /\ flow' = [flow EXCEPT ![t] = "restore"]
            /\ began' = [began EXCEPT ![t] = logouts]
            /\ UNCHANGED <<status, token, pending>>
    /\ UNCHANGED <<marker, logouts, reloads, captured, tries, news>>

(* The answer to restore's refresh.  If another tab has logged out, it is  *)
(* dropped, and the tab stays as it is until the event tells it.           *)
RestoreAnswer(t) ==
    /\ flow[t] = "restore"
    /\ \/ marker = 0 /\ Hydrate(t) /\ UNCHANGED <<status, pending>>
       \/ /\ marker # 0
          /\ flow' = [flow EXCEPT ![t] = "none"]
          /\ UNCHANGED <<status, token, tries, pending>>
       \/ ClearLocalSession(t, pending[t]) /\ UNCHANGED tries
    /\ UNCHANGED <<marker, logouts, reloads, captured, news, began>>

HydrateAnswer(t) ==
    /\ flow[t] = "hydrate"
    /\ status' = [status EXCEPT ![t] = "authenticated"]
    /\ flow' = [flow EXCEPT ![t] = "none"]
    /\ UNCHANGED <<marker, logouts, reloads, token, captured, tries, pending, news, began>>

HydrateFails(t) ==
    /\ flow[t] \in {"hydrate", "rehydrate"}
    /\ ClearLocalSession(t, Outstanding(t))
    /\ UNCHANGED <<marker, logouts, reloads, captured, tries, news, began>>

-----------------------------------------------------------------------------
(* An answer 401: refresh once, unless a logout is in force.               *)
Unauthorized(t) ==
    /\ token[t] /\ flow[t] \in {"none", "hydrate"}
    /\ flow[t] = "hydrate" => tries[t] > 0
    /\ IF marker # 0
       THEN ClearLocalSession(t, pending[t]) /\ UNCHANGED tries
       ELSE /\ flow' = [flow EXCEPT ![t] = IF @ = "hydrate" THEN "rehydrate" ELSE "renew"]
            /\ tries' = [tries EXCEPT ![t] = IF flow[t] = "hydrate" THEN @ - 1 ELSE @]
            /\ UNCHANGED <<status, token, pending>>
    /\ UNCHANGED <<marker, logouts, reloads, captured, news, began>>

(* Faulty: the marker is not looked at again.                              *)
RenewAnswerBelieved(t) ==
    /\ flow[t] \in {"renew", "rehydrate"}
    /\ \/ /\ flow' = [flow EXCEPT ![t] = IF @ = "rehydrate" THEN "hydrate" ELSE "none"]
          /\ UNCHANGED <<status, token, pending>>
       \/ ClearLocalSession(t, pending[t])
    /\ UNCHANGED <<marker, logouts, reloads, captured, tries, news, began>>

(* The answer to that refresh.  A failure expires the session.             *)
RenewAnswer(t) ==
    /\ flow[t] \in {"renew", "rehydrate"}
    /\ \/ /\ marker = 0
          /\ flow' = [flow EXCEPT ![t] = IF @ = "rehydrate" THEN "hydrate" ELSE "none"]
          /\ UNCHANGED <<status, token, pending>>
       \/ ClearLocalSession(t, pending[t])
    /\ UNCHANGED <<marker, logouts, reloads, captured, tries, news, began>>

-----------------------------------------------------------------------------
(* signIn, login or registration alike.                                    *)
SignIn(t) ==
    /\ status[t] = "signed_out"
    /\ token' = [token EXCEPT ![t] = FALSE]
    /\ flow' = [flow EXCEPT ![t] = "wait"]
    /\ captured' = [captured EXCEPT ![t] = marker]
    /\ pending' = [pending EXCEPT ![t] = Outstanding(t)]
    /\ began' = [began EXCEPT ![t] = logouts]
    /\ UNCHANGED <<marker, logouts, reloads, status, tries, news>>

(* Faulty: the credentials are sent without waiting.                       *)
GoAheadAtOnce(t) ==
    /\ flow[t] = "wait"
    /\ flow' = [flow EXCEPT ![t] = IF captured[t] = marker THEN "login" ELSE "none"]
    /\ UNCHANGED <<marker, logouts, reloads, status, token, captured, tries, pending, news, began>>

(* It waits for the tab's own earlier logout and refreshes to settle.      *)
GoAhead(t) ==
    /\ flow[t] = "wait"
    /\ pending[t] = {}
    /\ flow' = [flow EXCEPT ![t] = IF captured[t] = marker THEN "login" ELSE "none"]
    /\ UNCHANGED <<marker, logouts, reloads, status, token, captured, tries, pending, news, began>>

LoginAnswer(t) ==
    /\ flow[t] = "login"
    /\ \/ captured[t] = marker /\ marker' = 0 /\ Hydrate(t)
       \/ flow' = [flow EXCEPT ![t] = "none"] /\ UNCHANGED <<marker, token, tries>>
    /\ UNCHANGED <<logouts, reloads, status, captured, pending, news, began>>

(* signOut: pages that are shown get an event.                             *)
SignOut(t) ==
    /\ status[t] = "authenticated"
    /\ logouts < MaxLogouts
    /\ logouts' = logouts + 1
    /\ marker' = logouts + 1
    /\ ClearLocalSession(t, Outstanding(t) \cup {"logout"})
    /\ news' = [u \in Tabs |->
          IF u # t /\ flow[u] # "mount" THEN news[u] \cup {logouts + 1} ELSE news[u]]
    /\ UNCHANGED <<reloads, captured, tries, began>>

(* Faulty: an event is ignored if the marker has gone since.               *)
OnStorageLooksAgain(t) ==
    \E m \in news[t] :
        /\ IF marker # 0
           THEN ClearLocalSession(t, Outstanding(t))
           ELSE UNCHANGED <<status, token, flow, pending>>
        /\ news' = [news EXCEPT ![t] = @ \ {m}]
        /\ UNCHANGED <<marker, logouts, reloads, captured, tries, began>>

(* onStorage: another tab's logout.  That the marker is cleared is no news.*)
OnStorage(t) ==
    \E m \in news[t] :
        /\ ClearLocalSession(t, Outstanding(t))
        /\ news' = [news EXCEPT ![t] = @ \ {m}]
        /\ UNCHANGED <<marker, logouts, reloads, captured, tries, began>>

Settle(t) ==
    \E c \in pending[t] :
        /\ pending' = [pending EXCEPT ![t] = @ \ {c}]
        /\ UNCHANGED <<marker, logouts, reloads, status, token, flow, captured, tries, news, began>>

(* A page opened anew keeps nothing but what is stored.                    *)
Reload(t) ==
    /\ reloads < MaxReloads
    /\ reloads' = reloads + 1
    /\ status' = [status EXCEPT ![t] = "loading"]
    /\ token' = [token EXCEPT ![t] = FALSE]
    /\ flow' = [flow EXCEPT ![t] = "mount"]
    /\ pending' = [pending EXCEPT ![t] = {}]
    /\ news' = [news EXCEPT ![t] = {}]
    /\ UNCHANGED <<marker, logouts, captured, tries, began>>

Answer(t) == Restore(t) \/ RestoreAnswer(t) \/ HydrateAnswer(t) \/ HydrateFails(t) \/ RenewAnswer(t)

Next == \E t \in Tabs :
    \/ Answer(t) \/ Unauthorized(t)
    \/ SignIn(t) \/ GoAhead(t) \/ LoginAnswer(t)
    \/ SignOut(t) \/ OnStorage(t) \/ Settle(t) \/ Reload(t)

Spec == Init /\ [][Next]_vars

(* A call is answered or fails: refreshes give up after 15 seconds, other  *)
(* calls when the browser does.  Storage events are delivered.             *)
FairSpec == Spec /\ \A t \in Tabs : WF_vars(Answer(t)) /\ WF_vars(OnStorage(t))
-----------------------------------------------------------------------------
(* A session that began before a logout, in whatever tab, does not survive *)
(* it: its tab has no token any more, or is about to be told.  Logins that *)
(* clear the marker in between do not change that.                         *)
SignedOutEverywhere ==
    \A t \in Tabs : token[t] => began[t] = logouts \/ news[t] # {}

(* Late answers do not undo a logout: none gives a tab a token, or lets it *)
(* keep one, while the marker is there.                                    *)
LateAnswersDoNotRestore ==
    [][\A t \in Tabs :
        flow[t] \in AwaitsRefresh \cup {"login"} /\ flow'[t] # flow[t] /\ token'[t]
            => marker' = 0]_vars

(* "An older response must not overwrite the new login's cookie"           *)
(* (session-controller.ts:98): when a tab sends credentials, and while it  *)
(* has a session, no older call of its own is still to be answered.        *)
AnswersInOrder ==
    \A t \in Tabs : token[t] \/ flow[t] = "login" => pending[t] = {}

(* No page shows "Restoring your session" for ever, although an answer     *)
(* that comes during another tab's logout is dropped without a word.       *)
LoadingEnds == \A t \in Tabs : status[t] = "loading" ~> status[t] # "loading"
=============================================================================
