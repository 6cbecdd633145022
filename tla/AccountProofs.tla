--------------------------- MODULE AccountProofs ---------------------------
(***************************************************************************)
(* What stands between a person and the data of an organization.           *)
(*                                                                         *)
(* Refresh sessions, for any number of logins, requests and sessions and   *)
(* any lifetime.  ReuseContained is not inductive: Answers adds what a     *)
(* served request leaves behind.  Its session has been issued and is not   *)
(* live; as a new session has a larger number than all before it, it never *)
(* is again, and no second request can be served with it.                  *)
(*                                                                         *)
(* Every organization keeps an owner, for any number of organizations,     *)
(* users and overlapping requests.  What makes it so is the lock of the    *)
(* organization's row: what a transaction has read under it is still true  *)
(* when it writes.                                                         *)
(*                                                                         *)
(* A bucket that is dropped was full: for any sizes and periods of the     *)
(* stores, any number of requests, and refunds at any time.  A bucket is   *)
(* kept until it would be full again, and that stays so while it is        *)
(* refilled, spent from, refused and refunded.                             *)
(*                                                                         *)
(* What a bucket lacks, those who hold its tickets have spent; and what    *)
(* was spent since any time, together with what is left, is no more than a *)
(* full bucket and its refill.  To an account a step spends a token, ends  *)
(* an attempt with its ticket, ticks, or does nothing.                     *)
(***************************************************************************)
EXTENDS MCAccounts, FiniteSetTheorems, TLAPS

-----------------------------------------------------------------------------
(* Sessions.                                                               *)

NoneBeforeLogin == \A f \in Families : family[f] = "none" => issued[f] = 0

Answers ==
    /\ \A r \in Requests : request[r].at = "rotated" =>
          /\ Exists(request[r].session)
          /\ request[r].session \notin live
    /\ \A r \in Requests :
          request[r].at = "refused" => family[request[r].session[1]] = "revoked"
    /\ \A q, r \in Requests :
          /\ q # r
          /\ request[q].at = "rotated" /\ request[r].at = "rotated"
          => request[q].session # request[r].session

(* A step of one request keeps the type of all of them.                    *)
LEMMA RequestType ==
    ASSUME SessionTypeOK, NEW r \in Requests,
           request[r].at \in {"rotate", "contain"},
           NEW a \in {"rotated", "contain", "refused", "lost"}
    PROVE  /\ request[r] \in Asked
           /\ request[r].session \in Sessions
           /\ request[r].since \in 0..MaxTime
           /\ [request EXCEPT ![r].at = a] \in [Requests -> {New} \cup Asked]
           /\ [request EXCEPT ![r].at = a][r].session = request[r].session
           /\ [request EXCEPT ![r].at = a][r].at = a
           /\ \A q \in Requests : q # r => [request EXCEPT ![r].at = a][q] = request[q]
<1>1. request[r] \in Asked
  BY DEF SessionTypeOK, New
<1>2. [request[r] EXCEPT !.at = a] \in Asked
  BY <1>1 DEF Asked
<1> QED
  BY <1>1, <1>2 DEF SessionTypeOK, Asked

(* Every step of every request keeps the tables well formed.               *)
THEOREM SessionTyping == Spec => []SessionTypeOK
<1>1. Init => SessionTypeOK
  BY SessionAssumption DEF Init, SessionTypeOK, New
<1>2. SessionTypeOK /\ [Next]_vars => SessionTypeOK'
  <2> SUFFICES ASSUME SessionTypeOK, [Next]_vars
               PROVE  SessionTypeOK'
    OBVIOUS
  <2> USE SessionAssumption
  <2>1. ASSUME NEW f \in Families, Login(f)
        PROVE  SessionTypeOK'
    <3>1. <<f, 1>> \in Sessions /\ now + RefreshTTL \in 0..(MaxTime + RefreshTTL)
      BY DEF SessionTypeOK, Sessions
    <3> QED
      BY <2>1, <3>1 DEF Login, SessionTypeOK
  <2>2. ASSUME NEW r \in Requests, NEW s \in Sessions, Lookup(r, s)
        PROVE  SessionTypeOK'
    BY <2>2 DEF Lookup, SessionTypeOK, Asked
  <2>3. ASSUME NEW r \in Requests, Rotate(r)
        PROVE  SessionTypeOK'
    <3>1. request[r].session \in Sessions /\ request[r].since \in 0..MaxTime
      BY <2>3, RequestType DEF Rotate
    <3>2. request' \in [Requests -> {New} \cup Asked]
      <4>1. PICK a \in {"rotated", "contain"} : request' = [request EXCEPT ![r].at = a]
        BY <2>3 DEF Rotate
      <4> QED
        BY <2>3, <4>1, RequestType DEF Rotate
    <3>3. CASE UNCHANGED <<issued, live, expires>>
      BY <2>3, <3>2, <3>3 DEF Rotate, SessionTypeOK
    <3>4. CASE issued[request[r].session[1]] < MaxSessions
               /\ ~UNCHANGED <<issued, live, expires>>
      <4> DEFINE f    == request[r].session[1]
                 next == <<f, issued[f] + 1>>
      <4>1. f \in Families /\ issued[f] \in 0..MaxSessions
        BY <3>1 DEF Sessions, SessionTypeOK
      <4>2. next \in Sessions /\ issued[f] + 1 \in 0..MaxSessions
        BY <4>1, <3>4 DEF Sessions
      <4>3. PICK t \in request[r].since..now :
                   expires' = [expires EXCEPT ![next] = t + RefreshTTL]
        BY <2>3, <3>4 DEF Rotate
      <4>4. t + RefreshTTL \in 0..(MaxTime + RefreshTTL)
        BY <3>1, <4>3 DEF SessionTypeOK
      <4>5. expires' \in [Sessions -> 0..(MaxTime + RefreshTTL)]
        BY <4>2, <4>3, <4>4 DEF SessionTypeOK
      <4>6. issued' \in [Families -> 0..MaxSessions] /\ live' \subseteq Sessions
        BY <2>3, <3>4, <4>1, <4>2 DEF Rotate, SessionTypeOK
      <4> QED
        BY <2>3, <3>2, <4>5, <4>6 DEF Rotate, SessionTypeOK
    <3> QED
      BY <2>3, <3>3, <3>4 DEF Rotate
  <2>4. ASSUME NEW r \in Requests, Contain(r)
        PROVE  SessionTypeOK'
    <3>1. request' \in [Requests -> {New} \cup Asked]
      BY <2>4, RequestType DEF Contain
    <3> QED
      BY <2>4, <3>1 DEF Contain, RevokeSession, SessionTypeOK
  <2>5. ASSUME NEW r \in Requests, Lose(r)
        PROVE  SessionTypeOK'
    <3>1. request' \in [Requests -> {New} \cup Asked]
      BY <2>5, RequestType DEF Lose
    <3> QED
      BY <2>5, <3>1 DEF Lose, SessionTypeOK
  <2>6. ASSUME NEW s \in Sessions, Logout(s)
        PROVE  SessionTypeOK'
    BY <2>6 DEF Logout, RevokeSession, SessionTypeOK
  <2>7. CASE Tick
    BY <2>7 DEF Tick, SessionTypeOK
  <2>8. CASE UNCHANGED vars
    BY <2>8 DEF vars, SessionTypeOK
  <2> QED
    BY <2>1, <2>2, <2>3, <2>4, <2>5, <2>6, <2>7, <2>8 DEF Next
<1> QED
  BY <1>1, <1>2, PTL DEF Spec

(* What a rotation that goes through did.                                  *)
LEMMA RotateServes ==
    ASSUME SessionTypeOK, OnlyNewestLive, NEW r \in Requests, Rotate(r)
    PROVE  LET s == request[r].session
           IN  /\ s \in Sessions
               /\ UNCHANGED family
               /\ \/ /\ s \in live /\ family[s[1]] = "live" /\ s = Newest(s[1])
                     /\ issued' = [issued EXCEPT ![s[1]] = @ + 1]
                     /\ live' = (live \ {s}) \cup {<<s[1], issued[s[1]] + 1>>}
                     /\ request' = [request EXCEPT ![r].at = "rotated"]
                  \/ /\ request' = [request EXCEPT ![r].at = "contain"]
                     /\ UNCHANGED <<issued, live>>
<1>1. request[r].session \in Sessions
  BY RequestType DEF Rotate
<1> QED
  BY <1>1 DEF Rotate, OnlyNewestLive

(* One step of a family's sessions.                                        *)
LEMMA NewestStep == SessionTypeOK /\ OnlyNewestLive /\ [Next]_vars => OnlyNewestLive'
<1> SUFFICES ASSUME SessionTypeOK, OnlyNewestLive, [Next]_vars
             PROVE  OnlyNewestLive'
  OBVIOUS
<1>1. \A s \in live : s[1] \in Families /\ s = <<s[1], s[2]>>
  BY DEF SessionTypeOK, Sessions
<1>2. ASSUME NEW f \in Families, Login(f)
      PROVE  OnlyNewestLive'
  <2>1. \A s \in live : s[1] # f
    BY <1>2 DEF Login, OnlyNewestLive
  <2> QED
    BY <1>1, <1>2, <2>1 DEF Login, OnlyNewestLive, Newest, SessionTypeOK
<1>3. ASSUME NEW r \in Requests, NEW s \in Sessions, Lookup(r, s)
      PROVE  OnlyNewestLive'
  BY <1>3 DEF Lookup, OnlyNewestLive, Newest
<1>4. ASSUME NEW r \in Requests, Rotate(r)
      PROVE  OnlyNewestLive'
  <2>1. PICK s \in Sessions : s = request[r].session
    BY <1>4, RotateServes
  <2>2. s[1] \in Families
    BY DEF Sessions
  <2>3. CASE /\ s \in live /\ family[s[1]] = "live" /\ s = Newest(s[1])
             /\ issued' = [issued EXCEPT ![s[1]] = @ + 1]
             /\ live' = (live \ {s}) \cup {<<s[1], issued[s[1]] + 1>>}
             /\ UNCHANGED family
    <3>1. \A t \in live \ {s} : t[1] # s[1]
      BY <2>3 DEF OnlyNewestLive
    <3>2. \A t \in live \ {s} : (t = Newest(t[1]) /\ family[t[1]] = "live")'
      BY <1>1, <2>3, <3>1 DEF OnlyNewestLive, Newest, SessionTypeOK
    <3>3. <<s[1], issued[s[1]] + 1>> = Newest(s[1])'
      BY <2>2, <2>3 DEF Newest, SessionTypeOK
    <3> QED
      BY <2>3, <3>2, <3>3 DEF OnlyNewestLive
  <2>4. CASE UNCHANGED <<family, issued, live>>
    BY <2>4 DEF OnlyNewestLive, Newest
  <2> QED
    BY <1>4, RotateServes, <2>1, <2>3, <2>4
<1>5. ASSUME NEW s \in Sessions, RevokeSession(s)
      PROVE  OnlyNewestLive'
  BY <1>1, <1>5 DEF RevokeSession, OnlyNewestLive, Newest, SessionTypeOK
<1>6. ASSUME NEW r \in Requests, Contain(r)
      PROVE  OnlyNewestLive'
  BY <1>5, <1>6, RequestType DEF Contain
<1>7. ASSUME NEW r \in Requests, Lose(r)
      PROVE  OnlyNewestLive'
  BY <1>7 DEF Lose, OnlyNewestLive, Newest
<1>8. ASSUME NEW s \in Sessions, Logout(s)
      PROVE  OnlyNewestLive'
  BY <1>5, <1>8 DEF Logout
<1>9. CASE Tick
  BY <1>9 DEF Tick, OnlyNewestLive, Newest
<1>10. CASE UNCHANGED vars
  BY <1>10 DEF vars, OnlyNewestLive, Newest
<1> QED
  BY <1>2, <1>3, <1>4, <1>6, <1>7, <1>8, <1>9, <1>10 DEF Next

(* At most the last session of a login can be used, none after a logout.   *)
THEOREM OneLiveSession == Spec => []OnlyNewestLive
<1>1. Init => OnlyNewestLive
  BY DEF Init, OnlyNewestLive
<1> QED
  BY <1>1, SessionTyping, NewestStep, PTL DEF Spec

(* A revoked family stays revoked and never gets another session.          *)
LEMMA RevokedStays ==
    ASSUME SessionTypeOK, OnlyNewestLive, [Next]_vars, NEW f \in Families,
           family[f] = "revoked"
    PROVE  family'[f] = "revoked" /\ issued'[f] = issued[f]
<1>1. ASSUME NEW g \in Families, Login(g)
      PROVE  family'[f] = "revoked" /\ issued'[f] = issued[f]
  BY <1>1 DEF Login, SessionTypeOK
<1>2. ASSUME NEW r \in Requests, Rotate(r)
      PROVE  family'[f] = "revoked" /\ issued'[f] = issued[f]
  BY <1>2, RotateServes DEF SessionTypeOK
<1>3. ASSUME NEW s \in Sessions, RevokeSession(s)
      PROVE  family'[f] = "revoked" /\ issued'[f] = issued[f]
  BY <1>3 DEF RevokeSession, SessionTypeOK
<1>4. ASSUME NEW r \in Requests, Contain(r)
      PROVE  family'[f] = "revoked" /\ issued'[f] = issued[f]
  BY <1>3, <1>4, RequestType DEF Contain
<1> QED
  BY <1>1, <1>2, <1>3, <1>4 DEF Next, Lookup, Lose, Logout, Tick, vars

(* A logout is final.                                                      *)
THEOREM LogoutStands == Spec => LogoutIsFinal
<1>1. SessionTypeOK /\ OnlyNewestLive /\ [Next]_vars
      => [\A f \in Families :
            family[f] = "revoked" => /\ family'[f] = "revoked"
                                     /\ issued'[f] = issued[f]]_vars
  BY RevokedStays
<1> QED
  BY <1>1, SessionTyping, OneLiveSession, PTL DEF Spec, LogoutIsFinal

(* A login has no session before it, so that its first one is new.         *)
LEMMA BeforeLoginStep ==
    SessionTypeOK /\ OnlyNewestLive /\ NoneBeforeLogin /\ [Next]_vars => NoneBeforeLogin'
<1> SUFFICES ASSUME SessionTypeOK, OnlyNewestLive, NoneBeforeLogin, [Next]_vars,
                    NEW f \in Families, family'[f] = "none"
             PROVE  issued'[f] = 0
  BY DEF NoneBeforeLogin
<1>1. ASSUME NEW g \in Families, Login(g)
      PROVE  issued'[f] = 0
  BY <1>1 DEF Login, NoneBeforeLogin, SessionTypeOK
<1>2. ASSUME NEW r \in Requests, Rotate(r)
      PROVE  issued'[f] = 0
  BY <1>2, RotateServes DEF NoneBeforeLogin, SessionTypeOK
<1>3. ASSUME NEW s \in Sessions, RevokeSession(s)
      PROVE  issued'[f] = 0
  BY <1>3 DEF RevokeSession, NoneBeforeLogin, SessionTypeOK
<1>4. ASSUME NEW r \in Requests, Contain(r)
      PROVE  issued'[f] = 0
  BY <1>3, <1>4, RequestType DEF Contain
<1> QED
  BY <1>1, <1>2, <1>3, <1>4 DEF Next, Lookup, Lose, Logout, Tick, vars, NoneBeforeLogin

(* What answers leave behind stays so.                                     *)
LEMMA AnswersStep ==
    SessionTypeOK /\ OnlyNewestLive /\ NoneBeforeLogin /\ Answers /\ [Next]_vars => Answers'
<1> SUFFICES ASSUME SessionTypeOK, OnlyNewestLive, NoneBeforeLogin, Answers, [Next]_vars
             PROVE  Answers'
  OBVIOUS
<1>1. ASSUME NEW r \in Requests, request[r].at \in {"rotated", "refused"}
      PROVE  request[r].session \in Sessions /\ request[r].session[1] \in Families
  BY <1>1 DEF SessionTypeOK, New, Asked, Sessions
<1>2. ASSUME UNCHANGED request,
             \A r \in Requests : request[r].at = "rotated" =>
                (Exists(request[r].session) /\ request[r].session \notin live)'
      PROVE  Answers'
  <2>1. ASSUME NEW r \in Requests, request[r].at = "refused"
        PROVE  family'[request[r].session[1]] = "revoked"
    BY <2>1, <1>1, RevokedStays DEF Answers
  <2> QED
    BY <1>2, <2>1 DEF Answers
<1>3. ASSUME NEW f \in Families, Login(f)
      PROVE  Answers'
  <2>1. ASSUME NEW r \in Requests, request[r].at = "rotated"
        PROVE  (Exists(request[r].session) /\ request[r].session \notin live)'
    <3>1. PICK u \in Sessions : u = request[r].session /\ u[1] \in Families
      BY <1>1, <2>1
    <3>2. Exists(u) /\ u \notin live /\ u[2] \in 1..MaxSessions
      BY <2>1, <3>1 DEF Answers, Sessions
    <3>3. issued[u[1]] # 0 /\ u[1] # f
      BY <1>3, <3>1, <3>2 DEF Exists, Login, NoneBeforeLogin, SessionTypeOK
    <3> QED
      BY <1>3, <3>1, <3>2, <3>3 DEF Login, Exists, SessionTypeOK
  <2> QED
    BY <1>2, <1>3, <2>1 DEF Login
<1>4. ASSUME NEW r \in Requests, NEW s \in Sessions, Lookup(r, s)
      PROVE  Answers'
  <2>1. /\ request'[r].at \in {"rotate", "contain"}
        /\ \A q \in Requests : q # r => request'[q] = request[q]
    BY <1>4 DEF Lookup, SessionTypeOK
  <2> QED
    BY <1>4, <2>1 DEF Lookup, Answers, Exists
<1>5. ASSUME NEW r \in Requests, Rotate(r)
      PROVE  Answers'
  <2> DEFINE s == request[r].session
  <2>1. /\ s \in Sessions /\ s[1] \in Families
        /\ issued[s[1]] \in Nat
        /\ request[r].at = "rotate"
    BY <1>5, RotateServes DEF Sessions, SessionTypeOK, Rotate
  <2>2. CASE request' = [request EXCEPT ![r].at = "contain"] /\ UNCHANGED <<issued, live, family>>
    <3>1. /\ request'[r].at = "contain"
          /\ \A q \in Requests : q # r => request'[q] = request[q]
      BY <2>1, <2>2, RequestType
    <3> QED
      BY <2>2, <3>1 DEF Answers, Exists
  <2>3. CASE /\ s \in live /\ family[s[1]] = "live" /\ s = Newest(s[1])
             /\ issued' = [issued EXCEPT ![s[1]] = @ + 1]
             /\ live' = (live \ {s}) \cup {<<s[1], issued[s[1]] + 1>>}
             /\ request' = [request EXCEPT ![r].at = "rotated"]
             /\ UNCHANGED family
    <3>1. /\ request'[r].at = "rotated" /\ request'[r].session = s
          /\ \A q \in Requests : q # r => request'[q] = request[q]
      BY <2>1, <2>3, RequestType
    <3>2. s[2] = issued[s[1]] /\ issued'[s[1]] = issued[s[1]] + 1
      BY <2>1, <2>3 DEF Newest, SessionTypeOK
    <3>3. Exists(s)' /\ s \notin live'
      BY <2>1, <2>3, <3>2 DEF Exists, Sessions
    <3>4. ASSUME NEW q \in Requests, q # r, request[q].at = "rotated"
          PROVE  (Exists(request[q].session) /\ request[q].session \notin live)'
                 /\ request[q].session # s
      <4> DEFINE u == request[q].session
      <4>1. u \in Sessions /\ u[1] \in Families /\ u[2] <= issued[u[1]] /\ u \notin live
        BY <1>1, <3>4 DEF Answers, Exists
      <4>2. u[2] \in Nat /\ issued[u[1]] \in Nat
        BY <4>1 DEF Sessions, SessionTypeOK
      <4>3. u # s
        BY <2>3, <4>1
      <4>4. issued'[u[1]] >= issued[u[1]]
        BY <2>1, <2>3, <4>1, <4>2 DEF SessionTypeOK
      <4>5. u # <<s[1], issued[s[1]] + 1>>
        BY <2>1, <4>1, <4>2
      <4>6. request'[q].session = u
        BY <3>1, <3>4
      <4>7. u \notin live'
        BY <2>3, <4>1, <4>5
      <4>8. u[2] <= issued'[u[1]]
        <5>1. issued'[u[1]] \in Nat
          BY <2>1, <2>3, <4>1, <4>2 DEF SessionTypeOK
        <5> QED
          BY <4>1, <4>2, <4>4, <5>1
      <4> QED
        BY <4>3, <4>6, <4>7, <4>8 DEF Exists
    <3>5. \A q \in Requests : request'[q].at = "rotated" =>
             Exists(request[q].session)' /\ (request[q].session \notin live)'
      BY <3>1, <3>3, <3>4
    <3>6. \A q \in Requests :
             request'[q].at = "refused" => family'[request'[q].session[1]] = "revoked"
      BY <2>3, <3>1 DEF Answers
    <3>7. \A p, q \in Requests :
             p # q /\ request'[p].at = "rotated" /\ request'[q].at = "rotated"
             => request'[p].session # request'[q].session
      BY <3>1, <3>4 DEF Answers
    <3> QED
      BY <3>5, <3>6, <3>7 DEF Answers
  <2> QED
    BY <1>5, RotateServes, <2>2, <2>3
<1>6. ASSUME NEW s \in Sessions, RevokeSession(s)
      PROVE  \A r \in Requests :
                /\ request[r].at = "rotated" =>
                      Exists(request[r].session) /\ request[r].session \notin live'
                /\ request[r].at = "refused" => family'[request[r].session[1]] = "revoked"
                /\ UNCHANGED issued
  <2>1. ASSUME NEW r \in Requests, request[r].at = "refused"
        PROVE  family'[request[r].session[1]] = "revoked"
    BY <2>1, <1>1, <1>6 DEF RevokeSession, Answers, SessionTypeOK
  <2> QED
    BY <1>6, <2>1 DEF RevokeSession, Answers
<1>7. ASSUME NEW r \in Requests, Contain(r)
      PROVE  Answers'
  <2>1. /\ request'[r].at = "refused" /\ request'[r].session = request[r].session
        /\ \A q \in Requests : q # r => request'[q] = request[q]
        /\ request[r].session \in Sessions
    BY <1>7, RequestType DEF Contain
  <2>2. family'[request[r].session[1]] = "revoked"
    BY <1>7, <2>1 DEF Contain, RevokeSession, Sessions, SessionTypeOK
  <2>3. \A q \in Requests :
           /\ request[q].at = "rotated" =>
                 Exists(request[q].session) /\ request[q].session \notin live'
           /\ request[q].at = "refused" => family'[request[q].session[1]] = "revoked"
           /\ UNCHANGED issued
    BY <1>6, <1>7, <2>1 DEF Contain
  <2> QED
    BY <2>1, <2>2, <2>3 DEF Answers, Exists
<1>8. ASSUME NEW r \in Requests, Lose(r)
      PROVE  Answers'
  <2>1. /\ request'[r].at = "lost"
        /\ \A q \in Requests : q # r => request'[q] = request[q]
    BY <1>8, RequestType DEF Lose
  <2> QED
    BY <1>8, <2>1 DEF Lose, Answers, Exists
<1>9. ASSUME NEW s \in Sessions, Logout(s)
      PROVE  Answers'
  BY <1>6, <1>9 DEF Logout, Answers, Exists
<1>10. CASE Tick \/ UNCHANGED vars
  BY <1>10 DEF Tick, vars, Answers, Exists
<1> QED
  BY <1>3, <1>4, <1>5, <1>7, <1>8, <1>9, <1>10 DEF Next

(* A token serves one request, and a second use ends its login.            *)
THEOREM ReuseEndsLogin == Spec => []ReuseContained
<1>1. Init => Answers /\ NoneBeforeLogin
  BY DEF Init, Answers, New, NoneBeforeLogin
<1>2. Answers => ReuseContained
  BY DEF Answers, ReuseContained
<1> QED
  BY <1>1, <1>2, SessionTyping, OneLiveSession, BeforeLoginStep, AnswersStep, PTL DEF Spec

-----------------------------------------------------------------------------
(* Memberships.                                                            *)

(* A request that has not ended concerns an organization that exists, and  *)
(* nobody is a member of one that does not.                                *)
AboutExisting ==
    /\ \A c \in Changes : change[c] # Idle => slug[change[c].org] # Nobody
    /\ \A o \in Organizations, u \in Users : slug[o] = Nobody => role[<<o, u>>] = Nobody

(* A transaction that is about to write holds the organization, and what   *)
(* it has read there has not changed.                                      *)
ReadsStand ==
    \A c \in Changes : change[c].at = "write" =>
        /\ holder[change[c].org] = c
        /\ change[c].current = role[<<change[c].org, change[c].target>>]
        /\ change[c].lastOwner = (Cardinality(Owners(change[c].org)) <= 1)

MemberInv == MemberTypeOK /\ AboutExisting /\ ReadsStand /\ KeepsOwner
-----------------------------------------------------------------------------
(* A finite set with more than one element has one besides any other.      *)
LEMMA AnotherOne ==
    ASSUME NEW S, IsFiniteSet(S), ~(Cardinality(S) <= 1), NEW t
    PROVE  \E u \in S : u # t
<1> SUFFICES ASSUME \A u \in S : u = t PROVE FALSE
  OBVIOUS
<1>1. S \subseteq {t}
  OBVIOUS
<1>2. Cardinality({t}) = 1 /\ IsFiniteSet({t})
  BY FS_Singleton
<1>3. Cardinality(S) <= 1
  BY <1>1, <1>2, FS_Subset
<1> QED
  BY <1>3

LEMMA OwnersFinite ==
    ASSUME NEW o \in Organizations
    PROVE  IsFiniteSet(Owners(o))
<1>1. Owners(o) \subseteq Users
  BY DEF Owners
<1> QED
  BY <1>1, MemberAssumption, FS_Subset

(* The shape of a request tells how far it is.                             *)
LEMMA Shapes ==
    ASSUME MemberTypeOK, NEW c \in Changes
    PROVE  /\ change[c] = Idle => change[c].at = "idle"
           /\ change[c] # Idle => change[c].org \in Organizations
           /\ change[c].at \in {"target", "begin", "insert"} =>
                 change[c] \in Steps /\ change[c] # Idle
           /\ change[c].at = "write" => change[c] \in Locked /\ change[c] # Idle
<1>1. change[c] \in {Idle} \cup Steps \cup Locked
  BY DEF MemberTypeOK
<1>2. CASE change[c] = Idle
  BY <1>2 DEF Idle
<1>3. CASE change[c] \in Steps
  BY <1>3 DEF Idle, Steps, Request
<1>4. CASE change[c] \in Locked
  BY <1>4 DEF Idle, Locked
<1> QED
  BY <1>1, <1>2, <1>3, <1>4
-----------------------------------------------------------------------------
LEMMA MemberInitially ==
    MemberInit => MemberInv
BY MemberAssumption
DEF MemberInit, MemberInv, MemberTypeOK, AboutExisting, ReadsStand, KeepsOwner, Idle

(* Steps that do not touch memberships or locks, except for their own      *)
(* request, which does not write yet.                                      *)
LEMMA OneMovesOn ==
    ASSUME MemberInv, NEW c \in Changes, NEW next \in {Idle} \cup Steps,
           next # Idle => slug[next.org] # Nobody,
           change' = [change EXCEPT ![c] = next], UNCHANGED <<slug, role, holder>>
    PROVE  MemberInv'
<1>1. next.at # "write"
  BY DEF Idle, Steps, Request
<1>2. MemberTypeOK'
  BY DEF MemberInv, MemberTypeOK
<1>3. \A d \in Changes : change'[d] = IF d = c THEN next ELSE change[d]
  BY DEF MemberInv, MemberTypeOK
<1>4. AboutExisting'
  BY <1>3 DEF MemberInv, AboutExisting
<1>5. ReadsStand'
  BY <1>1, <1>3 DEF MemberInv, ReadsStand, Owners
<1>6. KeepsOwner'
  BY DEF MemberInv, KeepsOwner, Owners
<1> QED
  BY <1>2, <1>4, <1>5, <1>6 DEF MemberInv

LEMMA CreationKeeps ==
    ASSUME MemberInv, NEW o \in Organizations, NEW u \in Users, NEW s \in Slugs,
           CreateWithOwner(o, u, s)
    PROVE  MemberInv'
<1> USE DEF CreateWithOwner
<1>1. s # Nobody /\ MemberTypeOK
  BY MemberAssumption DEF MemberInv
<1>2. MemberTypeOK'
  BY <1>1, MemberAssumption DEF MemberTypeOK
<1>3. AboutExisting'
  BY <1>1, Shapes DEF MemberInv, MemberTypeOK, AboutExisting
<1>4. \A c \in Changes : change[c] # Idle => change[c].org # o
  BY DEF MemberInv, AboutExisting
<1>5. \A p \in Organizations, v \in Users : p # o => role'[<<p, v>>] = role[<<p, v>>]
  BY <1>1 DEF MemberTypeOK
<1>6. \A p \in Organizations : p # o => Owners(p)' = Owners(p)
  BY <1>5 DEF Owners
<1>7. ReadsStand'
  <2> SUFFICES ASSUME NEW c \in Changes, change[c].at = "write"
               PROVE  /\ holder[change[c].org] = c
                      /\ change[c].current = role'[<<change[c].org, change[c].target>>]
                      /\ change[c].lastOwner = (Cardinality(Owners(change[c].org)') <= 1)
    BY DEF ReadsStand, Owners
  <2>1. change[c] \in Locked /\ change[c] # Idle
    BY <1>1, Shapes
  <2>2. change[c].org \in Organizations /\ change[c].org # o /\ change[c].target \in Users
    BY <1>4, <2>1 DEF Locked
  <2> QED
    BY <1>5, <1>6, <2>2 DEF MemberInv, ReadsStand
<1>8. u \in Owners(o)'
  BY <1>1 DEF MemberTypeOK, Owners
<1>9. KeepsOwner'
  BY <1>1, <1>6, <1>8 DEF MemberInv, MemberTypeOK, KeepsOwner
<1> QED
  BY <1>2, <1>3, <1>7, <1>9 DEF MemberInv

LEMMA UpdateKeeps ==
    ASSUME MemberInv, NEW o \in Organizations, NEW u \in Users, NEW s \in Slugs,
           UpdateOrganization(o, u, s)
    PROVE  MemberInv'
<1> USE DEF UpdateOrganization
<1>1. s # Nobody /\ MemberTypeOK
  BY MemberAssumption DEF MemberInv
<1>2. MemberTypeOK'
  BY <1>1 DEF MemberTypeOK
<1>3. AboutExisting'
  BY <1>1, Shapes DEF MemberInv, MemberTypeOK, AboutExisting
<1>4. ReadsStand'
  BY DEF MemberInv, ReadsStand, Owners
<1>5. KeepsOwner'
  BY <1>1 DEF MemberInv, MemberTypeOK, KeepsOwner, Owners
<1> QED
  BY <1>2, <1>3, <1>4, <1>5 DEF MemberInv

LEMMA AskKeeps ==
    ASSUME MemberInv, NEW c \in Changes, NEW op \in {"add", "role", "remove"},
           NEW o \in Organizations, NEW u \in Users, NEW t \in Users,
           NEW r \in Roles \cup {Nobody}, Ask(c, op, o, u, t, r)
    PROVE  MemberInv'
<1>1. role[<<o, u>>] \in Roles
  BY MemberAssumption DEF Ask, canAssignRole, canManageMembers
<1>2. slug[o] # Nobody
  BY <1>1, MemberAssumption DEF MemberInv, AboutExisting
<1> DEFINE next == [at |-> IF op = "add" THEN "insert" ELSE "target", op |-> op,
                    org |-> o, target |-> t, to |-> r, actorRole |-> role[<<o, u>>]]
<1>3. next \in Steps
  BY <1>1 DEF Steps, Request
<1>4. next.org = o /\ change' = [change EXCEPT ![c] = next] /\ UNCHANGED <<slug, role, holder>>
  BY DEF Ask
<1> QED
  BY <1>2, <1>3, <1>4, OneMovesOn

LEMMA LookKeeps ==
    ASSUME MemberInv, NEW c \in Changes, LookAtTarget(c)
    PROVE  MemberInv'
<1>1. /\ change[c] \in Steps /\ change[c].at = "target"
      /\ change[c] # Idle /\ slug[change[c].org] # Nobody
  BY Shapes DEF MemberInv, LookAtTarget, AboutExisting
<1>2. /\ [change[c] EXCEPT !.at = "begin"] \in Steps
      /\ [change[c] EXCEPT !.at = "begin"].org = change[c].org
  BY <1>1 DEF Steps, Request
<1>3. UNCHANGED <<slug, role, holder>> /\ MemberTypeOK
  BY DEF LookAtTarget, MemberInv
<1>4. CASE change' = [change EXCEPT ![c] = Idle]
  BY <1>3, <1>4, OneMovesOn
<1>5. CASE change' = [change EXCEPT ![c] = [@ EXCEPT !.at = "begin"]]
  BY <1>1, <1>2, <1>3, <1>5, OneMovesOn DEF MemberTypeOK
<1> QED
  BY <1>4, <1>5 DEF LookAtTarget

LEMMA InsertKeeps ==
    ASSUME MemberInv, NEW c \in Changes, Insert(c)
    PROVE  MemberInv'
<1> DEFINE o == change[c].org
           t == change[c].target
<1>1. MemberTypeOK /\ change[c] \in Steps /\ change[c] # Idle /\ c # Nobody
  BY Shapes, MemberAssumption DEF MemberInv, Insert
<1>2. o \in Organizations /\ t \in Users /\ change[c].to \in Roles \cup {Nobody}
  BY <1>1 DEF Steps, Request
<1>3. slug[o] # Nobody /\ holder[o] = Nobody
  BY <1>1 DEF MemberInv, AboutExisting, Insert
<1>4. MemberTypeOK'
  BY <1>1, <1>2 DEF MemberTypeOK, Insert
<1>5. \A p \in Organizations, u \in Users :
         role'[<<p, u>>] = role[<<p, u>>] \/ (p = o /\ u = t /\ role[<<p, u>>] = Nobody)
  BY <1>1, <1>2 DEF MemberTypeOK, Insert
<1>6. \A d \in Changes : change'[d] = IF d = c THEN Idle ELSE change[d]
  BY <1>1 DEF MemberTypeOK, Insert
<1>7. AboutExisting'
  BY <1>3, <1>5, <1>6 DEF MemberInv, AboutExisting, Insert
<1>8. \A p \in Organizations : p # o => Owners(p)' = Owners(p)
  BY <1>5 DEF Owners
<1>9. ReadsStand'
  <2> SUFFICES ASSUME NEW d \in Changes, change'[d].at = "write"
               PROVE  /\ holder[change'[d].org] = d
                      /\ change'[d].current = role'[<<change'[d].org, change'[d].target>>]
                      /\ change'[d].lastOwner = (Cardinality(Owners(change[d].org)') <= 1)
    BY DEF ReadsStand, Owners, Insert
  <2>1. change'[d] = change[d] /\ change[d].at = "write"
    BY <1>6 DEF Idle
  <2>2. change[d] \in Locked /\ holder[change[d].org] = d /\ d # Nobody
    BY <1>1, <2>1, Shapes, MemberAssumption DEF MemberInv, ReadsStand
  <2>3. change[d].org \in Organizations /\ change[d].org # o /\ change[d].target \in Users
    BY <1>3, <2>2 DEF Locked
  <2> QED
    BY <1>5, <1>8, <2>1, <2>3 DEF MemberInv, ReadsStand
<1>10. \A p \in Organizations : Owners(p) \subseteq Owners(p)'
  BY <1>5, MemberAssumption DEF Owners
<1>11. KeepsOwner'
  BY <1>10 DEF MemberInv, KeepsOwner, Insert
<1> QED
  BY <1>4, <1>7, <1>9, <1>11 DEF MemberInv

LEMMA BeginKeeps ==
    ASSUME MemberInv, NEW c \in Changes, Begin(c)
    PROVE  MemberInv'
<1> DEFINE o == change[c].org
<1>1. MemberTypeOK /\ change[c] \in Steps /\ change[c] # Idle /\ c # Nobody
  BY Shapes, MemberAssumption DEF MemberInv, Begin
<1>2. o \in Organizations /\ slug[o] # Nobody
  BY <1>1 DEF Steps, Request, MemberInv, AboutExisting
<1>3. Begun(c) \in Locked
  <2>1. role[<<o, change[c].target>>] \in Roles \cup {Nobody}
    BY <1>1 DEF Steps, Request, MemberTypeOK
  <2> QED
    BY <1>1, <2>1 DEF Begin, Begun, Locked, Steps, Request
<1>4. MemberTypeOK'
  BY <1>1, <1>2, <1>3 DEF MemberTypeOK, Begin
<1>5. \A d \in Changes : change'[d] = IF d = c THEN Begun(c) ELSE change[d]
  BY <1>1 DEF MemberTypeOK, Begin
<1>6. \A p \in Organizations : holder'[p] = IF p = o THEN c ELSE holder[p]
  BY <1>1 DEF MemberTypeOK, Begin
<1>7. /\ Begun(c).org = o /\ Begun(c).current = role[<<o, Begun(c).target>>]
      /\ Begun(c).lastOwner = (Cardinality(Owners(o)) <= 1)
  BY DEF Begun
<1>8. AboutExisting'
  BY <1>2, <1>5, <1>7 DEF MemberInv, AboutExisting, Begin
<1>9. ReadsStand'
  <2> SUFFICES ASSUME NEW d \in Changes, change'[d].at = "write"
               PROVE  /\ holder'[change'[d].org] = d
                      /\ change'[d].current = role[<<change'[d].org, change'[d].target>>]
                      /\ change'[d].lastOwner = (Cardinality(Owners(change'[d].org)) <= 1)
    BY DEF ReadsStand, Owners, Begin
  <2>1. CASE d = c
    BY <1>2, <1>5, <1>6, <1>7, <2>1
  <2>2. CASE d # c
    <3>1. change'[d] = change[d] /\ change[d].at = "write"
      BY <1>5, <2>2
    <3>2. change[d] \in Locked /\ holder[change[d].org] = d /\ d # Nobody
      BY <1>1, <3>1, Shapes, MemberAssumption DEF MemberInv, ReadsStand
    <3>3. change[d].org \in Organizations /\ change[d].org # o
      BY <3>2 DEF Locked, Begin
    <3> QED
      BY <1>6, <3>1, <3>3 DEF MemberInv, ReadsStand
  <2> QED
    BY <2>1, <2>2
<1>10. KeepsOwner'
  BY DEF MemberInv, KeepsOwner, Owners, Begin
<1> QED
  BY <1>4, <1>8, <1>9, <1>10 DEF MemberInv

(* A request ends, with or without having written under its lock.          *)
LEMMA ReleaseKeeps ==
    ASSUME MemberInv, NEW c \in Changes, Release(c), change[c] # Idle,
           \/ UNCHANGED role
           \/ Write(c)
    PROVE  MemberTypeOK' /\ AboutExisting' /\ ReadsStand'
<1> DEFINE o == change[c].org
           t == change[c].target
<1>1. MemberTypeOK /\ c # Nobody /\ o \in Organizations /\ slug[o] # Nobody
  BY Shapes, MemberAssumption DEF MemberInv, AboutExisting
<1>2. /\ role' \in [Organizations \X Users -> Roles \cup {Nobody}]
      /\ \A p \in Organizations, u \in Users :
            role'[<<p, u>>] = role[<<p, u>>] \/ (p = o /\ holder[o] = c)
  <2>1. CASE UNCHANGED role
    BY <1>1, <2>1 DEF MemberTypeOK
  <2>2. CASE Write(c)
    <3>1. change[c] \in Locked /\ holder[o] = c
      BY <1>1, <2>2, Shapes DEF Write, MemberInv, ReadsStand
    <3>2. t \in Users /\ change[c].to \in Roles \cup {Nobody}
      BY <3>1 DEF Locked
    <3> QED
      BY <1>1, <2>2, <3>1, <3>2 DEF Write, MemberTypeOK
  <2> QED
    BY <2>1, <2>2
<1>3. \A d \in Changes : change'[d] = IF d = c THEN Idle ELSE change[d]
  BY <1>1 DEF MemberTypeOK, Release
<1>4. \A p \in Organizations : holder'[p] = IF holder[p] = c THEN Nobody ELSE holder[p]
  BY DEF Release
<1>5. MemberTypeOK'
  BY <1>1, <1>2 DEF MemberTypeOK, Release
<1>6. AboutExisting'
  BY <1>1, <1>2, <1>3 DEF MemberInv, AboutExisting, Release
<1>7. \A p \in Organizations : p # o \/ holder[o] # c => Owners(p)' = Owners(p)
  BY <1>2 DEF Owners
<1>8. ReadsStand'
  <2> SUFFICES ASSUME NEW d \in Changes, change'[d].at = "write"
               PROVE  /\ holder'[change'[d].org] = d
                      /\ change'[d].current = role'[<<change'[d].org, change'[d].target>>]
                      /\ change'[d].lastOwner = (Cardinality(Owners(change[d].org)') <= 1)
    BY DEF ReadsStand, Owners
  <2>1. d # c /\ change'[d] = change[d] /\ change[d].at = "write"
    BY <1>3 DEF Idle
  <2>2. change[d] \in Locked /\ holder[change[d].org] = d
    BY <1>1, <2>1, Shapes DEF MemberInv, ReadsStand
  <2>3. change[d].org \in Organizations /\ change[d].target \in Users
    BY <2>2 DEF Locked
  <2>4. change[d].org # o \/ holder[o] # c
    BY <2>1, <2>2
  <2>5. /\ Owners(change[d].org)' = Owners(change[d].org)
        /\ role'[<<change[d].org, change[d].target>>] = role[<<change[d].org, change[d].target>>]
        /\ holder'[change[d].org] = d
    BY <1>2, <1>4, <1>7, <2>1, <2>2, <2>3, <2>4
  <2> QED
    BY <2>1, <2>5 DEF MemberInv, ReadsStand
<1> QED
  BY <1>5, <1>6, <1>8

LEMMA WriteKeeps ==
    ASSUME MemberInv, NEW c \in Changes, Write(c)
    PROVE  MemberInv'
<1> DEFINE o == change[c].org
           t == change[c].target
<1>1. /\ MemberTypeOK /\ Release(c) /\ change[c] \in Locked /\ change[c] # Idle
      /\ change[c].current = role[<<o, t>>]
      /\ change[c].lastOwner = (Cardinality(Owners(o)) <= 1)
  BY Shapes DEF MemberInv, ReadsStand, Write
<1>2. /\ o \in Organizations /\ t \in Users /\ change[c].to \in Roles \cup {Nobody}
      /\ change[c].lastOwner \in BOOLEAN
  BY <1>1 DEF Locked
<1>3. MemberTypeOK' /\ AboutExisting' /\ ReadsStand'
  BY <1>1, ReleaseKeeps
<1>4. slug' = slug /\ KeepsOwner
  BY <1>1 DEF Release, MemberInv
<1>5. ASSUME Refused(c) PROVE KeepsOwner'
  <2>1. UNCHANGED role
    BY <1>5 DEF Write
  <2> QED
    BY <1>4, <2>1 DEF KeepsOwner, Owners
<1>6. ASSUME ~Refused(c) PROVE KeepsOwner'
  <2>1. \A p \in Organizations, u \in Users :
           role'[<<p, u>>] = IF p = o /\ u = t THEN change[c].to ELSE role[<<p, u>>]
    BY <1>1, <1>2, <1>6 DEF Write, MemberTypeOK
  <2>2. \A p \in Organizations : p # o => Owners(p)' = Owners(p)
    BY <2>1 DEF Owners
  <2>3. ASSUME NEW p \in Organizations, p = o, Owners(p) # {} PROVE Owners(p)' # {}
    <3>1. CASE change[c].to = "owner"
      BY <1>2, <2>1, <2>3, <3>1 DEF Owners
    <3>2. CASE role[<<o, t>>] # "owner"
      <4>1. PICK u \in Users : role[<<p, u>>] = "owner"
        BY <2>3 DEF Owners
      <4>2. u # t /\ role'[<<p, u>>] = "owner"
        BY <1>2, <2>1, <2>3, <3>2, <4>1
      <4> QED
        BY <4>2 DEF Owners
    <3>3. CASE ~(Cardinality(Owners(o)) <= 1)
      <4>1. PICK u \in Owners(o) : u # t
        BY <1>2, <3>3, OwnersFinite, AnotherOne
      <4> QED
        BY <1>2, <2>1, <2>3, <4>1 DEF Owners
    <3>4. \/ change[c].to = "owner" \/ role[<<o, t>>] # "owner"
          \/ ~(Cardinality(Owners(o)) <= 1)
      BY <1>1, <1>6 DEF Refused
    <3> QED
      BY <3>1, <3>2, <3>3, <3>4
  <2> QED
    BY <1>2, <1>4, <2>2, <2>3 DEF KeepsOwner
<1>7. KeepsOwner'
  BY <1>5, <1>6, <1>3, <1>4 DEF MemberInv
<1> QED
  BY <1>3, <1>7 DEF MemberInv

LEMMA AbandonKeeps ==
    ASSUME MemberInv, NEW c \in Changes, Abandon(c)
    PROVE  MemberInv'
<1>1. Release(c) /\ change[c] # Idle /\ UNCHANGED role
  BY DEF Abandon
<1>2. KeepsOwner'
  BY <1>1 DEF Release, MemberInv, KeepsOwner, Owners
<1> QED
  BY <1>1, <1>2, ReleaseKeeps DEF MemberInv

-----------------------------------------------------------------------------
LEMMA MemberInvariant ==
    MemberSpec => []MemberInv
<1>1. ASSUME MemberInv, [MemberNext]_memberVars PROVE MemberInv'
  <2> USE <1>1
  <2>1. ASSUME NEW o \in Organizations, NEW u \in Users, NEW s \in Slugs,
               CreateWithOwner(o, u, s) \/ UpdateOrganization(o, u, s)
        PROVE  MemberInv'
    BY <2>1, CreationKeeps, UpdateKeeps
  <2>2. ASSUME NEW c \in Changes, NEW op \in {"add", "role", "remove"},
               NEW o \in Organizations, NEW u \in Users, NEW t \in Users,
               NEW r \in Roles \cup {Nobody}, Ask(c, op, o, u, t, r)
        PROVE  MemberInv'
    BY <2>2, AskKeeps
  <2>3. ASSUME NEW c \in Changes,
               Insert(c) \/ LookAtTarget(c) \/ Begin(c) \/ Write(c) \/ Abandon(c)
        PROVE  MemberInv'
    BY <2>3, InsertKeeps, LookKeeps, BeginKeeps, WriteKeeps, AbandonKeeps
  <2>4. CASE UNCHANGED memberVars
    BY <2>4 DEF memberVars, MemberInv, MemberTypeOK, AboutExisting, ReadsStand, KeepsOwner, Owners
  <2> QED
    BY <2>1, <2>2, <2>3, <2>4 DEF MemberNext
<1> QED
  BY <1>1, MemberInitially, PTL DEF MemberSpec

(* The memberships have their types, and a request that is about to write  *)
(* carries what it read under the lock.                                    *)
THEOREM MemberTyping ==
    MemberSpec => []MemberTypeOK
<1>1. MemberInv => MemberTypeOK
  BY DEF MemberInv
<1> QED
  BY <1>1, MemberInvariant, PTL

(* "An organization must always retain at least one owner"                 *)
(* (docs/organizations.md:59): for any number of organizations, members    *)
(* and overlapping changes (Repository.ChangeRole, RemoveMember).          *)
THEOREM AlwaysAnOwner ==
    MemberSpec => []KeepsOwner
<1>1. MemberInv => KeepsOwner
  BY DEF MemberInv
<1> QED
  BY <1>1, MemberInvariant, PTL

-----------------------------------------------------------------------------
(* Budgets.                                                                *)

(* By the time it expires, bucket b of store s is full.                    *)
FullByExpiry(s, b) ==
    \/ b.tokens = Full(s)
    \/ Full(s) + b.updated * Capacity[s] <= b.tokens + b.expires * Capacity[s]

Sound(s, b) ==
    /\ b \in [tokens: Nat, updated: Nat, expires: Nat, born: Nat]
    /\ b.tokens <= Full(s)
    /\ b.updated <= clock
    /\ FullByExpiry(s, b)

BucketInv ==
    /\ clock \in Nat
    /\ bucket \in [Entries -> [tokens: Nat, updated: Nat, expires: Nat, born: Nat] \cup {Absent}]
    /\ \A e \in Entries : bucket[e] # Absent => Sound(e[1], bucket[e])
-----------------------------------------------------------------------------
LEMMA Sizes ==
    ASSUME NEW s \in Stores
    PROVE  /\ Capacity[s] \in Nat /\ Capacity[s] >= 1
           /\ Period[s] \in Nat /\ Period[s] >= 1
           /\ Full(s) \in Nat /\ Full(s) = Capacity[s] * Period[s]
           /\ Period[s] <= Full(s)
<1>1. /\ Capacity[s] \in Nat /\ Capacity[s] >= 1
      /\ Period[s] \in Nat /\ Period[s] >= 1
  BY LimitsAssumption
<1>2. \A c, p \in Nat : c >= 1 => c * p \in Nat /\ p <= c * p
  OBVIOUS
<1> QED
  BY <1>1, <1>2 DEF Full

LEMMA Lesser ==
    ASSUME NEW m \in Nat, NEW n \in Nat
    PROVE  Min({m, n}) = IF m <= n THEN m ELSE n
BY DEF Min

(* Refilling from time u to time c, with r units a tick.                   *)
LEMMA Growth ==
    ASSUME NEW u \in Nat, NEW c \in Nat, NEW r \in Nat, u <= c
    PROVE  /\ (c - u) * r \in Nat
           /\ (c - u) * r = c * r - u * r
           /\ u * r <= c * r
<1>1. c - u \in Nat
  OBVIOUS
<1>2. (c - u) * r = c * r - u * r
  OBVIOUS
<1>3. \A m, n \in Nat : m * n \in Nat
  OBVIOUS
<1>4. (c - u) * r \in Nat /\ c * r \in Nat /\ u * r \in Nat
  BY <1>1, <1>3
<1> QED
  BY <1>2, <1>4

LEMMA RefillSound ==
    ASSUME NEW s \in Stores, NEW b, clock \in Nat, Sound(s, b)
    PROVE  /\ Sound(s, Refilled(s, b))
           /\ Refilled(s, b).updated = clock
           /\ Refilled(s, b).born = b.born
           /\ b.expires <= clock => Refilled(s, b).tokens = Full(s)
<1> DEFINE r == Capacity[s]
           got == b.tokens + (clock - b.updated) * r
           new == Refilled(s, b)
<1>1. /\ b \in [tokens: Nat, updated: Nat, expires: Nat, born: Nat]
      /\ b.tokens \in Nat /\ b.updated \in Nat /\ b.expires \in Nat
      /\ b.updated <= clock /\ b.tokens <= Full(s) /\ FullByExpiry(s, b)
  BY DEF Sound
<1>2. r \in Nat /\ Full(s) \in Nat
  BY Sizes
<1>3. /\ (clock - b.updated) * r \in Nat
      /\ (clock - b.updated) * r = clock * r - b.updated * r
  BY <1>1, <1>2, Growth
<1>4. \A m, n \in Nat : m * n \in Nat
  OBVIOUS
<1>5. clock * r \in Nat /\ b.updated * r \in Nat /\ b.expires * r \in Nat
  BY <1>1, <1>2, <1>4
<1>6. got \in Nat /\ Min({Full(s), got}) = IF Full(s) <= got THEN Full(s) ELSE got
  BY <1>1, <1>2, <1>3, Lesser
<1>7. /\ new \in [tokens: Nat, updated: Nat, expires: Nat, born: Nat]
      /\ new.tokens = IF Full(s) <= got THEN Full(s) ELSE got
      /\ new.updated = clock /\ new.expires = b.expires /\ new.born = b.born
  BY <1>1, <1>2, <1>6 DEF Refilled
<1>8. got + b.updated * r = b.tokens + clock * r
  BY <1>1, <1>3, <1>5
<1>9. FullByExpiry(s, new)
  <2>1. CASE Full(s) <= got
    BY <1>7, <2>1 DEF FullByExpiry
  <2>2. CASE ~(Full(s) <= got) /\ b.tokens = Full(s)
    BY <1>1, <1>2, <1>3, <2>2
  <2>3. CASE ~(Full(s) <= got) /\ Full(s) + b.updated * r <= b.tokens + b.expires * r
    <3>1. Full(s) + clock * r <= got + b.expires * r
      BY <1>1, <1>2, <1>5, <1>6, <1>8, <2>3
    <3> QED
      BY <1>7, <2>3, <3>1 DEF FullByExpiry
  <2> QED
    BY <1>1, <2>1, <2>2, <2>3 DEF FullByExpiry
<1>10. ASSUME b.expires <= clock PROVE Full(s) <= got
  <2>1. b.expires * r <= clock * r
    BY <1>1, <1>2, <1>10, Growth
  <2>2. CASE b.tokens = Full(s)
    BY <1>1, <1>2, <1>3, <2>2
  <2>3. CASE Full(s) + b.updated * r <= b.tokens + b.expires * r
    BY <1>1, <1>2, <1>5, <1>6, <1>8, <2>1, <2>3
  <2> QED
    BY <1>1, <2>2, <2>3 DEF FullByExpiry
<1>11. Sound(s, new)
  BY <1>2, <1>6, <1>7, <1>9 DEF Sound
<1> QED
  BY <1>7, <1>10, <1>11

LEMMA SpendSound ==
    ASSUME NEW s \in Stores, NEW b, clock \in Nat, Sound(s, b),
           b.updated = clock, Period[s] <= b.tokens
    PROVE  Sound(s, Spend(s, b)) /\ Spend(s, b).born = b.born
<1> DEFINE c == Capacity[s]
           p == Period[s]
           new == Spend(s, b)
<1>1. /\ b \in [tokens: Nat, updated: Nat, expires: Nat, born: Nat]
      /\ b.tokens \in Nat /\ b.tokens <= Full(s)
  BY DEF Sound
<1>2. c \in Nat /\ p \in Nat /\ Full(s) \in Nat /\ Full(s) = c * p
  BY Sizes
<1>3. b.tokens - p \in Nat /\ clock + p \in Nat
  BY <1>1, <1>2
<1>4. /\ new \in [tokens: Nat, updated: Nat, expires: Nat, born: Nat]
      /\ new.tokens = b.tokens - p /\ new.updated = clock
      /\ new.expires = clock + p /\ new.born = b.born
  BY <1>1, <1>2, <1>3 DEF Spend
<1>5. (clock + p) * c = clock * c + Full(s)
  BY <1>2
<1>6. \A m, n \in Nat : m * n \in Nat
  OBVIOUS
<1>7. clock * c \in Nat
  BY <1>2, <1>6
<1>8. FullByExpiry(s, new)
  <2>1. Full(s) + clock * c <= new.tokens + (clock * c + Full(s))
    BY <1>1, <1>2, <1>4, <1>7
  <2> QED
    BY <1>4, <1>5, <2>1 DEF FullByExpiry
<1> QED
  BY <1>1, <1>2, <1>4, <1>8 DEF Sound

LEMMA NewSound ==
    ASSUME NEW s \in Stores, clock \in Nat
    PROVE  /\ Sound(s, NewBucket(s))
           /\ NewBucket(s).updated = clock
           /\ Period[s] <= NewBucket(s).tokens
BY Sizes DEF NewBucket, Sound, FullByExpiry

LEMMA RefundSound ==
    ASSUME NEW s \in Stores, NEW b, clock \in Nat, Sound(s, b)
    PROVE  LET new == [b EXCEPT !.tokens = Min({Full(s), @ + Period[s]})]
           IN  Sound(s, new) /\ new.born = b.born
<1> DEFINE new == [b EXCEPT !.tokens = Min({Full(s), @ + Period[s]})]
<1>1. /\ b \in [tokens: Nat, updated: Nat, expires: Nat, born: Nat]
      /\ b.tokens \in Nat /\ b.updated \in Nat /\ b.expires \in Nat
      /\ b.updated <= clock /\ b.tokens <= Full(s) /\ FullByExpiry(s, b)
  BY DEF Sound
<1>2. Period[s] \in Nat /\ Full(s) \in Nat /\ Capacity[s] \in Nat
  BY Sizes
<1>3. Min({Full(s), b.tokens + Period[s]}) =
         IF Full(s) <= b.tokens + Period[s] THEN Full(s) ELSE b.tokens + Period[s]
  BY <1>1, <1>2, Lesser
<1>4. /\ new \in [tokens: Nat, updated: Nat, expires: Nat, born: Nat]
      /\ new.tokens = IF Full(s) <= b.tokens + Period[s] THEN Full(s) ELSE b.tokens + Period[s]
      /\ new.updated = b.updated /\ new.expires = b.expires /\ new.born = b.born
  BY <1>1, <1>2, <1>3
<1>5. \A m, n \in Nat : m * n \in Nat
  OBVIOUS
<1>6. b.updated * Capacity[s] \in Nat /\ b.expires * Capacity[s] \in Nat
  BY <1>1, <1>2, <1>5
<1>7. new.tokens = Full(s) \/ (b.tokens <= new.tokens /\ b.tokens # Full(s))
  <2>1. CASE Full(s) <= b.tokens + Period[s]
    BY <1>4, <2>1
  <2>2. CASE ~(Full(s) <= b.tokens + Period[s])
    <3>1. new.tokens = b.tokens + Period[s]
      BY <1>4, <2>2
    <3> HIDE DEF new
    <3> QED
      BY <1>1, <1>2, <2>2, <3>1
  <2> QED
    BY <2>1, <2>2
<1>8. FullByExpiry(s, new)
  <2>1. CASE new.tokens = Full(s)
    BY <2>1 DEF FullByExpiry
  <2>2. CASE b.tokens <= new.tokens /\ b.tokens # Full(s)
    <3>1. Full(s) + b.updated * Capacity[s] <= b.tokens + b.expires * Capacity[s]
      BY <1>1, <2>2 DEF FullByExpiry
    <3>2. new.tokens \in Nat
      BY <1>4
    <3>3. Full(s) + b.updated * Capacity[s] <= new.tokens + b.expires * Capacity[s]
      BY <1>1, <1>2, <1>6, <2>2, <3>1, <3>2
    <3> QED
      BY <1>4, <3>3 DEF FullByExpiry
  <2> QED
    BY <1>7, <2>1, <2>2
<1> QED
  BY <1>1, <1>2, <1>4, <1>8 DEF Sound

-----------------------------------------------------------------------------
(* What a step may do to a bucket: leave it, make a sound one where there  *)
(* was none, give it another level, or drop it when it has expired.        *)
Cares(e) ==
    /\ bucket'[e] # Absent => Sound(e[1], bucket'[e])
    /\ \/ bucket[e] = Absent
       \/ bucket[e].expires <= clock
       \/ bucket'[e] # Absent /\ bucket'[e].born = bucket[e].born

LEMMA TakeCares ==
    ASSUME BucketInv, NEW s \in Stores, NEW k, NEW granted, Take(s, k, granted),
           NEW e \in Entries
    PROVE  /\ bucket' = [f \in Entries |-> bucket'[f]]
           /\ Cares(e)
<1> DEFINE left == Cleaned(s, k)
           own  == <<s, k>>
           b    == IF left[own] = Absent THEN NewBucket(s) ELSE Refilled(s, left[own])
<1>1. clock \in Nat /\ (bucket[e] # Absent => Sound(e[1], bucket[e]))
  BY DEF BucketInv
<1>2. \/ left[e] = bucket[e]
      \/ left[e] = Absent /\ bucket[e] # Absent /\ bucket[e].expires <= clock
  BY DEF Cleaned
<1>3. DOMAIN left = Entries
  BY DEF Cleaned
<1>4. \/ bucket' = left
      \/ bucket' = [left EXCEPT ![own] = b]
      \/ bucket' = [left EXCEPT ![own] = Spend(s, b)] /\ ~(b.tokens < Period[s])
  BY DEF Take
<1>5. bucket'[e] = left[e] \/ e = own
  BY <1>3, <1>4
<1>6. ASSUME bucket'[e] = left[e] PROVE Cares(e)
  BY <1>1, <1>2, <1>6 DEF Cares
<1>7. ASSUME e = own /\ bucket'[e] # left[e] PROVE Cares(e)
  <2>1. bucket'[e] = b \/ (bucket'[e] = Spend(s, b) /\ ~(b.tokens < Period[s]))
    BY <1>3, <1>4, <1>7
  <2>2. /\ Sound(s, b) /\ b.updated = clock
        /\ left[e] # Absent => b.born = bucket[e].born
    <3>1. CASE left[e] = Absent
      BY <1>1, <1>7, <3>1, NewSound
    <3>2. CASE left[e] # Absent
      <4>1. left[e] = bucket[e] /\ Sound(s, bucket[e])
        BY <1>1, <1>2, <1>7, <3>2
      <4> QED
        BY <1>1, <1>7, <3>2, <4>1, RefillSound
    <3> QED
      BY <3>1, <3>2
  <2>3. Period[s] \in Nat /\ b.tokens \in Nat
    BY <2>2, Sizes DEF Sound
  <2>4. /\ Sound(s, bucket'[e])
        /\ bucket'[e].born = b.born
    BY <1>1, <2>1, <2>2, <2>3, SpendSound
  <2>5. bucket'[e] # Absent
    BY <2>4, LimitsAssumption DEF Sound
  <2> QED
    BY <1>2, <1>7, <2>2, <2>4, <2>5 DEF Cares
<1>8. bucket' = [f \in Entries |-> bucket'[f]]
  BY <1>3, <1>4 DEF Cleaned
<1> QED
  BY <1>5, <1>6, <1>7, <1>8

LEMMA RefundCares ==
    ASSUME BucketInv, NEW a \in Attempts, Refund(a), NEW e \in Entries
    PROVE  /\ bucket' = [f \in Entries |-> bucket'[f]]
           /\ Cares(e)
<1> DEFINE own == <<"account", attempt[a].email>>
           old == Refilled("account", bucket[own])
<1>1. /\ clock \in Nat /\ (bucket[e] # Absent => Sound(e[1], bucket[e]))
      /\ DOMAIN bucket = Entries /\ bucket = [f \in Entries |-> bucket[f]]
  BY DEF BucketInv
<1>2. \/ bucket' = bucket
      \/ bucket[own] # Absent /\ bucket' = [bucket EXCEPT ![own] = Regained(bucket[own])]
  BY DEF Refund
<1>3. /\ bucket' = [f \in Entries |-> bucket'[f]]
      /\ \/ bucket'[e] = bucket[e]
         \/ e = own /\ bucket[e] # Absent /\ bucket'[e] = Regained(bucket[own])
  BY <1>1, <1>2
<1>4. ASSUME bucket'[e] = bucket[e] PROVE Cares(e)
  BY <1>1, <1>4 DEF Cares
<1>5. ASSUME e = own /\ bucket[e] # Absent /\ bucket'[e] = Regained(bucket[own])
      PROVE  Cares(e)
  <2>1. "account" \in Stores /\ Sound("account", bucket[own])
    BY <1>1, <1>5 DEF Stores
  <2>2. Sound("account", old) /\ old.born = bucket[e].born
    BY <1>1, <1>5, <2>1, RefillSound
  <2>3. Sound("account", Regained(bucket[own])) /\ Regained(bucket[own]).born = old.born
    BY <1>1, <2>1, <2>2, RefundSound DEF Regained
  <2>4. Regained(bucket[own]) # Absent
    BY <2>3, LimitsAssumption DEF Sound
  <2> QED
    BY <1>5, <2>2, <2>3, <2>4 DEF Cares
<1> QED
  BY <1>3, <1>4, <1>5

LEMMA Caring ==
    ASSUME BucketInv, clock' \in Nat, clock <= clock',
           bucket' = [f \in Entries |-> bucket'[f]], \A e \in Entries : Cares(e)
    PROVE  BucketInv'
<1>1. \A e \in Entries : bucket'[e] # Absent =>
         /\ Sound(e[1], bucket'[e])
         /\ bucket'[e] \in [tokens: Nat, updated: Nat, expires: Nat, born: Nat]
  BY DEF Cares, Sound
<1>2. bucket' \in [Entries -> [tokens: Nat, updated: Nat, expires: Nat, born: Nat] \cup {Absent}]
  BY <1>1
<1>3. ASSUME NEW e \in Entries, bucket'[e] # Absent
      PROVE  Sound(e[1], bucket[e])'
  <2>1. Sound(e[1], bucket'[e])
    BY <1>1, <1>3
  <2>2. bucket'[e].updated \in Nat /\ clock \in Nat
    BY <2>1 DEF Sound, BucketInv
  <2> QED
    BY <2>1, <2>2 DEF Sound, FullByExpiry, Full
<1> QED
  BY <1>2, <1>3 DEF BucketInv

LEMMA StepCares ==
    ASSUME BucketInv, [LimitsNext]_limitVars
    PROVE  /\ clock' \in Nat /\ clock <= clock'
           /\ bucket' = [f \in Entries |-> bucket'[f]]
           /\ \A e \in Entries : Cares(e)
<1> DEFINE Careful == /\ clock' \in Nat /\ clock <= clock'
                      /\ bucket' = [f \in Entries |-> bucket'[f]]
                      /\ \A e \in Entries : Cares(e)
<1>1. /\ clock \in Nat /\ \A e \in Entries : bucket[e] # Absent => Sound(e[1], bucket[e])
      /\ bucket = [f \in Entries |-> bucket[f]]
  BY DEF BucketInv
<1>2. ASSUME NEW s \in Stores, NEW k, NEW granted, Take(s, k, granted), UNCHANGED clock
      PROVE  Careful
  <2>1. ASSUME NEW e \in Entries PROVE Cares(e) /\ bucket' = [f \in Entries |-> bucket'[f]]
    BY <1>2, TakeCares
  <2>2. bucket' = [f \in Entries |-> bucket'[f]]
    BY <1>2 DEF Take, Cleaned
  <2> QED
    BY <1>1, <1>2, <2>1, <2>2
<1>3. ASSUME UNCHANGED bucket, clock' \in {clock, clock + 1} PROVE Careful
  BY <1>1, <1>3 DEF Cares
<1>4. ASSUME NEW a \in Attempts, Refund(a) PROVE Careful
  <2>1. ASSUME NEW e \in Entries PROVE Cares(e)
    BY <1>4, RefundCares
  <2>2. bucket' = [f \in Entries |-> bucket'[f]]
    BY <1>1, <1>4 DEF Refund
  <2> QED
    BY <1>1, <1>4, <2>1, <2>2 DEF Refund
<1>5. ASSUME NEW a \in Attempts, NEW ip \in Addresses, NEW m \in Emails,
             LoginFrom(a, ip, m)
      PROVE  Careful
  BY <1>2, <1>5 DEF LoginFrom, Stores
<1>6. ASSUME NEW a \in Attempts, NEW ip \in Addresses, RegisterFrom(a, ip) PROVE Careful
  BY <1>2, <1>6 DEF RegisterFrom, Stores
<1>7. ASSUME NEW a \in Attempts, Reserve(a) PROVE Careful
  BY <1>2, <1>7 DEF Reserve, Stores
<1>8. ASSUME NEW a \in Attempts, Find(a) \/ Verify(a) \/ Encode(a) \/ Encoded(a) PROVE Careful
  BY <1>3, <1>8 DEF Find, Verify, Encode, Encoded, Goes
<1>9. CASE Pass \/ UNCHANGED limitVars
  BY <1>3, <1>9 DEF Pass, limitVars
<1> QED
  BY <1>4, <1>5, <1>6, <1>7, <1>8, <1>9 DEF LimitsNext

LEMMA BucketInvariant ==
    LimitsSpec => []BucketInv
<1>1. LimitsInit => BucketInv
  BY DEF LimitsInit, BucketInv
<1>2. BucketInv /\ [LimitsNext]_limitVars => BucketInv'
  BY StepCares, Caring
<1> QED
  BY <1>1, <1>2, PTL DEF LimitsSpec

(* "Full stores reject new identities ... rather than evict active limits" *)
(* (docs/rate-limiting.md): Limiter.Take drops or replaces a bucket only   *)
(* when it would be full, whatever the sizes of the stores, and however    *)
(* late tokens are given back.                                             *)
THEOREM OnlyFullForgotten ==
    LimitsSpec => ForgetsOnlyFull
<1>1. BucketInv /\ [LimitsNext]_limitVars =>
         [\A e \in Entries :
             /\ bucket[e] # Absent
             /\ bucket'[e] = Absent \/ bucket'[e].born # bucket[e].born
             => Refilled(e[1], bucket[e]).tokens = Full(e[1])]_limitVars
  <2> SUFFICES ASSUME BucketInv, [LimitsNext]_limitVars, NEW e \in Entries,
                      bucket[e] # Absent,
                      bucket'[e] = Absent \/ bucket'[e].born # bucket[e].born
               PROVE  Refilled(e[1], bucket[e]).tokens = Full(e[1])
    OBVIOUS
  <2>1. Cares(e)
    BY StepCares
  <2>2. bucket[e].expires <= clock
    BY <2>1 DEF Cares
  <2>3. e[1] \in Stores /\ clock \in Nat /\ Sound(e[1], bucket[e])
    BY DEF BucketInv, Entries
  <2> QED
    BY <2>2, <2>3, RefillSound
<1> QED
  BY <1>1, BucketInvariant, PTL DEF LimitsSpec, ForgetsOnlyFull

-----------------------------------------------------------------------------
(* Tickets: what an attempt holds, and how many attempts hold one.         *)

(* The stores stay within their bounds.                                    *)
StoresOK ==
    /\ \A e \in Entries : bucket[e] # Absent => bucket[e].born <= clock
    /\ \A s \in Stores : /\ IsFiniteSet(Held(bucket, s))
                         /\ Cardinality(Held(bucket, s)) <= MaxEntries
    /\ sweepAt \in [Stores -> Nat]

(* Tickets are from the past, and given back at most once.                 *)
TicketsOK(m) ==
    /\ IsFiniteSet(Reserved(m))
    /\ \A a \in Reserved(m) :
          /\ attempt[a].since <= clock
          /\ attempt[a].at = "done" \/ attempt[a].back = MaxClock + 1

LimitsInv ==
    /\ LimitsTypeOK /\ BucketInv /\ StoresOK
    /\ \A m \in Emails : TicketsOK(m)

LEMMA AttemptShapes ==
    ASSUME NEW r \in {Fresh} \cup Logins \cup Others
    PROVE  /\ "since" \in DOMAIN r <=> r \in Logins
           /\ r.at \in {"lookup", "hash", "refund", "failed", "done"} <=> r \in Logins
           /\ r.at = "account" => r \in [at: {"account"}, email: Emails]
           /\ r.at \in {"register", "encode"} => r \in [at: {"register", "encode", "ended"}]
<1>1. CASE r = Fresh
  BY <1>1 DEF Fresh, Logins
<1>2. CASE r \in Logins
  BY <1>2 DEF Logins
<1>3. CASE r \in [at: {"account"}, email: Emails]
  BY <1>3 DEF Logins
<1>4. CASE r \in [at: {"register", "encode", "ended"}]
  BY <1>4 DEF Logins
<1> QED
  BY <1>1, <1>2, <1>3, <1>4 DEF Others

(* An expired bucket goes.                                                 *)
Dropped(e) == bucket[e] # Absent /\ bucket[e].expires <= clock /\ bucket'[e] = Absent
Rests(e)   == bucket'[e] = bucket[e] \/ Dropped(e)

LEMMA TakeEffect ==
    ASSUME BucketInv, NEW s \in Stores, NEW k, NEW granted, Take(s, k, granted),
           <<s, k>> \in Entries, NEW e \in Entries
    PROVE  /\ e[1] # s => bucket'[e] = bucket[e]
           /\ e # <<s, k>> => Rests(e)
           /\ e = <<s, k>> /\ ~granted =>
                 \/ Rests(e)
                 \/ bucket[e] # Absent /\ bucket'[e] = Refilled(s, bucket[e])
           /\ e = <<s, k>> /\ granted =>
                 \/ /\ bucket[e] = Absent \/ bucket[e].expires <= clock
                    /\ bucket'[e] = Spend(s, NewBucket(s))
                 \/ /\ bucket[e] # Absent
                    /\ Period[s] <= Refilled(s, bucket[e]).tokens
                    /\ bucket'[e] = Spend(s, Refilled(s, bucket[e]))
<1> DEFINE left == Cleaned(s, k)
           own  == <<s, k>>
           b    == IF left[own] = Absent THEN NewBucket(s) ELSE Refilled(s, left[own])
<1>1. /\ left[e] = bucket[e] \/ (left[e] = Absent /\ bucket[e] # Absent /\ bucket[e].expires <= clock)
      /\ e[1] # s => left[e] = bucket[e]
  BY DEF Cleaned
<1>2. DOMAIN left = Entries
  BY DEF Cleaned
<1>3. \/ ~granted /\ bucket' = left
      \/ ~granted /\ b.tokens < Period[s] /\ bucket' = [left EXCEPT ![own] = b]
      \/ granted /\ ~(b.tokens < Period[s]) /\ bucket' = [left EXCEPT ![own] = Spend(s, b)]
  BY DEF Take
<1>4. e[1] # s \/ e # own => bucket'[e] = left[e]
  BY <1>2, <1>3
<1>5. clock \in Nat /\ Period[s] \in Nat /\ (bucket[e] # Absent => Sound(e[1], bucket[e]))
  BY Sizes DEF BucketInv
<1>6. ASSUME e = own, left[own] = Absent
      PROVE  /\ ~(b.tokens < Period[s])
             /\ b = NewBucket(s)
             /\ bucket[e] = Absent \/ bucket[e].expires <= clock
  <2>1. b = NewBucket(s)
    BY <1>6
  <2>2. b.tokens = Full(s) /\ Period[s] <= Full(s) /\ Full(s) \in Nat
    BY <2>1, Sizes DEF NewBucket
  <2> QED
    BY <1>1, <1>5, <1>6, <2>1, <2>2
<1>7. ASSUME e = own, left[own] # Absent
      PROVE  /\ bucket[e] # Absent
             /\ b = Refilled(s, bucket[e])
             /\ b.tokens \in Nat
  <2>1. left[own] = bucket[e] /\ Sound(s, bucket[e])
    BY <1>1, <1>5, <1>7
  <2>2. b = Refilled(s, bucket[e]) /\ Sound(s, Refilled(s, bucket[e]))
    BY <1>5, <1>7, <2>1, RefillSound
  <2> QED
    BY <1>7, <2>1, <2>2 DEF Sound
<1>8. e # own => Rests(e)
  BY <1>1, <1>4 DEF Rests, Dropped
<1>9. ASSUME e = own, ~granted
      PROVE  Rests(e) \/ (bucket[e] # Absent /\ bucket'[e] = Refilled(s, bucket[e]))
  <2>1. CASE bucket' = left
    BY <1>1, <2>1 DEF Rests, Dropped
  <2>2. CASE b.tokens < Period[s] /\ bucket' = [left EXCEPT ![own] = b]
    BY <1>2, <1>6, <1>7, <1>9, <2>2
  <2> QED
    BY <1>3, <1>9, <2>1, <2>2
<1>10. ASSUME e = own, granted
       PROVE  \/ /\ bucket[e] = Absent \/ bucket[e].expires <= clock
                 /\ bucket'[e] = Spend(s, NewBucket(s))
              \/ /\ bucket[e] # Absent
                 /\ Period[s] <= Refilled(s, bucket[e]).tokens
                 /\ bucket'[e] = Spend(s, Refilled(s, bucket[e]))
  <2>1. ~(b.tokens < Period[s]) /\ bucket'[e] = Spend(s, b)
    BY <1>2, <1>3, <1>10
  <2>2. CASE left[own] = Absent
    BY <1>6, <1>10, <2>1, <2>2
  <2>3. CASE left[own] # Absent
    <3>1. bucket[e] # Absent /\ b = Refilled(s, bucket[e]) /\ b.tokens \in Nat
      BY <1>7, <1>10, <2>3
    <3>2. Period[s] <= b.tokens
      BY <1>5, <2>1, <3>1
    <3> QED
      BY <2>1, <3>1, <3>2
  <2> QED
    BY <2>2, <2>3
<1>11. e[1] # s => bucket'[e] = bucket[e]
  BY <1>1, <1>4
<1> HIDE DEF left, own, b
<1>12. own = <<s, k>>
  BY DEF own
<1> QED
  BY <1>8, <1>9, <1>10, <1>11, <1>12

(* A store has never more buckets than it may.                             *)
LEMMA TakeFits ==
    ASSUME LimitsInv, NEW s \in Stores, NEW k, NEW granted, Take(s, k, granted),
           <<s, k>> \in Entries, NEW r \in Stores
    PROVE  /\ IsFiniteSet(Held(bucket', r))
           /\ Cardinality(Held(bucket', r)) <= MaxEntries
<1> DEFINE left == Cleaned(s, k)
<1>1. /\ IsFiniteSet(Held(bucket, r)) /\ Cardinality(Held(bucket, r)) <= MaxEntries
      /\ MaxEntries \in Nat
  BY LimitsAssumption DEF LimitsInv, StoresOK
<1>2. ASSUME NEW h \in Keys, left[<<r, h>>] # Absent PROVE bucket[<<r, h>>] # Absent
  BY <1>2 DEF Cleaned, Entries
<1>3. Held(left, r) \in SUBSET Held(bucket, r)
  BY <1>2 DEF Held
<1>4. IsFiniteSet(Held(left, r)) /\ Cardinality(Held(left, r)) <= Cardinality(Held(bucket, r))
  BY <1>1, <1>3, FS_Subset
<1>5. /\ Cardinality(Held(left, r)) \in Nat /\ Cardinality(Held(bucket, r)) \in Nat
  BY <1>1, <1>4, FS_CardinalityType
<1>6. \/ bucket' = left
      \/ \E b : /\ bucket' = [left EXCEPT ![<<s, k>>] = b]
                /\ left[<<s, k>>] # Absent \/ ~(Cardinality(Held(left, s)) >= MaxEntries)
  BY DEF Take
<1>7. DOMAIN left = Entries
  BY DEF Cleaned
<1>8. CASE bucket' = left
  BY <1>1, <1>4, <1>5, <1>8
<1>9. ASSUME NEW b, bucket' = [left EXCEPT ![<<s, k>>] = b],
             left[<<s, k>>] # Absent \/ ~(Cardinality(Held(left, s)) >= MaxEntries)
      PROVE  /\ IsFiniteSet(Held(bucket', r))
             /\ Cardinality(Held(bucket', r)) <= MaxEntries
  <2> DEFINE new == Held(bucket', r)
             old == Held(left, r)
  <2>1. r # s \/ left[<<s, k>>] # Absent => new \in SUBSET old
    BY <1>7, <1>9 DEF Held, Entries
  <2>2. r = s => new \in SUBSET (old \cup {k})
    BY <1>7, <1>9 DEF Held, Entries
  <2>3. /\ IsFiniteSet(old \cup {k})
        /\ Cardinality(old \cup {k}) <= Cardinality(old) + 1
    <3>1. IsFiniteSet(old) /\ Cardinality(old) \in Nat
      BY <1>4, <1>5
    <3> HIDE DEF old
    <3>2. /\ IsFiniteSet(old \cup {k})
          /\ Cardinality(old \cup {k}) =
                IF k \in old THEN Cardinality(old) ELSE Cardinality(old) + 1
      BY <3>1, FS_AddElement
    <3> QED
      BY <3>1, <3>2
  <2>4. CASE new \in SUBSET old
    <3>1. IsFiniteSet(new) /\ Cardinality(new) <= Cardinality(old)
      BY <1>4, <2>4, FS_Subset
    <3> QED
      BY <1>1, <1>4, <1>5, <3>1, FS_CardinalityType
  <2>5. CASE r = s /\ left[<<s, k>>] = Absent
    <3>1. IsFiniteSet(new) /\ Cardinality(new) <= Cardinality(old \cup {k})
      BY <2>2, <2>3, <2>5, FS_Subset
    <3>2. Cardinality(new) \in Nat /\ Cardinality(old \cup {k}) \in Nat
      BY <2>3, <3>1, FS_CardinalityType
    <3>3. ~(Cardinality(old) >= MaxEntries)
      BY <1>9, <2>5
    <3> QED
      BY <1>1, <1>5, <2>3, <3>1, <3>2, <3>3
  <2> QED
    BY <2>1, <2>4, <2>5
<1> QED
  BY <1>6, <1>8, <1>9

-----------------------------------------------------------------------------
(* What a step does to the bucket and the tickets of an account.           *)
Own(m) == <<"account", m>>

Ticket(r) == <<r.since, r.born, r.back, r.at = "done">>

SameTickets(m, except) ==
    \A a \in Reserved(m) \ except : a \in Reserved(m)' /\ Ticket(attempt'[a]) = Ticket(attempt[a])

(* No ticket is given out or given back.                                   *)
Quiet(m) ==
    /\ clock' = clock
    /\ Reserved(m)' = Reserved(m) /\ SameTickets(m, {})
    /\ \/ Rests(Own(m))
       \/ bucket[Own(m)] # Absent /\ bucket'[Own(m)] = Refilled("account", bucket[Own(m)])

Spends(m, a) ==
    /\ clock' = clock
    /\ a \in Attempts \ Reserved(m)
    /\ Reserved(m)' = Reserved(m) \cup {a} /\ SameTickets(m, {})
    /\ Ticket(attempt'[a]) = <<clock, bucket'[Own(m)].born, MaxClock + 1, FALSE>>
    /\ \/ /\ bucket[Own(m)] = Absent \/ bucket[Own(m)].expires <= clock
          /\ bucket'[Own(m)] = Spend("account", NewBucket("account"))
       \/ /\ bucket[Own(m)] # Absent
          /\ Period["account"] <= Refilled("account", bucket[Own(m)]).tokens
          /\ bucket'[Own(m)] = Spend("account", Refilled("account", bucket[Own(m)]))

(* A refund, into the bucket the token is from or into none.               *)
Pays(m, a) ==
    /\ clock' = clock
    /\ a \in Reserved(m) /\ attempt[a].at = "refund"
    /\ Reserved(m)' = Reserved(m) /\ SameTickets(m, {a})
    /\ \/ /\ bucket[Own(m)] # Absent /\ bucket[Own(m)].born = attempt[a].born
          /\ bucket'[Own(m)] = Regained(bucket[Own(m)])
          /\ Ticket(attempt'[a]) = <<attempt[a].since, attempt[a].born, clock, TRUE>>
       \/ /\ bucket[Own(m)] = Absent \/ bucket[Own(m)].born # attempt[a].born
          /\ bucket'[Own(m)] = bucket[Own(m)]
          /\ Ticket(attempt'[a]) = <<attempt[a].since, attempt[a].born, attempt[a].back, TRUE>>

Ticks(m) ==
    /\ clock' \in {clock, clock + 1} /\ UNCHANGED <<bucket, attempt>>

LEMMA OwnEntry ==
    ASSUME NEW m \in Emails
    PROVE  /\ Own(m) \in Entries /\ "account" \in Stores
           /\ Own(m)[1] = "account" /\ Own(m)[2] = m
BY DEF Own, Entries, Keys, Stores

LEMMA ReservedIs ==
    ASSUME LimitsTypeOK, NEW m \in Emails
    PROVE  /\ Reserved(m) = {a \in Attempts : attempt[a] \in Logins /\ attempt[a].email = m}
           /\ Reserved(m) = {a \in Attempts :
                 /\ attempt[a].at \in {"lookup", "hash", "refund", "failed", "done"}
                 /\ attempt[a].email = m}
<1>1. ASSUME NEW a \in Attempts
      PROVE  /\ "since" \in DOMAIN attempt[a] <=> attempt[a] \in Logins
             /\ attempt[a].at \in {"lookup", "hash", "refund", "failed", "done"} <=> attempt[a] \in Logins
  BY AttemptShapes DEF LimitsTypeOK
<1> QED
  BY <1>1 DEF Reserved

(* One attempt moves on, the others stay as they are.                      *)
LEMMA OneAttemptMoves ==
    ASSUME LimitsTypeOK, NEW a \in Attempts, NEW r \in {Fresh} \cup Logins \cup Others,
           attempt' = [attempt EXCEPT ![a] = r], NEW m \in Emails
    PROVE  /\ attempt' \in [Attempts -> {Fresh} \cup Logins \cup Others]
           /\ attempt'[a] = r /\ \A b \in Attempts \ {a} : attempt'[b] = attempt[b]
           /\ Reserved(m)' = (Reserved(m) \ {a}) \cup
                                (IF r \in Logins /\ r.email = m THEN {a} ELSE {})
<1>1. /\ attempt' \in [Attempts -> {Fresh} \cup Logins \cup Others]
      /\ attempt'[a] = r /\ \A b \in Attempts \ {a} : attempt'[b] = attempt[b]
  BY DEF LimitsTypeOK
<1>2. "since" \in DOMAIN r <=> r \in Logins
  BY AttemptShapes
<1>3. Reserved(m)' = (Reserved(m) \ {a}) \cup
                        (IF "since" \in DOMAIN r /\ r.email = m THEN {a} ELSE {})
  BY <1>1 DEF Reserved
<1> QED
  BY <1>1, <1>2, <1>3

(* Its tickets are as before if it holds none, or the same.                *)
LEMMA TicketKept ==
    ASSUME LimitsTypeOK, NEW a \in Attempts, NEW r \in {Fresh} \cup Logins \cup Others,
           attempt' = [attempt EXCEPT ![a] = r], NEW m \in Emails,
           a \in Reserved(m) => /\ r \in Logins /\ r.email = m
                                /\ Ticket(r) = Ticket(attempt[a]),
           a \notin Reserved(m) => r \notin Logins \/ r.email # m
    PROVE  Reserved(m)' = Reserved(m) /\ SameTickets(m, {})
<1>1. /\ attempt'[a] = r /\ \A b \in Attempts \ {a} : attempt'[b] = attempt[b]
      /\ Reserved(m)' = (Reserved(m) \ {a}) \cup
                           (IF r \in Logins /\ r.email = m THEN {a} ELSE {})
  BY OneAttemptMoves
<1>2. Reserved(m)' = Reserved(m) /\ Reserved(m) \subseteq Attempts
  BY <1>1 DEF Reserved
<1>3. ASSUME NEW b \in Reserved(m) PROVE Ticket(attempt'[b]) = Ticket(attempt[b])
  BY <1>1, <1>2
<1> QED
  BY <1>2, <1>3 DEF SameTickets

LEMMA TakeElsewhere ==
    ASSUME LimitsInv, NEW s \in Stores \ {"account"}, NEW k, NEW granted,
           Take(s, k, granted), <<s, k>> \in Entries, NEW m \in Emails
    PROVE  Rests(Own(m))
<1>1. Own(m) \in Entries /\ Own(m)[1] # s
  BY OwnEntry
<1> QED
  BY <1>1, TakeEffect DEF LimitsInv, Rests

LEMMA LoginQuiet ==
    ASSUME LimitsInv, NEW a \in Attempts, NEW ip \in Addresses, NEW n \in Emails,
           LoginFrom(a, ip, n), NEW m \in Emails
    PROVE  Quiet(m)
<1>1. PICK granted \in BOOLEAN, valid \in BOOLEAN :
         /\ Take("login", ip, granted)
         /\ attempt' = [attempt EXCEPT ![a] =
               IF granted /\ valid THEN [at |-> "account", email |-> n] ELSE [at |-> "ended"]]
  BY DEF LoginFrom
<1> DEFINE r == IF granted /\ valid THEN [at |-> "account", email |-> n] ELSE [at |-> "ended"]
<1>2. r \in Others /\ r \notin Logins /\ attempt' = [attempt EXCEPT ![a] = r]
  BY <1>1 DEF Others, Logins
<1>3. a \notin Reserved(m)
  BY DEF LoginFrom, Fresh, Reserved
<1>4. Reserved(m)' = Reserved(m) /\ SameTickets(m, {})
  <2> HIDE DEF r
  <2> QED
    BY <1>2, <1>3, TicketKept DEF LimitsInv
<1>5. "login" \in Stores \ {"account"} /\ <<"login", ip>> \in Entries
  BY DEF Stores, Entries, Keys
<1>6. Rests(Own(m))
  BY <1>1, <1>5, TakeElsewhere
<1> QED
  BY <1>4, <1>6 DEF Quiet, LoginFrom

LEMMA RegisterQuiet ==
    ASSUME LimitsInv, NEW a \in Attempts, NEW ip \in Addresses,
           RegisterFrom(a, ip), NEW m \in Emails
    PROVE  Quiet(m)
<1>1. PICK granted \in BOOLEAN :
         /\ Take("register", ip, granted)
         /\ attempt' = [attempt EXCEPT ![a] = [at |-> IF granted THEN "register" ELSE "ended"]]
  BY DEF RegisterFrom
<1> DEFINE r == [at |-> IF granted THEN "register" ELSE "ended"]
<1>2. r \in Others /\ r \notin Logins /\ attempt' = [attempt EXCEPT ![a] = r]
  BY <1>1 DEF Others, Logins
<1>3. a \notin Reserved(m)
  BY DEF RegisterFrom, Fresh, Reserved
<1>4. Reserved(m)' = Reserved(m) /\ SameTickets(m, {})
  <2> HIDE DEF r
  <2> QED
    BY <1>2, <1>3, TicketKept DEF LimitsInv
<1>5. "register" \in Stores \ {"account"} /\ <<"register", ip>> \in Entries
  BY DEF Stores, Entries, Keys
<1>6. Rests(Own(m))
  BY <1>1, <1>5, TakeElsewhere
<1> QED
  BY <1>4, <1>6 DEF Quiet, RegisterFrom

(* Looking, hashing and failing change no ticket.                          *)
LEMMA GoesQuiet ==
    ASSUME LimitsInv, NEW a \in Attempts, NEW to, Goes(a, to), NEW m \in Emails,
           \/ /\ attempt[a].at \in {"lookup", "hash"}
              /\ to \in {"hash", "refund", "failed"}
           \/ /\ attempt[a].at \in {"register", "encode"}
              /\ to \in {"encode", "ended"}
    PROVE  Quiet(m)
<1> DEFINE old == attempt[a]
           r   == [attempt[a] EXCEPT !.at = to]
<1>1. LimitsTypeOK /\ old \in {Fresh} \cup Logins \cup Others
  BY DEF LimitsInv, LimitsTypeOK
<1>2. attempt' = [attempt EXCEPT ![a] = r]
  BY DEF Goes
<1>3. CASE old.at \in {"lookup", "hash"} /\ to \in {"hash", "refund", "failed"}
  <2>1. old \in Logins
    BY <1>1, <1>3, AttemptShapes
  <2>2. r \in Logins /\ r.email = old.email /\ Ticket(r) = Ticket(old)
    BY <1>3, <2>1 DEF Logins, Ticket
  <2>3. a \in Reserved(m) <=> old.email = m
    BY <1>1, <2>1, ReservedIs
  <2>4. Reserved(m)' = Reserved(m) /\ SameTickets(m, {})
    <3> HIDE DEF r
    <3> QED
      BY <1>1, <1>2, <2>2, <2>3, TicketKept
  <2> QED
    BY <2>4 DEF Goes, Quiet, Rests
<1>4. CASE old.at \in {"register", "encode"} /\ to \in {"encode", "ended"}
  <2>1. old \in [at: {"register", "encode", "ended"}] /\ old \notin Logins
    BY <1>1, <1>4, AttemptShapes
  <2>2. r \in Others /\ r \notin Logins
    BY <1>4, <2>1 DEF Others, Logins
  <2>3. a \notin Reserved(m)
    BY <1>1, <2>1, ReservedIs
  <2>4. Reserved(m)' = Reserved(m) /\ SameTickets(m, {})
    <3> HIDE DEF r
    <3> QED
      BY <1>1, <1>2, <2>2, <2>3, TicketKept
  <2> QED
    BY <2>4 DEF Goes, Quiet, Rests
<1> QED
  BY <1>3, <1>4

LEMMA GoesTyped ==
    ASSUME LimitsInv, NEW a \in Attempts, NEW to, Goes(a, to),
           \/ /\ attempt[a].at \in {"lookup", "hash"}
              /\ to \in {"hash", "refund", "failed"}
           \/ /\ attempt[a].at \in {"register", "encode"}
              /\ to \in {"encode", "ended"}
    PROVE  attempt' \in [Attempts -> {Fresh} \cup Logins \cup Others]
<1> DEFINE r == [attempt[a] EXCEPT !.at = to]
<1>1. /\ attempt \in [Attempts -> {Fresh} \cup Logins \cup Others]
      /\ attempt[a] \in {Fresh} \cup Logins \cup Others
  BY DEF LimitsInv, LimitsTypeOK
<1>2. attempt' = [attempt EXCEPT ![a] = r]
  BY DEF Goes
<1>3. r \in Logins \cup Others
  <2>1. CASE attempt[a].at \in {"lookup", "hash"} /\ to \in {"hash", "refund", "failed"}
    <3>1. attempt[a] \in Logins
      BY <1>1, <2>1, AttemptShapes
    <3> QED
      BY <2>1, <3>1 DEF Logins
  <2>2. CASE attempt[a].at \in {"register", "encode"} /\ to \in {"encode", "ended"}
    <3>1. attempt[a] \in [at: {"register", "encode", "ended"}]
      BY <1>1, <2>2, AttemptShapes
    <3> QED
      BY <2>2, <3>1 DEF Others
  <2> QED
    BY <2>1, <2>2
<1> HIDE DEF r
<1> QED
  BY <1>1, <1>2, <1>3

LEMMA ReserveKinds ==
    ASSUME LimitsInv, NEW a \in Attempts, Reserve(a), NEW m \in Emails
    PROVE  /\ attempt' \in [Attempts -> {Fresh} \cup Logins \cup Others]
           /\ Quiet(m) \/ Spends(m, a)
<1> DEFINE n == attempt[a].email
<1>1. LimitsTypeOK /\ attempt[a] \in {Fresh} \cup Logins \cup Others /\ attempt[a].at = "account"
  BY DEF LimitsInv, LimitsTypeOK, Reserve
<1>2. attempt[a] \in [at: {"account"}, email: Emails]
  BY <1>1, AttemptShapes
<1>3. n \in Emails /\ a \notin Reserved(m)
  BY <1>2 DEF Reserved
<1>4. PICK granted \in BOOLEAN :
         /\ Take("account", n, granted)
         /\ attempt' = [attempt EXCEPT ![a] =
               IF granted
               THEN [at |-> "lookup", email |-> n, since |-> clock,
                     born |-> bucket'[<<"account", n>>].born, back |-> MaxClock + 1]
               ELSE [at |-> "ended"]]
  BY DEF Reserve
<1>5. Own(n) \in Entries /\ Own(n) = <<"account", n>> /\ "account" \in Stores
  BY <1>3, OwnEntry DEF Own
<1>6. /\ Own(m) \in Entries /\ (Own(m) = Own(n) <=> m = n)
  BY OwnEntry DEF Own
<1>7. clock' = clock
  BY DEF Reserve
<1>8. CASE ~granted
  <2> DEFINE r == [at |-> "ended"]
  <2>1. r \in Others /\ r \notin Logins /\ attempt' = [attempt EXCEPT ![a] = r]
    BY <1>4, <1>8 DEF Others, Logins
  <2>2. Reserved(m)' = Reserved(m) /\ SameTickets(m, {})
    <3> HIDE DEF r
    <3> QED
      BY <1>1, <1>3, <2>1, TicketKept
  <2>3. \/ Rests(Own(m))
        \/ bucket[Own(m)] # Absent /\ bucket'[Own(m)] = Refilled("account", bucket[Own(m)])
    BY <1>4, <1>5, <1>6, <1>8, TakeEffect DEF LimitsInv
  <2>4. attempt' \in [Attempts -> {Fresh} \cup Logins \cup Others]
    <3> HIDE DEF r
    <3> QED
      BY <1>1, <2>1, OneAttemptMoves
  <2> QED
    BY <1>7, <2>2, <2>3, <2>4 DEF Quiet
<1>9. CASE granted
  <2> DEFINE r == [at |-> "lookup", email |-> n, since |-> clock,
                   born |-> bucket'[Own(n)].born, back |-> MaxClock + 1]
  <2>1. attempt' = [attempt EXCEPT ![a] = r]
    BY <1>4, <1>5, <1>9
  <2>2. bucket'[Own(n)].born \in 0..MaxClock
    <3>1. \/ bucket'[Own(n)] = Spend("account", NewBucket("account"))
          \/ /\ bucket[Own(n)] # Absent
             /\ bucket'[Own(n)] = Spend("account", Refilled("account", bucket[Own(n)]))
      BY <1>4, <1>5, <1>9, TakeEffect DEF LimitsInv
    <3>2. clock \in 0..MaxClock
      BY <1>1 DEF LimitsTypeOK
    <3>3. bucket[Own(n)] # Absent => bucket[Own(n)] \in Buckets
      BY <1>1, <1>5 DEF LimitsTypeOK
    <3> QED
      BY <3>1, <3>2, <3>3 DEF Spend, NewBucket, Refilled, Buckets
  <2>3. r \in Logins /\ r.email = n
    <3>1. clock \in 0..MaxClock /\ MaxClock \in Nat
      BY <1>1, LimitsAssumption DEF LimitsTypeOK
    <3> QED
      BY <1>3, <2>2, <3>1 DEF Logins
  <2>4. Ticket(r) = <<clock, bucket'[Own(n)].born, MaxClock + 1, FALSE>>
    BY DEF Ticket
  <2>5. attempt' \in [Attempts -> {Fresh} \cup Logins \cup Others]
    <3> HIDE DEF r
    <3> QED
      BY <1>1, <2>1, <2>3, OneAttemptMoves
  <2>6. CASE m # n
    <3>1. Reserved(m)' = Reserved(m) /\ SameTickets(m, {})
      <4> HIDE DEF r
      <4> QED
        BY <1>1, <1>3, <2>1, <2>3, <2>6, TicketKept
    <3>2. Rests(Own(m))
      BY <1>4, <1>5, <1>6, <2>6, TakeEffect DEF LimitsInv
    <3> QED
      BY <1>7, <2>5, <3>1, <3>2 DEF Quiet
  <2>7. CASE m = n
    <3>1. /\ attempt'[a] = r /\ \A b \in Attempts \ {a} : attempt'[b] = attempt[b]
          /\ Reserved(m)' = (Reserved(m) \ {a}) \cup {a}
      <4> HIDE DEF r
      <4>1. /\ attempt'[a] = r /\ \A b \in Attempts \ {a} : attempt'[b] = attempt[b]
            /\ Reserved(m)' = (Reserved(m) \ {a}) \cup
                                 (IF r \in Logins /\ r.email = m THEN {a} ELSE {})
        BY <1>1, <2>1, <2>3, OneAttemptMoves
      <4> QED
        BY <2>3, <2>7, <4>1
    <3>2. Reserved(m)' = Reserved(m) \cup {a}
      BY <1>3, <3>1
    <3>3. SameTickets(m, {})
      <4> HIDE DEF r
      <4> QED
        BY <1>3, <3>1, <3>2 DEF SameTickets, Reserved
    <3>4. Ticket(attempt'[a]) = <<clock, bucket'[Own(m)].born, MaxClock + 1, FALSE>>
      BY <2>4, <2>7, <3>1
    <3>5. \/ /\ bucket[Own(m)] = Absent \/ bucket[Own(m)].expires <= clock
             /\ bucket'[Own(m)] = Spend("account", NewBucket("account"))
          \/ /\ bucket[Own(m)] # Absent
             /\ Period["account"] <= Refilled("account", bucket[Own(m)]).tokens
             /\ bucket'[Own(m)] = Spend("account", Refilled("account", bucket[Own(m)]))
      BY <1>4, <1>5, <1>9, <2>7, TakeEffect DEF LimitsInv
    <3> QED
      BY <1>3, <1>7, <2>5, <3>2, <3>3, <3>4, <3>5 DEF Spends
  <2> QED
    BY <2>6, <2>7
<1> QED
  BY <1>8, <1>9

LEMMA RefundKinds ==
    ASSUME LimitsInv, NEW a \in Attempts, Refund(a), NEW m \in Emails
    PROVE  /\ attempt' \in [Attempts -> {Fresh} \cup Logins \cup Others]
           /\ Quiet(m) \/ Pays(m, a)
<1> DEFINE n    == attempt[a].email
           same == bucket[Own(n)] # Absent /\ bucket[Own(n)].born = attempt[a].born
           r    == [attempt[a] EXCEPT !.at = "done", !.back = IF same THEN clock ELSE @]
<1>1. LimitsTypeOK /\ attempt[a] \in {Fresh} \cup Logins \cup Others /\ attempt[a].at = "refund"
  BY DEF LimitsInv, LimitsTypeOK, Refund
<1>2. attempt[a] \in Logins
  BY <1>1, AttemptShapes
<1>3. n \in Emails /\ (a \in Reserved(m) <=> n = m)
  BY <1>1, <1>2, ReservedIs DEF Logins
<1>4. /\ bucket' = IF ~same THEN bucket ELSE [bucket EXCEPT ![Own(n)] = Regained(@)]
      /\ attempt' = [attempt EXCEPT ![a] = r]
      /\ clock' = clock
  <2>1. attempt' = [attempt EXCEPT ![a] = r]
    <3>1. CASE same
      BY <3>1 DEF Refund, Own
    <3>2. CASE ~same
      BY <3>2 DEF Refund, Own
    <3> QED
      BY <3>1, <3>2
  <2>2. bucket' = IF ~same THEN bucket ELSE [bucket EXCEPT ![Own(n)] = Regained(@)]
    BY DEF Refund, Own
  <2> QED
    BY <2>1, <2>2 DEF Refund
<1>5. clock \in 0..MaxClock /\ MaxClock \in Nat
  BY <1>1, LimitsAssumption DEF LimitsTypeOK
<1>6. /\ r \in Logins /\ r.email = n
      /\ Ticket(r) = <<attempt[a].since, attempt[a].born,
                       IF same THEN clock ELSE attempt[a].back, TRUE>>
  <2>1. clock \in 0..(MaxClock + 1)
    BY <1>5
  <2> HIDE DEF same
  <2> QED
    BY <1>2, <2>1 DEF Logins, Ticket
<1>7. /\ attempt' \in [Attempts -> {Fresh} \cup Logins \cup Others]
      /\ attempt'[a] = r /\ \A b \in Attempts \ {a} : attempt'[b] = attempt[b]
      /\ Reserved(m)' = (Reserved(m) \ {a}) \cup (IF r \in Logins /\ r.email = m THEN {a} ELSE {})
  <2> HIDE DEF r
  <2> QED
    BY <1>1, <1>4, <1>6, OneAttemptMoves
<1>8. Reserved(m)' = Reserved(m) /\ SameTickets(m, {a})
  <2> HIDE DEF r
  <2> QED
    BY <1>3, <1>6, <1>7 DEF SameTickets, Reserved
<1>9. DOMAIN bucket = Entries /\ Own(n) \in Entries /\ Own(m) \in Entries
      /\ (Own(m) = Own(n) <=> m = n)
  BY <1>1, <1>3, OwnEntry DEF LimitsTypeOK, Own
<1>10. CASE m # n
  <2>1. bucket'[Own(m)] = bucket[Own(m)]
    BY <1>4, <1>9, <1>10
  <2>2. SameTickets(m, {})
    BY <1>3, <1>8, <1>10 DEF SameTickets
  <2> QED
    BY <1>4, <1>7, <1>8, <2>1, <2>2 DEF Quiet, Rests
<1>11. CASE m = n
  <2>1. CASE same
    <3>1. bucket'[Own(m)] = Regained(bucket[Own(m)])
      BY <1>4, <1>9, <1>11, <2>1
    <3>2. Ticket(attempt'[a]) = <<attempt[a].since, attempt[a].born, clock, TRUE>>
      BY <1>6, <1>7, <2>1
    <3> QED
      BY <1>1, <1>3, <1>4, <1>7, <1>8, <1>11, <2>1, <3>1, <3>2 DEF Pays
  <2>2. CASE ~same
    <3>1. bucket'[Own(m)] = bucket[Own(m)]
      BY <1>4, <2>2
    <3>2. Ticket(attempt'[a]) = <<attempt[a].since, attempt[a].born, attempt[a].back, TRUE>>
      BY <1>6, <1>7, <2>2
    <3> QED
      BY <1>1, <1>3, <1>4, <1>7, <1>8, <1>11, <2>2, <3>1, <3>2 DEF Pays
  <2> QED
    BY <2>1, <2>2
<1> QED
  BY <1>7, <1>10, <1>11

LEMMA StepKinds ==
    ASSUME LimitsInv, [LimitsNext]_limitVars, NEW m \in Emails
    PROVE  \/ Quiet(m) \/ Ticks(m)
           \/ \E a \in Attempts : Spends(m, a) \/ Pays(m, a)
<1>1. ASSUME NEW a \in Attempts, Find(a) \/ Verify(a) \/ Encode(a) \/ Encoded(a) PROVE Quiet(m)
  <2>1. CASE Find(a) \/ Verify(a)
    BY <2>1, GoesQuiet DEF Find, Verify
  <2>2. CASE Encode(a) \/ Encoded(a)
    BY <2>2, GoesQuiet DEF Encode, Encoded
  <2> QED
    BY <1>1, <2>1, <2>2
<1>2. CASE Pass \/ UNCHANGED limitVars
  BY <1>2 DEF Pass, limitVars, Ticks
<1> QED
  BY <1>1, <1>2, LoginQuiet, RegisterQuiet, ReserveKinds, RefundKinds DEF LimitsNext

-----------------------------------------------------------------------------
LEMMA StoresKept ==
    ASSUME LimitsInv, UNCHANGED <<bucket, sweepAt>>, clock' \in {clock, clock + 1}
    PROVE  StoresOK'
<1>1. clock \in Nat /\ \A e \in Entries : bucket[e] # Absent => bucket[e].born \in Nat
  BY DEF LimitsInv, BucketInv
<1> QED
  BY <1>1 DEF LimitsInv, LimitsTypeOK, StoresOK, Held

LEMMA TakeKeepsStores ==
    ASSUME LimitsInv, NEW s \in Stores, NEW k, NEW granted, Take(s, k, granted),
           <<s, k>> \in Entries, clock' = clock
    PROVE  StoresOK'
<1>1. clock \in Nat /\ BucketInv /\ Second \in Nat
  BY LimitsAssumption DEF LimitsInv, BucketInv
<1>2. ASSUME NEW e \in Entries, bucket'[e] # Absent PROVE bucket'[e].born <= clock
  <2>1. bucket[e] # Absent => bucket[e].born <= clock /\ Sound(e[1], bucket[e])
    BY DEF LimitsInv, BucketInv, StoresOK
  <2>2. CASE Rests(e)
    BY <1>2, <2>1, <2>2 DEF Rests, Dropped
  <2>3. CASE ~Rests(e)
    <3>1. e = <<s, k>> /\ e[1] = s
      BY <1>1, <2>3, TakeEffect
    <3>2. \/ bucket'[e] = Spend(s, NewBucket(s))
          \/ /\ bucket[e] # Absent
             /\ bucket'[e] \in {Refilled(s, bucket[e]), Spend(s, Refilled(s, bucket[e]))}
      BY <1>1, <2>3, <3>1, TakeEffect
    <3>3. Spend(s, NewBucket(s)).born = clock
      BY DEF Spend, NewBucket
    <3>4. bucket[e] # Absent =>
             /\ Refilled(s, bucket[e]).born = bucket[e].born
             /\ Spend(s, Refilled(s, bucket[e])).born = bucket[e].born
      <4> SUFFICES ASSUME bucket[e] # Absent
                   PROVE  /\ Refilled(s, bucket[e]).born = bucket[e].born
                          /\ Spend(s, Refilled(s, bucket[e])).born = bucket[e].born
        OBVIOUS
      <4>1. bucket[e] \in [tokens: Nat, updated: Nat, expires: Nat, born: Nat]
        BY <2>1 DEF Sound
      <4> QED
        BY <4>1 DEF Spend, Refilled
    <3> QED
      BY <1>1, <2>1, <3>2, <3>3, <3>4
  <2> QED
    BY <2>2, <2>3
<1>3. sweepAt' \in [Stores -> Nat]
  BY <1>1 DEF LimitsInv, LimitsTypeOK, Take
<1>4. \A r \in Stores : IsFiniteSet(Held(bucket', r)) /\ Cardinality(Held(bucket', r)) <= MaxEntries
  BY TakeFits
<1> QED
  BY <1>2, <1>3, <1>4 DEF StoresOK, Held

LEMMA RefundKeepsStores ==
    ASSUME LimitsInv, NEW a \in Attempts, Refund(a)
    PROVE  StoresOK'
<1> DEFINE own == <<"account", attempt[a].email>>
<1>1. /\ clock \in Nat /\ bucket = [e \in Entries |-> bucket[e]]
      /\ \A e \in Entries : bucket[e] # Absent => Sound(e[1], bucket[e]) /\ bucket[e].born <= clock
  BY DEF LimitsInv, BucketInv, StoresOK
<1>2. bucket' = bucket \/ (bucket[own] # Absent /\ bucket' = [bucket EXCEPT ![own] = Regained(bucket[own])])
  BY DEF Refund
<1>3. clock' = clock /\ sweepAt' = sweepAt
  BY DEF Refund
<1>4. ASSUME NEW e \in Entries
      PROVE  /\ bucket'[e] # Absent <=> bucket[e] # Absent
             /\ bucket'[e] # Absent => bucket'[e].born <= clock
  <2>1. bucket'[e] = bucket[e] \/ (e = own /\ bucket[e] # Absent /\ bucket'[e] = Regained(bucket[own]))
    BY <1>1, <1>2
  <2>2. CASE bucket'[e] = bucket[e]
    BY <1>1, <2>2
  <2>3. CASE e = own /\ bucket[e] # Absent /\ bucket'[e] = Regained(bucket[own])
    <3>1. "account" \in Stores /\ Sound("account", bucket[own])
      BY <1>1, <2>3 DEF Stores
    <3>2. /\ Sound("account", Refilled("account", bucket[own]))
          /\ Refilled("account", bucket[own]).born = bucket[own].born
      BY <1>1, <3>1, RefillSound
    <3>3. /\ Sound("account", Regained(bucket[own]))
          /\ Regained(bucket[own]).born = bucket[own].born
      BY <1>1, <3>1, <3>2, RefundSound DEF Regained
    <3>4. Regained(bucket[own]) # Absent
      BY <3>3, LimitsAssumption DEF Sound
    <3> QED
      BY <1>1, <2>3, <3>3, <3>4
  <2> QED
    BY <2>1, <2>2, <2>3
<1>5. ASSUME NEW s \in Stores PROVE Held(bucket', s) = Held(bucket, s)
  BY <1>4 DEF Held, Entries
<1>6. \A s \in Stores : IsFiniteSet(Held(bucket, s)) /\ Cardinality(Held(bucket, s)) <= MaxEntries
  BY DEF LimitsInv, StoresOK
<1>7. \A s \in Stores : IsFiniteSet(Held(bucket', s)) /\ Cardinality(Held(bucket', s)) <= MaxEntries
  BY <1>5, <1>6
<1> QED
  BY <1>3, <1>4, <1>7 DEF StoresOK, Held, LimitsInv, LimitsTypeOK

LEMMA TicketsKept ==
    ASSUME LimitsInv, [LimitsNext]_limitVars, NEW m \in Emails
    PROVE  TicketsOK(m)'
<1> DEFINE Good(r) == r.since <= clock' /\ (r.at = "done" \/ r.back = MaxClock + 1)
<1>1. /\ clock \in Nat /\ IsFiniteSet(Reserved(m)) /\ TicketsOK(m)
      /\ \A a \in Reserved(m) : attempt[a].since \in Nat
  <2>1. \A a \in Reserved(m) : attempt[a] \in Logins
    BY ReservedIs DEF LimitsInv
  <2>2. \A r \in Logins : r.since \in Nat
    BY DEF Logins
  <2> QED
    BY <2>1, <2>2 DEF LimitsInv, BucketInv, TicketsOK
<1>2. ASSUME NEW a \in Reserved(m), NEW r, Ticket(r) = Ticket(attempt[a]), clock' \in {clock, clock + 1}
      PROVE  Good(r)
  BY <1>1, <1>2 DEF Ticket, TicketsOK
<1>3. CASE Quiet(m)
  BY <1>1, <1>2, <1>3 DEF Quiet, SameTickets, TicketsOK
<1>4. CASE Ticks(m)
  BY <1>1, <1>2, <1>4 DEF Ticks, Reserved, TicketsOK
<1>5. ASSUME NEW a \in Attempts, Spends(m, a) PROVE TicketsOK(m)'
  <2>1. IsFiniteSet(Reserved(m)')
    BY <1>1, <1>5, FS_AddElement DEF Spends
  <2>2. Good(attempt'[a])
    BY <1>1, <1>5 DEF Spends, Ticket
  <2>3. \A b \in Reserved(m) : Good(attempt'[b])
    BY <1>2, <1>5 DEF Spends, SameTickets
  <2> QED
    BY <1>5, <2>1, <2>2, <2>3 DEF Spends, TicketsOK
<1>6. ASSUME NEW a \in Attempts, Pays(m, a) PROVE TicketsOK(m)'
  <2>1. Good(attempt'[a])
    BY <1>1, <1>6 DEF Pays, Ticket, TicketsOK
  <2>2. \A b \in Reserved(m) \ {a} : Good(attempt'[b])
    BY <1>2, <1>6 DEF Pays, SameTickets
  <2> QED
    BY <1>1, <1>6, <2>1, <2>2 DEF Pays, TicketsOK
<1> QED
  BY <1>3, <1>4, <1>5, <1>6, StepKinds

LEMMA AttemptsTyped ==
    ASSUME LimitsInv, [LimitsNext]_limitVars
    PROVE  attempt' \in [Attempts -> {Fresh} \cup Logins \cup Others]
<1> DEFINE Typed == attempt' \in [Attempts -> {Fresh} \cup Logins \cup Others]
<1>1. LimitsTypeOK /\ attempt \in [Attempts -> {Fresh} \cup Logins \cup Others]
  BY DEF LimitsInv, LimitsTypeOK
<1>2. ASSUME NEW a \in Attempts, NEW r \in Others, attempt' = [attempt EXCEPT ![a] = r]
      PROVE  Typed
  BY <1>1, <1>2
<1>3. ASSUME NEW a \in Attempts, NEW ip \in Addresses, NEW n \in Emails, LoginFrom(a, ip, n)
      PROVE  Typed
  <2>1. PICK granted \in BOOLEAN, valid \in BOOLEAN :
           attempt' = [attempt EXCEPT ![a] =
              IF granted /\ valid THEN [at |-> "account", email |-> n] ELSE [at |-> "ended"]]
    BY <1>3 DEF LoginFrom
  <2> DEFINE r == IF granted /\ valid THEN [at |-> "account", email |-> n] ELSE [at |-> "ended"]
  <2>2. r \in Others /\ attempt' = [attempt EXCEPT ![a] = r]
    BY <2>1 DEF Others
  <2> HIDE DEF r
  <2> QED
    BY <1>2, <2>2
<1>4. ASSUME NEW a \in Attempts, NEW ip \in Addresses, RegisterFrom(a, ip) PROVE Typed
  <2>1. PICK granted \in BOOLEAN :
           attempt' = [attempt EXCEPT ![a] = [at |-> IF granted THEN "register" ELSE "ended"]]
    BY <1>4 DEF RegisterFrom
  <2> DEFINE r == [at |-> IF granted THEN "register" ELSE "ended"]
  <2>2. r \in Others /\ attempt' = [attempt EXCEPT ![a] = r]
    BY <2>1 DEF Others
  <2> HIDE DEF r
  <2> QED
    BY <1>2, <2>2
<1>5. ASSUME NEW a \in Attempts, Reserve(a) PROVE Typed
  <2>1. attempt[a] \in [at: {"account"}, email: Emails]
    BY <1>1, <1>5, AttemptShapes DEF Reserve
  <2> QED
    BY <1>5, <2>1, ReserveKinds
<1>6. ASSUME NEW a \in Attempts, Find(a) \/ Verify(a) \/ Encode(a) \/ Encoded(a) PROVE Typed
  <2>1. PICK to : /\ Goes(a, to)
                  /\ \/ /\ attempt[a].at \in {"lookup", "hash"}
                        /\ to \in {"hash", "refund", "failed"}
                     \/ /\ attempt[a].at \in {"register", "encode"}
                        /\ to \in {"encode", "ended"}
    BY <1>6 DEF Find, Verify, Encode, Encoded
  <2> QED
    BY <2>1, GoesTyped
<1>7. ASSUME NEW a \in Attempts, Refund(a) PROVE Typed
  <2>1. attempt[a] \in Logins
    BY <1>1, <1>7, AttemptShapes DEF Refund
  <2>2. attempt[a].email \in Emails
    BY <2>1 DEF Logins
  <2> QED
    BY <1>7, <2>2, RefundKinds
<1>8. CASE Pass \/ UNCHANGED limitVars
  BY <1>1, <1>8 DEF Pass, limitVars
<1> QED
  BY <1>3, <1>4, <1>5, <1>6, <1>7, <1>8 DEF LimitsNext

LEMMA StepKeepsStores ==
    ASSUME LimitsInv, [LimitsNext]_limitVars
    PROVE  StoresOK'
<1>1. ASSUME NEW a \in Attempts, NEW ip \in Addresses, NEW n \in Emails, LoginFrom(a, ip, n)
      PROVE  StoresOK'
  BY <1>1, TakeKeepsStores DEF LoginFrom, Stores, Entries, Keys
<1>2. ASSUME NEW a \in Attempts, NEW ip \in Addresses, RegisterFrom(a, ip) PROVE StoresOK'
  BY <1>2, TakeKeepsStores DEF RegisterFrom, Stores, Entries, Keys
<1>3. ASSUME NEW a \in Attempts, Reserve(a) PROVE StoresOK'
  <2>1. attempt[a] \in [at: {"account"}, email: Emails]
    BY <1>3, AttemptShapes DEF Reserve, LimitsInv, LimitsTypeOK
  <2>2. <<"account", attempt[a].email>> \in Entries /\ "account" \in Stores
    BY <2>1 DEF Entries, Keys, Stores
  <2> QED
    BY <1>3, <2>2, TakeKeepsStores DEF Reserve
<1>4. ASSUME NEW a \in Attempts, Find(a) \/ Verify(a) \/ Encode(a) \/ Encoded(a) PROVE StoresOK'
  BY <1>4, StoresKept DEF Find, Verify, Encode, Encoded, Goes
<1>5. CASE Pass \/ UNCHANGED limitVars
  BY <1>5, StoresKept DEF Pass, limitVars
<1> QED
  BY <1>1, <1>2, <1>3, <1>4, <1>5, RefundKeepsStores DEF LimitsNext

LEMMA LimitsInvariant ==
    LimitsSpec => []LimitsInv
<1> USE LimitsAssumption
<1>1. LimitsInit => LimitsInv
  <2> SUFFICES ASSUME LimitsInit PROVE LimitsInv
    OBVIOUS
  <2>1. \A s \in Stores : Held(bucket, s) = {}
    BY DEF LimitsInit, Held, Entries
  <2>2. \A s \in Stores : IsFiniteSet(Held(bucket, s)) /\ Cardinality(Held(bucket, s)) <= MaxEntries
    BY <2>1, FS_EmptySet
  <2>3. \A m \in Emails : Reserved(m) = {}
    BY DEF LimitsInit, Reserved, Fresh
  <2>4. \A m \in Emails : TicketsOK(m)
    BY <2>3, FS_EmptySet DEF TicketsOK
  <2> QED
    BY <2>2, <2>4 DEF LimitsInit, LimitsInv, LimitsTypeOK, BucketInv, StoresOK
<1>2. LimitsInv /\ [LimitsNext]_limitVars => LimitsInv'
  <2> SUFFICES ASSUME LimitsInv, [LimitsNext]_limitVars PROVE LimitsInv'
    OBVIOUS
  <2>1. BucketInv'
    BY StepCares, Caring DEF LimitsInv
  <2>2. StoresOK' /\ attempt' \in [Attempts -> {Fresh} \cup Logins \cup Others]
    BY StepKeepsStores, AttemptsTyped
  <2>3. clock' \in 0..MaxClock
    <3>1. clock' = clock \/ (clock < MaxClock /\ clock' = clock + 1)
      <4>1. ASSUME NEW a \in Attempts, Find(a) \/ Verify(a) \/ Encode(a) \/ Encoded(a)
            PROVE  clock' = clock
        BY <4>1 DEF Find, Verify, Encode, Encoded, Goes
      <4>2. CASE Pass \/ UNCHANGED limitVars
        BY <4>2 DEF Pass, limitVars
      <4> QED
        BY <4>1, <4>2 DEF LimitsNext, LoginFrom, RegisterFrom, Reserve, Refund
    <3> QED
      BY <3>1 DEF LimitsInv, LimitsTypeOK
  <2>4. ASSUME NEW e \in Entries, bucket'[e] # Absent
        PROVE  bucket'[e] \in Buckets /\ bucket'[e].tokens <= Full(e[1])
    <3>1. /\ bucket'[e] \in [tokens: Nat, updated: Nat, expires: Nat, born: Nat]
          /\ bucket'[e].updated <= clock' /\ bucket'[e].born <= clock'
          /\ bucket'[e].tokens <= Full(e[1])
      BY <2>1, <2>2, <2>4 DEF BucketInv, StoresOK, Sound, Full
    <3>2. bucket'[e].updated \in 0..MaxClock /\ bucket'[e].born \in 0..MaxClock
      BY <2>3, <3>1
    <3> QED
      BY <3>1, <3>2 DEF Buckets
  <2>5. bucket' \in [Entries -> Buckets \cup {Absent}]
    BY <2>1, <2>4 DEF BucketInv
  <2>6. LimitsTypeOK'
    BY <2>2, <2>3, <2>4, <2>5 DEF LimitsTypeOK, StoresOK, Full
  <2>7. \A m \in Emails : TicketsOK(m)'
    BY TicketsKept
  <2> QED
    BY <2>1, <2>2, <2>6, <2>7 DEF LimitsInv
<1> QED
  BY <1>1, <1>2, PTL DEF LimitsSpec

-----------------------------------------------------------------------------
(* Tokens.                                                                 *)
LEMMA RefillTokens ==
    ASSUME NEW s \in Stores, NEW b, clock \in Nat, Sound(s, b)
    PROVE  LET got == b.tokens + (clock - b.updated) * Capacity[s]
           IN  /\ got \in Nat /\ b.tokens <= got
               /\ Refilled(s, b).tokens = IF Full(s) <= got THEN Full(s) ELSE got
               /\ Refilled(s, b).tokens \in Nat
               /\ b.tokens <= Refilled(s, b).tokens /\ Refilled(s, b).tokens <= Full(s)
<1> DEFINE got == b.tokens + (clock - b.updated) * Capacity[s]
<1>1. /\ b \in [tokens: Nat, updated: Nat, expires: Nat, born: Nat]
      /\ b.tokens \in Nat /\ b.updated \in Nat
      /\ b.updated <= clock /\ b.tokens <= Full(s)
  BY DEF Sound
<1>2. Capacity[s] \in Nat /\ Full(s) \in Nat
  BY Sizes
<1>3. (clock - b.updated) * Capacity[s] \in Nat
  BY <1>1, <1>2, Growth
<1>4. got \in Nat /\ b.tokens <= got
  BY <1>1, <1>3
<1>5. Refilled(s, b).tokens = Min({Full(s), got})
  BY <1>1 DEF Refilled
<1>6. Min({Full(s), got}) = IF Full(s) <= got THEN Full(s) ELSE got
  BY <1>2, <1>4, Lesser
<1> HIDE DEF got
<1>7. /\ Refilled(s, b).tokens = IF Full(s) <= got THEN Full(s) ELSE got
      /\ Refilled(s, b).tokens \in Nat
      /\ b.tokens <= Refilled(s, b).tokens /\ Refilled(s, b).tokens <= Full(s)
  BY <1>1, <1>2, <1>4, <1>5, <1>6
<1> USE DEF got
<1> QED
  BY <1>4, <1>7

LEMMA UpToDate ==
    ASSUME NEW s \in Stores, NEW b, clock \in Nat, Sound(s, b), b.updated = clock
    PROVE  Refilled(s, b).tokens = b.tokens
<1>1. b.tokens \in Nat /\ b.tokens <= Full(s) /\ Capacity[s] \in Nat /\ Full(s) \in Nat
  BY Sizes DEF Sound
<1>2. b.tokens + (clock - b.updated) * Capacity[s] = b.tokens
  <2>1. (clock - b.updated) * Capacity[s] = 0
    BY <1>1
  <2> QED
    BY <1>1, <2>1
<1> QED
  BY <1>1, <1>2, RefillTokens

LEMMA SpendTokens ==
    ASSUME NEW s \in Stores, NEW b, clock \in Nat, Sound(s, b), b.updated = clock,
           Period[s] <= b.tokens
    PROVE  /\ Sound(s, Spend(s, b)) /\ Spend(s, b) # Absent
           /\ Spend(s, b).tokens = b.tokens - Period[s]
           /\ Spend(s, b).updated = clock /\ Spend(s, b).born = b.born
<1>1. Sound(s, Spend(s, b)) /\ Spend(s, b).born = b.born
  BY SpendSound
<1>2. Spend(s, b) # Absent
  BY <1>1, LimitsAssumption DEF Sound
<1>3. Spend(s, b).tokens = b.tokens - Period[s] /\ Spend(s, b).updated = clock
  BY DEF Spend, Sound
<1> QED
  BY <1>1, <1>2, <1>3

LEMMA RegainTokens ==
    ASSUME NEW b, clock \in Nat, Sound("account", b)
    PROVE  LET had == Refilled("account", b).tokens
           IN  /\ Sound("account", Regained(b)) /\ Regained(b) # Absent
               /\ Regained(b).tokens = IF Full("account") <= had + Period["account"]
                                       THEN Full("account") ELSE had + Period["account"]
               /\ Regained(b).updated = clock /\ Regained(b).born = b.born
<1> DEFINE old == Refilled("account", b)
<1>1. "account" \in Stores
  BY DEF Stores
<1>2. Sound("account", old) /\ old.updated = clock /\ old.born = b.born
  BY <1>1, RefillSound
<1>3. /\ old \in [tokens: Nat, updated: Nat, expires: Nat, born: Nat]
      /\ old.tokens \in Nat /\ Period["account"] \in Nat /\ Full("account") \in Nat
  BY <1>1, <1>2, Sizes DEF Sound
<1> HIDE DEF old
<1>4. Regained(b) = [old EXCEPT !.tokens = Min({Full("account"), @ + Period["account"]})]
  BY DEF Regained, old
<1>5. Sound("account", Regained(b)) /\ Regained(b).born = old.born
  BY <1>1, <1>2, <1>4, RefundSound
<1>6. Regained(b) # Absent
  BY <1>5, LimitsAssumption DEF Sound
<1>7. /\ Regained(b).tokens = Min({Full("account"), old.tokens + Period["account"]})
      /\ Regained(b).updated = old.updated
  BY <1>3, <1>4
<1>8. Min({Full("account"), old.tokens + Period["account"]}) =
         IF Full("account") <= old.tokens + Period["account"]
         THEN Full("account") ELSE old.tokens + Period["account"]
  BY <1>3, Lesser
<1> USE DEF old
<1> QED
  BY <1>2, <1>5, <1>6, <1>7, <1>8

(* Products, one factor of which grows by one.                             *)
LEMMA Products ==
    ASSUME NEW p \in Nat, NEW n \in Nat
    PROVE  /\ p * n \in Nat /\ p * (n + 1) = p * n + p
           /\ p * 0 = 0
           /\ n >= 1 => p <= p * n
<1>1. \A k, l \in Nat : k * l \in Nat
  OBVIOUS
<1>2. p * (n + 1) = p * n + p /\ p * 0 = 0
  OBVIOUS
<1>3. ASSUME n >= 1 PROVE p <= p * n
  <2>1. n - 1 \in Nat
    BY <1>3
  <2>2. p * n = p * (n - 1) + p
    OBVIOUS
  <2>3. p * (n - 1) \in Nat /\ p * n \in Nat
    BY <1>1, <2>1
  <2> QED
    BY <2>2, <2>3
<1> QED
  BY <1>1, <1>2, <1>3

-----------------------------------------------------------------------------
(* What is owed.                                                           *)
Owing(m) ==
    {a \in Reserved(m) : attempt[a].born = bucket[Own(m)].born /\ attempt[a].at # "done"}

ShortageOwed(m) ==
    bucket[Own(m)] # Absent =>
        Full("account") - bucket[Own(m)].tokens <= Period["account"] * Cardinality(Owing(m))

LEMMA OwingFinite ==
    ASSUME LimitsInv, NEW m \in Emails
    PROVE  IsFiniteSet(Owing(m)) /\ Cardinality(Owing(m)) \in Nat
<1>1. IsFiniteSet(Reserved(m)) /\ Owing(m) \in SUBSET Reserved(m)
  BY DEF LimitsInv, TicketsOK, Owing
<1> QED
  BY <1>1, FS_Subset, FS_CardinalityType

LEMMA AccountFacts ==
    ASSUME LimitsInv, NEW m \in Emails
    PROVE  /\ clock \in Nat /\ "account" \in Stores
           /\ Period["account"] \in Nat /\ Capacity["account"] \in Nat /\ Full("account") \in Nat
           /\ Period["account"] <= Full("account")
           /\ bucket[Own(m)] # Absent => Sound("account", bucket[Own(m)])
BY OwnEntry, Sizes DEF LimitsInv, BucketInv

(* A bucket that is as full as before or fuller, and of the same birth, is *)
(* owed for by the same attempts.                                          *)
LEMMA SameOwing ==
    ASSUME LimitsInv, NEW m \in Emails, ShortageOwed(m),
           Reserved(m)' = Reserved(m), SameTickets(m, {}),
           bucket'[Own(m)] # Absent => /\ bucket[Own(m)] # Absent
                                       /\ bucket'[Own(m)].born = bucket[Own(m)].born
                                       /\ bucket'[Own(m)].tokens \in Nat
                                       /\ bucket[Own(m)].tokens <= bucket'[Own(m)].tokens
    PROVE  ShortageOwed(m)'
<1> SUFFICES ASSUME bucket'[Own(m)] # Absent
             PROVE  Full("account") - bucket'[Own(m)].tokens <=
                       Period["account"] * Cardinality(Owing(m)')
  BY DEF ShortageOwed, Full, Own
<1>1. Owing(m)' = Owing(m)
  BY DEF Owing, SameTickets, Ticket, Own
<1>2. /\ bucket[Own(m)].tokens \in Nat /\ Full("account") \in Nat /\ Period["account"] \in Nat
      /\ Cardinality(Owing(m)) \in Nat
  BY AccountFacts, OwingFinite DEF Sound
<1>3. Period["account"] * Cardinality(Owing(m)) \in Nat
  BY <1>2, Products
<1> QED
  BY <1>1, <1>2, <1>3 DEF ShortageOwed

LEMMA SpendOwed ==
    ASSUME LimitsInv, NEW m \in Emails, ShortageOwed(m), NEW a \in Attempts, Spends(m, a),
           LimitsInv'
    PROVE  ShortageOwed(m)'
<1> DEFINE p == Period["account"]
           b == bucket[Own(m)]
<1>1. /\ clock \in Nat /\ "account" \in Stores /\ p \in Nat /\ Full("account") \in Nat
      /\ p <= Full("account")
      /\ b # Absent => Sound("account", b)
  BY AccountFacts
<1>2. a \in Reserved(m)' /\ a \notin Reserved(m) /\ Reserved(m)' = Reserved(m) \cup {a}
  BY DEF Spends
<1>3. attempt'[a].born = bucket'[Own(m)].born /\ attempt'[a].at # "done"
  BY DEF Spends, Ticket
<1>4. a \in Owing(m)'
  BY <1>2, <1>3 DEF Owing, Own
<1>5. IsFiniteSet(Owing(m)') /\ Cardinality(Owing(m)') \in Nat
  <2>1. IsFiniteSet(Reserved(m)') /\ Owing(m)' \in SUBSET Reserved(m)'
    BY DEF LimitsInv, TicketsOK, Owing
  <2> QED
    BY <2>1, FS_Subset, FS_CardinalityType
<1>6. CASE /\ b = Absent \/ b.expires <= clock
           /\ bucket'[Own(m)] = Spend("account", NewBucket("account"))
  <2>1. bucket'[Own(m)].tokens = Full("account") - p
    BY <1>1, <1>6, NewSound, SpendTokens DEF NewBucket
  <2>2. Cardinality(Owing(m)') >= 1
    <3>1. Cardinality(Owing(m)') # 0
      BY <1>4, <1>5, FS_EmptySet
    <3> QED
      BY <1>5, <3>1
  <2>3. p <= p * Cardinality(Owing(m)') /\ p * Cardinality(Owing(m)') \in Nat
    BY <1>1, <1>5, <2>2, Products
  <2>4. Full("account") - bucket'[Own(m)].tokens <= p * Cardinality(Owing(m)')
    BY <1>1, <2>1, <2>3
  <2> QED
    BY <2>4 DEF ShortageOwed, Full, Own
<1>7. CASE /\ b # Absent /\ p <= Refilled("account", b).tokens
           /\ bucket'[Own(m)] = Spend("account", Refilled("account", b))
  <2>1. /\ Sound("account", Refilled("account", b)) /\ Refilled("account", b).updated = clock
        /\ Refilled("account", b).born = b.born
    BY <1>1, <1>7, RefillSound
  <2>2. /\ bucket'[Own(m)].tokens = Refilled("account", b).tokens - p
        /\ bucket'[Own(m)].born = b.born
    BY <1>1, <1>7, <2>1, SpendTokens
  <2>3. /\ b.tokens \in Nat /\ Refilled("account", b).tokens \in Nat
        /\ b.tokens <= Refilled("account", b).tokens
    BY <1>1, <1>7, RefillTokens DEF Sound
  <2>4. Owing(m)' = Owing(m) \cup {a} /\ a \notin Owing(m)
    <3>1. \A c \in Reserved(m) : Ticket(attempt'[c]) = Ticket(attempt[c])
      BY DEF Spends, SameTickets
    <3> QED
      BY <1>2, <1>4, <2>2, <3>1 DEF Owing, Own, Ticket
  <2>5. /\ Cardinality(Owing(m)') = Cardinality(Owing(m)) + 1
        /\ Cardinality(Owing(m)) \in Nat
    BY <2>4, OwingFinite, FS_AddElement
  <2>6. /\ p * (Cardinality(Owing(m)) + 1) = p * Cardinality(Owing(m)) + p
        /\ p * Cardinality(Owing(m)) \in Nat
    BY <1>1, <2>5, Products
  <2>7. Full("account") - b.tokens <= p * Cardinality(Owing(m))
    BY <1>7 DEF ShortageOwed
  <2>8. Full("account") - bucket'[Own(m)].tokens <= p * Cardinality(Owing(m)')
    BY <1>1, <2>2, <2>3, <2>5, <2>6, <2>7
  <2> QED
    BY <2>8 DEF ShortageOwed, Full, Own
<1> QED
  BY <1>6, <1>7 DEF Spends

LEMMA PayOwed ==
    ASSUME LimitsInv, NEW m \in Emails, ShortageOwed(m), NEW a \in Attempts, Pays(m, a)
    PROVE  ShortageOwed(m)'
<1> DEFINE p == Period["account"]
           b == bucket[Own(m)]
<1>1. /\ clock \in Nat /\ "account" \in Stores /\ p \in Nat /\ Full("account") \in Nat
      /\ b # Absent => Sound("account", b)
  BY AccountFacts
<1>2. /\ a \in Reserved(m) /\ Reserved(m)' = Reserved(m)
      /\ attempt[a].at # "done" /\ attempt'[a].at = "done"
  BY DEF Pays, Ticket
<1>3. \A c \in Reserved(m) \ {a} : Ticket(attempt'[c]) = Ticket(attempt[c])
  BY DEF Pays, SameTickets
<1>4. CASE /\ b # Absent /\ b.born = attempt[a].born
           /\ bucket'[Own(m)] = Regained(b)
  <2>1. /\ bucket'[Own(m)].born = b.born
        /\ bucket'[Own(m)].tokens = IF Full("account") <= Refilled("account", b).tokens + p
                                    THEN Full("account") ELSE Refilled("account", b).tokens + p
    BY <1>1, <1>4, RegainTokens
  <2>2. /\ b.tokens \in Nat /\ Refilled("account", b).tokens \in Nat
        /\ b.tokens <= Refilled("account", b).tokens
    BY <1>1, <1>4, RefillTokens DEF Sound
  <2>3. Owing(m)' = Owing(m) \ {a} /\ a \in Owing(m)
    BY <1>2, <1>3, <1>4, <2>1 DEF Owing, Own, Ticket
  <2>4. /\ Cardinality(Owing(m)) \in Nat /\ Cardinality(Owing(m)') \in Nat
        /\ Cardinality(Owing(m)) = Cardinality(Owing(m)') + 1
    <3>1. IsFiniteSet(Owing(m)) /\ Cardinality(Owing(m)) \in Nat
      BY OwingFinite
    <3>2. IsFiniteSet(Owing(m)') /\ Cardinality(Owing(m)') = Cardinality(Owing(m)) - 1
      BY <2>3, <3>1, FS_RemoveElement
    <3>3. Cardinality(Owing(m)') \in Nat
      BY <3>2, FS_CardinalityType
    <3> QED
      BY <3>1, <3>2, <3>3
  <2>5. /\ p * (Cardinality(Owing(m)') + 1) = p * Cardinality(Owing(m)') + p
        /\ p * Cardinality(Owing(m)') \in Nat
    BY <1>1, <2>4, Products
  <2>6. Full("account") - b.tokens <= p * Cardinality(Owing(m)') + p
    BY <1>4, <2>4, <2>5 DEF ShortageOwed
  <2>7. Full("account") - bucket'[Own(m)].tokens <= p * Cardinality(Owing(m)')
    <3>1. CASE Full("account") <= Refilled("account", b).tokens + p
      BY <1>1, <2>1, <2>5, <3>1
    <3>2. CASE ~(Full("account") <= Refilled("account", b).tokens + p)
      BY <1>1, <2>1, <2>2, <2>5, <2>6, <3>2
    <3> QED
      BY <3>1, <3>2
  <2> QED
    BY <2>7 DEF ShortageOwed, Full, Own
<1>5. CASE /\ b = Absent \/ b.born # attempt[a].born
           /\ bucket'[Own(m)] = b
  <2>1. b # Absent => Owing(m)' = Owing(m)
    <3>1. ASSUME b # Absent PROVE Owing(m)' = Owing(m)
      <4>1. a \notin Owing(m) /\ a \notin Owing(m)'
        BY <1>2, <1>5, <3>1 DEF Owing
      <4> QED
        BY <1>2, <1>3, <1>5, <4>1 DEF Owing, Own, Ticket
    <3> QED
      BY <3>1
  <2> QED
    BY <1>5, <2>1 DEF ShortageOwed, Full, Own
<1> QED
  BY <1>4, <1>5 DEF Pays

(* "Invalid credentials keep the token spent", all else gives it back      *)
(* (docs/rate-limiting.md:25): what an account's bucket lacks is owed by   *)
(* logins that failed or are under way, for any sizes and periods, and     *)
(* however refunds, expiry and full stores overlap.                        *)
THEOREM ShortagesAreOwed ==
    LimitsSpec => []ShortageIsOwed
<1> DEFINE AllOwed == \A m \in Emails : ShortageOwed(m)
<1>1. LimitsInit => AllOwed
  BY OwnEntry DEF LimitsInit, ShortageOwed
<1>2. LimitsInv /\ LimitsInv' /\ AllOwed /\ [LimitsNext]_limitVars => AllOwed'
  <2> SUFFICES ASSUME LimitsInv, LimitsInv', AllOwed, [LimitsNext]_limitVars, NEW m \in Emails
               PROVE  ShortageOwed(m)'
    OBVIOUS
  <2>1. ShortageOwed(m)
    OBVIOUS
  <2>2. /\ clock \in Nat /\ "account" \in Stores
        /\ bucket[Own(m)] # Absent => Sound("account", bucket[Own(m)])
    BY AccountFacts
  <2>3. CASE Quiet(m)
    <3>1. bucket'[Own(m)] # Absent => /\ bucket[Own(m)] # Absent
                                      /\ bucket'[Own(m)].born = bucket[Own(m)].born
                                      /\ bucket'[Own(m)].tokens \in Nat
                                      /\ bucket[Own(m)].tokens <= bucket'[Own(m)].tokens
      <4>1. CASE Rests(Own(m))
        BY <2>2, <4>1 DEF Rests, Dropped, Sound
      <4>2. CASE bucket[Own(m)] # Absent /\ bucket'[Own(m)] = Refilled("account", bucket[Own(m)])
        BY <2>2, <4>2, RefillSound, RefillTokens
      <4> QED
        BY <2>3, <4>1, <4>2 DEF Quiet
    <3> QED
      BY <2>1, <2>3, <3>1, SameOwing DEF Quiet
  <2>4. CASE Ticks(m)
    <3>1. ShortageOwed(m)' <=> ShortageOwed(m)
      BY <2>4 DEF Ticks, ShortageOwed, Owing, Reserved, Own, Full
    <3> QED
      BY <2>1, <3>1
  <2> QED
    BY <2>1, <2>3, <2>4, StepKinds, SpendOwed, PayOwed
<1>3. AllOwed => ShortageIsOwed
  BY DEF ShortageIsOwed, ShortageOwed, Owing, Own
<1> QED
  BY <1>1, <1>2, <1>3, LimitsInvariant, PTL DEF LimitsSpec

-----------------------------------------------------------------------------
(* Logins within the budget.                                               *)
(* AttemptsWithinBudget is not inductive: what was spent must also leave   *)
(* its gap in the bucket.  Since any time s, the logins of an account and  *)
(* what its bucket would still give now are together no more than a full   *)
(* bucket, the refill since s and what came back.                          *)
Since(m, s) == {a \in Reserved(m) : attempt[a].since >= s}
Back(m, s)  == {a \in Reserved(m) : attempt[a].back \in s..MaxClock}

Holds(b) == IF b = Absent THEN Full("account") ELSE Refilled("account", b).tokens
Level(m) == Holds(bucket[Own(m)])

WithinBudget(m, s) ==
    Period["account"] * Cardinality(Since(m, s)) + Level(m)
    <= Full("account") + (clock - s) * Capacity["account"]
       + Period["account"] * Cardinality(Back(m, s))

LEMMA LevelType ==
    ASSUME LimitsInv, NEW m \in Emails
    PROVE  Level(m) \in Nat /\ Level(m) <= Full("account")
<1>1. /\ clock \in Nat /\ "account" \in Stores /\ Full("account") \in Nat
      /\ bucket[Own(m)] # Absent => Sound("account", bucket[Own(m)])
  BY AccountFacts
<1>2. CASE bucket[Own(m)] = Absent
  BY <1>1, <1>2 DEF Level, Holds
<1>3. CASE bucket[Own(m)] # Absent
  BY <1>1, <1>3, RefillTokens DEF Level, Holds
<1> QED
  BY <1>2, <1>3

LEMMA CountsType ==
    ASSUME LimitsInv, NEW m \in Emails, NEW s
    PROVE  /\ IsFiniteSet(Since(m, s)) /\ Cardinality(Since(m, s)) \in Nat
           /\ IsFiniteSet(Back(m, s)) /\ Cardinality(Back(m, s)) \in Nat
<1>1. /\ IsFiniteSet(Reserved(m))
      /\ Since(m, s) \in SUBSET Reserved(m) /\ Back(m, s) \in SUBSET Reserved(m)
  BY DEF LimitsInv, TicketsOK, Since, Back
<1> QED
  BY <1>1, FS_Subset, FS_CardinalityType

(* What the bucket would give, while the clock stands still.               *)
LEMMA LevelStill ==
    ASSUME NEW m, clock' = clock
    PROVE  Level(m)' = Holds(bucket'[Own(m)])
BY DEF Level, Holds, Refilled, Full, Own

LEMMA QuietLevel ==
    ASSUME LimitsInv, NEW m \in Emails, clock' = clock,
           \/ Rests(Own(m))
           \/ /\ bucket[Own(m)] # Absent
              /\ bucket'[Own(m)] = Refilled("account", bucket[Own(m)])
    PROVE  Level(m)' = Level(m)
<1> DEFINE b == bucket[Own(m)]
<1>1. /\ clock \in Nat /\ "account" \in Stores
      /\ b # Absent => Sound("account", b)
  BY AccountFacts
<1>2. CASE bucket'[Own(m)] = b
  BY <1>2, LevelStill DEF Level
<1>3. CASE Dropped(Own(m))
  <2>1. b # Absent /\ b.expires <= clock /\ bucket'[Own(m)] = Absent
    BY <1>3 DEF Dropped
  <2>2. Refilled("account", b).tokens = Full("account")
    BY <1>1, <2>1, RefillSound
  <2> QED
    BY <2>1, <2>2, LevelStill DEF Level, Holds
<1>4. CASE b # Absent /\ bucket'[Own(m)] = Refilled("account", b)
  <2>1. Sound("account", Refilled("account", b)) /\ Refilled("account", b).updated = clock
    BY <1>1, <1>4, RefillSound
  <2>2. Refilled("account", b) # Absent
    BY <2>1, LimitsAssumption DEF Sound
  <2>3. Refilled("account", Refilled("account", b)).tokens = Refilled("account", b).tokens
    BY <1>1, <2>1, UpToDate
  <2> QED
    BY <1>4, <2>2, <2>3, LevelStill DEF Level, Holds
<1> QED
  BY <1>2, <1>3, <1>4 DEF Rests

(* A login takes one token from what was there.                            *)
LEMMA SpendLevel ==
    ASSUME LimitsInv, NEW m \in Emails, NEW a \in Attempts, Spends(m, a)
    PROVE  Level(m)' = Level(m) - Period["account"]
<1> DEFINE b == bucket[Own(m)]
           p == Period["account"]
<1>1. /\ clock \in Nat /\ "account" \in Stores /\ p \in Nat /\ Full("account") \in Nat
      /\ b # Absent => Sound("account", b)
  BY AccountFacts
<1>2. ASSUME NEW c, Sound("account", c), c.updated = clock, p <= c.tokens,
             bucket'[Own(m)] = Spend("account", c)
      PROVE  Level(m)' = c.tokens - p
  <2>1. /\ Sound("account", Spend("account", c)) /\ Spend("account", c) # Absent
        /\ Spend("account", c).tokens = c.tokens - p
        /\ Spend("account", c).updated = clock
    BY <1>1, <1>2, SpendTokens
  <2>2. Refilled("account", Spend("account", c)).tokens = Spend("account", c).tokens
    BY <1>1, <2>1, UpToDate
  <2>3. clock' = clock
    BY DEF Spends
  <2> QED
    BY <1>2, <2>1, <2>2, <2>3, LevelStill DEF Holds
<1>3. CASE /\ b = Absent \/ b.expires <= clock
           /\ bucket'[Own(m)] = Spend("account", NewBucket("account"))
  <2>1. Level(m) = Full("account")
    <3>1. b # Absent => Refilled("account", b).tokens = Full("account")
      BY <1>1, <1>3, RefillSound
    <3> QED
      BY <3>1 DEF Level, Holds
  <2>2. /\ Sound("account", NewBucket("account")) /\ NewBucket("account").updated = clock
        /\ p <= NewBucket("account").tokens
    BY <1>1, NewSound
  <2>3. NewBucket("account").tokens = Full("account")
    BY DEF NewBucket
  <2> QED
    BY <1>2, <1>3, <2>1, <2>2, <2>3
<1>4. CASE /\ b # Absent /\ p <= Refilled("account", b).tokens
           /\ bucket'[Own(m)] = Spend("account", Refilled("account", b))
  <2>1. Sound("account", Refilled("account", b)) /\ Refilled("account", b).updated = clock
    BY <1>1, <1>4, RefillSound
  <2>2. Level(m) = Refilled("account", b).tokens
    BY <1>4 DEF Level, Holds
  <2> QED
    BY <1>2, <1>4, <2>1, <2>2
<1> QED
  BY <1>3, <1>4 DEF Spends

(* In a tick a bucket gains what is refilled, if it is not full.           *)
LEMMA TickLevel ==
    ASSUME LimitsInv, NEW m \in Emails, clock' = clock + 1, UNCHANGED bucket
    PROVE  /\ Level(m)' \in Nat
           /\ Level(m)' <= Level(m) + Capacity["account"]
           /\ Level(m)' <= Full("account")
<1> DEFINE b == bucket[Own(m)]
           c == Capacity["account"]
           got == b.tokens + (clock - b.updated) * c
           gets == b.tokens + (clock + 1 - b.updated) * c
<1>1. /\ clock \in Nat /\ "account" \in Stores /\ c \in Nat /\ Full("account") \in Nat
      /\ b # Absent => Sound("account", b)
  BY AccountFacts
<1>2. CASE b = Absent
  <2>1. Level(m) = Full("account") /\ Level(m)' = Full("account")
    BY <1>2 DEF Level, Holds, Full, Own
  <2> QED
    BY <1>1, <2>1
<1>3. CASE b # Absent
  <2>1. /\ b \in [tokens: Nat, updated: Nat, expires: Nat, born: Nat]
        /\ b.tokens \in Nat /\ b.updated \in Nat /\ b.updated <= clock
    BY <1>1, <1>3 DEF Sound
  <2>2. /\ got \in Nat
        /\ Level(m) = IF Full("account") <= got THEN Full("account") ELSE got
    BY <1>1, <1>3, RefillTokens DEF Level, Holds
  <2>3. (clock - b.updated) * c \in Nat
    BY <1>1, <2>1, Growth
  <2>4. (clock + 1 - b.updated) * c = (clock - b.updated) * c + c
    BY <1>1, <2>1
  <2>5. gets = got + c
    BY <1>1, <2>1, <2>3, <2>4
  <2>6. gets \in Nat
    BY <1>1, <2>2, <2>5
  <2>7. b.tokens + (clock' - b.updated) * c = gets
    BY <1>1, <2>1
  <2>8. Level(m)' = Min({Full("account"), b.tokens + (clock' - b.updated) * c})
    BY <1>3, <2>1 DEF Level, Holds, Refilled, Own, Full
  <2> HIDE DEF got, gets
  <2>9. Level(m)' = IF Full("account") <= gets THEN Full("account") ELSE gets
    BY <1>1, <2>6, <2>7, <2>8, Lesser
  <2> QED
    BY <1>1, <2>2, <2>5, <2>6, <2>9
<1> QED
  BY <1>2, <1>3

LEMMA SameBudget ==
    ASSUME LimitsInv, NEW m \in Emails, NEW s \in 0..clock, WithinBudget(m, s), clock' = clock,
           Reserved(m)' = Reserved(m), SameTickets(m, {}), Level(m)' = Level(m)
    PROVE  WithinBudget(m, s)'
<1>1. Since(m, s)' = Since(m, s) /\ Back(m, s)' = Back(m, s)
  BY DEF Since, Back, SameTickets, Ticket
<1> QED
  BY <1>1 DEF WithinBudget, Full

LEMMA SpendWithin ==
    ASSUME LimitsInv, NEW m \in Emails, NEW s \in 0..clock, WithinBudget(m, s),
           NEW a \in Attempts, Spends(m, a)
    PROVE  WithinBudget(m, s)'
<1> DEFINE p == Period["account"]
<1>1. clock \in Nat /\ clock <= MaxClock /\ MaxClock \in Nat /\ p \in Nat /\ Full("account") \in Nat
  BY AccountFacts, LimitsAssumption DEF LimitsInv, LimitsTypeOK
<1>2. /\ clock' = clock /\ a \notin Reserved(m) /\ Reserved(m)' = Reserved(m) \cup {a}
      /\ attempt'[a].since = clock /\ attempt'[a].back = MaxClock + 1
      /\ \A c \in Reserved(m) : Ticket(attempt'[c]) = Ticket(attempt[c])
  BY DEF Spends, SameTickets, Ticket
<1>3. Since(m, s)' = Since(m, s) \cup {a} /\ a \notin Since(m, s)
  BY <1>1, <1>2 DEF Since, Ticket
<1>4. Back(m, s)' = Back(m, s)
  <2>1. MaxClock + 1 \notin s..MaxClock
    BY <1>1
  <2> QED
    BY <1>2, <2>1 DEF Back, Ticket
<1>5. /\ Cardinality(Since(m, s)') = Cardinality(Since(m, s)) + 1
      /\ Cardinality(Since(m, s)) \in Nat
  BY <1>3, CountsType, FS_AddElement
<1>6. /\ p * (Cardinality(Since(m, s)) + 1) = p * Cardinality(Since(m, s)) + p
      /\ p * Cardinality(Since(m, s)) \in Nat
  BY <1>1, <1>5, Products
<1>7. Level(m)' = Level(m) - p /\ Level(m) \in Nat
  BY SpendLevel, LevelType
<1>8. p * Cardinality(Since(m, s)') + Level(m)' = p * Cardinality(Since(m, s)) + Level(m)
  BY <1>1, <1>5, <1>6, <1>7
<1> QED
  BY <1>2, <1>4, <1>8 DEF WithinBudget, Full

LEMMA PayWithin ==
    ASSUME LimitsInv, NEW m \in Emails, NEW s \in 0..clock, WithinBudget(m, s),
           NEW a \in Attempts, Pays(m, a)
    PROVE  WithinBudget(m, s)'
<1> DEFINE p == Period["account"]
           b == bucket[Own(m)]
<1>1. /\ clock \in Nat /\ clock <= MaxClock /\ MaxClock \in Nat /\ p \in Nat
      /\ Full("account") \in Nat /\ Capacity["account"] \in Nat /\ "account" \in Stores
      /\ b # Absent => Sound("account", b)
  BY AccountFacts, LimitsAssumption DEF LimitsInv, LimitsTypeOK
<1>2. /\ clock' = clock /\ a \in Reserved(m) /\ Reserved(m)' = Reserved(m)
      /\ \A c \in Reserved(m) \ {a} : Ticket(attempt'[c]) = Ticket(attempt[c])
      /\ attempt'[a].since = attempt[a].since /\ attempt[a].at = "refund"
  BY DEF Pays, SameTickets, Ticket
<1>3. Since(m, s)' = Since(m, s)
  BY <1>2 DEF Since, Ticket
<1>4. CASE /\ b # Absent /\ b.born = attempt[a].born
           /\ bucket'[Own(m)] = Regained(b)
           /\ Ticket(attempt'[a]) = <<attempt[a].since, attempt[a].born, clock, TRUE>>
  <2>1. attempt[a].back = MaxClock + 1
    BY <1>2 DEF LimitsInv, TicketsOK
  <2>2. attempt'[a].back = clock
    BY <1>4 DEF Ticket
  <2>3. MaxClock + 1 \notin s..MaxClock /\ clock \in s..MaxClock
    BY <1>1
  <2>4. Back(m, s)' = Back(m, s) \cup {a} /\ a \notin Back(m, s)
    BY <1>2, <2>1, <2>2, <2>3 DEF Back, Ticket
  <2>5. /\ Cardinality(Back(m, s)') = Cardinality(Back(m, s)) + 1
        /\ Cardinality(Back(m, s)) \in Nat /\ Cardinality(Since(m, s)) \in Nat
    BY <2>4, CountsType, FS_AddElement
  <2>6. /\ p * (Cardinality(Back(m, s)) + 1) = p * Cardinality(Back(m, s)) + p
        /\ p * Cardinality(Back(m, s)) \in Nat /\ p * Cardinality(Since(m, s)) \in Nat
    BY <1>1, <2>5, Products
  <2>7. /\ Sound("account", Regained(b)) /\ Regained(b) # Absent /\ Regained(b).updated = clock
        /\ Regained(b).tokens = IF Full("account") <= Refilled("account", b).tokens + p
                                THEN Full("account") ELSE Refilled("account", b).tokens + p
    BY <1>1, <1>4, RegainTokens
  <2>8. Refilled("account", Regained(b)).tokens = Regained(b).tokens
    BY <1>1, <2>7, UpToDate
  <2>9. Level(m) = Refilled("account", b).tokens
    BY <1>4 DEF Level, Holds
  <2>10. Level(m)' = Regained(b).tokens
    BY <1>2, <1>4, <2>7, <2>8, LevelStill DEF Holds
  <2>11. Level(m) \in Nat
    BY LevelType
  <2>12. Level(m)' \in Nat /\ Level(m)' <= Level(m) + p
    BY <1>1, <2>7, <2>9, <2>10, <2>11
  <2>13. (clock - s) * Capacity["account"] \in Nat
    BY <1>1, Growth
  <2>14. p * Cardinality(Since(m, s)) + Level(m)' <=
            Full("account") + (clock - s) * Capacity["account"] + p * Cardinality(Back(m, s)')
    BY <1>1, <2>5, <2>6, <2>11, <2>12, <2>13 DEF WithinBudget
  <2> QED
    BY <1>2, <1>3, <2>14 DEF WithinBudget, Full
<1>5. CASE /\ bucket'[Own(m)] = b
           /\ Ticket(attempt'[a]) = <<attempt[a].since, attempt[a].born, attempt[a].back, TRUE>>
  <2>1. Back(m, s)' = Back(m, s)
    BY <1>2, <1>5 DEF Back, Ticket
  <2>2. Level(m)' = Level(m)
    BY <1>2, <1>5, LevelStill DEF Level
  <2> QED
    BY <1>2, <1>3, <2>1, <2>2 DEF WithinBudget, Full
<1> QED
  BY <1>4, <1>5 DEF Pays

LEMMA TickWithin ==
    ASSUME LimitsInv, NEW m \in Emails, \A s \in 0..clock : WithinBudget(m, s), Ticks(m),
           NEW s \in 0..clock'
    PROVE  WithinBudget(m, s)'
<1> DEFINE p == Period["account"]
           c == Capacity["account"]
<1>1. clock \in Nat /\ p \in Nat /\ c \in Nat /\ Full("account") \in Nat
  BY AccountFacts
<1>2. Since(m, s)' = Since(m, s) /\ Back(m, s)' = Back(m, s)
  BY DEF Ticks, Since, Back, Reserved
<1>3. /\ Cardinality(Since(m, s)) \in Nat /\ Cardinality(Back(m, s)) \in Nat
      /\ p * Cardinality(Since(m, s)) \in Nat /\ p * Cardinality(Back(m, s)) \in Nat
  BY <1>1, CountsType, Products
<1>4. CASE clock' = clock
  <2>1. Level(m)' = Level(m)
    BY <1>4, LevelStill DEF Ticks, Level
  <2> QED
    BY <1>2, <1>4, <2>1 DEF WithinBudget, Full
<1>5. CASE clock' = clock + 1
  <2>1. (clock' - s) * c = (clock + 1 - s) * c
    BY <1>1, <1>5
  <2>2. /\ Level(m)' \in Nat /\ Level(m)' <= Level(m) + c /\ Level(m)' <= Full("account")
        /\ Level(m) \in Nat
    BY <1>5, TickLevel, LevelType DEF Ticks
  <2>3. CASE s \in 0..clock
    <3>1. /\ (clock - s) * c \in Nat
          /\ (clock + 1 - s) * c = (clock - s) * c + c
      BY <1>1, <2>3, Growth
    <3>2. p * Cardinality(Since(m, s)) + Level(m) <=
             Full("account") + (clock - s) * c + p * Cardinality(Back(m, s))
      BY <2>3 DEF WithinBudget
    <3>3. p * Cardinality(Since(m, s)) + Level(m)' <=
             Full("account") + (clock + 1 - s) * c + p * Cardinality(Back(m, s))
      BY <1>1, <1>3, <2>2, <3>1, <3>2
    <3> QED
      BY <1>2, <2>1, <3>3 DEF WithinBudget, Full
  <2>4. CASE s = clock + 1
    <3>1. Since(m, s) = {}
      <4>1. ASSUME NEW a \in Reserved(m) PROVE ~(attempt[a].since >= s)
        <5>1. attempt[a].since <= clock /\ attempt[a].since \in Nat
          <6>1. attempt[a] \in Logins
            BY ReservedIs DEF LimitsInv
          <6> QED
            BY <6>1, LimitsAssumption DEF LimitsInv, TicketsOK, Logins
        <5> QED
          BY <1>1, <2>4, <5>1
      <4> QED
        BY <4>1 DEF Since
    <3>2. p * Cardinality(Since(m, s)) = 0
      BY <1>1, <3>1, FS_EmptySet, Products
    <3>3. (clock + 1 - s) * c = 0
      BY <1>1, <2>4
    <3>4. p * Cardinality(Since(m, s)) + Level(m)' <=
             Full("account") + (clock + 1 - s) * c + p * Cardinality(Back(m, s))
      BY <1>1, <1>3, <2>2, <3>2, <3>3
    <3> QED
      BY <1>2, <2>1, <3>4 DEF WithinBudget, Full
  <2> QED
    BY <1>1, <1>5, <2>3, <2>4
<1> QED
  BY <1>4, <1>5 DEF Ticks

(* "Login reserves an account token before service work to bound           *)
(* concurrent attempts" (docs/rate-limiting.md:24): for any capacity and   *)
(* period, an account sees no more logins in any time than a full bucket,  *)
(* its refill and the tokens that were given back allow, whenever buckets  *)
(* are dropped and refunds arrive (Limiter.Take, Ticket.Refund).           *)
THEOREM BudgetsHold ==
    LimitsSpec => []AttemptsWithinBudget
<1> DEFINE Budget == \A m \in Emails : \A s \in 0..clock : WithinBudget(m, s)
<1>1. LimitsInit => Budget
  <2> SUFFICES ASSUME LimitsInit, NEW m \in Emails, NEW s \in 0..clock
               PROVE  WithinBudget(m, s)
    OBVIOUS
  <2>1. Reserved(m) = {}
    BY DEF LimitsInit, Reserved, Fresh
  <2>2. Since(m, s) = {} /\ Back(m, s) = {}
    BY <2>1 DEF Since, Back
  <2>3. Level(m) = Full("account") /\ s = 0 /\ clock = 0
    BY OwnEntry DEF LimitsInit, Level, Holds
  <2>4. "account" \in Stores
    BY DEF Stores
  <2>5. Period["account"] \in Nat /\ Capacity["account"] \in Nat /\ Full("account") \in Nat
    BY <2>4, Sizes
  <2>6. Period["account"] * 0 = 0 /\ (clock - s) * Capacity["account"] = 0
    BY <2>3, <2>5
  <2> QED
    BY <2>2, <2>3, <2>5, <2>6, FS_EmptySet DEF WithinBudget
<1>2. LimitsInv /\ Budget /\ [LimitsNext]_limitVars => Budget'
  <2> SUFFICES ASSUME LimitsInv, Budget, [LimitsNext]_limitVars, NEW m \in Emails,
                      NEW s \in 0..clock'
               PROVE  WithinBudget(m, s)'
    OBVIOUS
  <2>1. \A t \in 0..clock : WithinBudget(m, t)
    OBVIOUS
  <2>2. CASE Ticks(m)
    BY <2>1, <2>2, TickWithin
  <2>3. CASE Quiet(m)
    BY <2>1, <2>3, QuietLevel, SameBudget DEF Quiet
  <2>4. ASSUME NEW a \in Attempts, Spends(m, a) PROVE WithinBudget(m, s)'
    <3>1. s \in 0..clock
      BY <2>4 DEF Spends
    <3> QED
      BY <2>1, <2>4, <3>1, SpendWithin
  <2>5. ASSUME NEW a \in Attempts, Pays(m, a) PROVE WithinBudget(m, s)'
    <3>1. s \in 0..clock
      BY <2>5 DEF Pays
    <3> QED
      BY <2>1, <2>5, <3>1, PayWithin
  <2> QED
    BY <2>2, <2>3, <2>4, <2>5, StepKinds
<1>3. LimitsInv /\ Budget => AttemptsWithinBudget
  <2> SUFFICES ASSUME LimitsInv, Budget, NEW m \in Emails, NEW s \in 0..clock
               PROVE  Period["account"] * Cardinality(Since(m, s))
                      <= Full("account") + (clock - s) * Capacity["account"]
                         + Period["account"] * Cardinality(Back(m, s))
    BY DEF AttemptsWithinBudget, Since, Back
  <2>1. WithinBudget(m, s)
    OBVIOUS
  <2>2. /\ clock \in Nat /\ Period["account"] \in Nat /\ Capacity["account"] \in Nat
        /\ Full("account") \in Nat
    BY AccountFacts
  <2>3. /\ Period["account"] * Cardinality(Since(m, s)) \in Nat
        /\ Period["account"] * Cardinality(Back(m, s)) \in Nat
        /\ (clock - s) * Capacity["account"] \in Nat
        /\ Level(m) \in Nat
    BY <2>2, CountsType, Products, Growth, LevelType
  <2> QED
    BY <2>1, <2>2, <2>3 DEF WithinBudget
<1> QED
  BY <1>1, <1>2, <1>3, LimitsInvariant, PTL DEF LimitsSpec

-----------------------------------------------------------------------------
(* All three together.                                                     *)

(* Every reachable state of the budgets is well-typed: no bucket holds     *)
(* more than it may and no store more buckets (Limiter.Take, Refund).      *)
THEOREM LimitsTyping ==
    LimitsSpec => []LimitsTypeOK
<1>1. LimitsInv => LimitsTypeOK
  BY DEF LimitsInv
<1> QED
  BY <1>1, LimitsInvariant, PTL

(* Sessions, budgets and memberships stay well-typed side by side.         *)
THEOREM AccountsTyping ==
    AccountsSpec => []AccountsTypeOK
<1>1. AccountsInit => Init /\ LimitsInit /\ MemberInit
  BY DEF AccountsInit
<1>2. [AccountsNext]_<<vars, limitVars, memberVars>> =>
         [Next]_vars /\ [LimitsNext]_limitVars /\ [MemberNext]_memberVars
  BY DEF AccountsNext, vars, limitVars, memberVars
<1>3. AccountsSpec => Spec /\ LimitsSpec /\ MemberSpec
  BY <1>1, <1>2, PTL DEF AccountsSpec, Spec, LimitsSpec, MemberSpec
<1> QED
  BY <1>3, SessionTyping, LimitsTyping, MemberTyping, PTL DEF AccountsTypeOK
=============================================================================
