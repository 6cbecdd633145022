--------------------------- MODULE SessionFamilies --------------------------
(***************************************************************************)
(* Refresh sessions.  A login starts a family with one session; a refresh  *)
(* presents the token of a session, which is revoked and replaced by the   *)
(* next session of its family.  A token that is presented again reveals    *)
(* that somebody else holds it: the whole family is then revoked.          *)
(*                                                                         *)
(* A refresh is not one transaction: it looks the session up without a     *)
(* lock, later rotates it under the lock of the family, and revokes the    *)
(* family in a third transaction if either failed.  Requests overlap at    *)
(* these points, and any of them may be cut off there.  The n-th session   *)
(* of a family f is <<f, n>>, and so is its token.                         *)
(***************************************************************************)
EXTENDS Integers, FiniteSets

CONSTANTS
    Families,     \* logins
    Requests,     \* refresh requests
    RefreshTTL,   \* lifetime of a session
    MaxSessions,  \* bound on the sessions of a family
    MaxTime       \* bound on the clock

ASSUME SessionAssumption ==
    /\ RefreshTTL \in Nat /\ MaxTime \in Nat /\ MaxSessions \in Nat \ {0}

Sessions == Families \X (1..MaxSessions)

VARIABLES
    now,      \* the clock
    family,   \* auth_session_families; "none": not inserted yet
    issued,   \* how many sessions a family has had
    live,     \* the sessions that are not revoked
    expires,  \* auth_sessions.expires_at
    request   \* what each refresh request does next, and for which token

vars == <<now, family, issued, live, expires, request>>

New      == [at |-> "new"]
Asked    == [at: {"rotate", "contain", "rotated", "refused", "lost"},
             session: Sessions, since: 0..MaxTime]

SessionTypeOK ==
    /\ now \in 0..MaxTime
    /\ family \in [Families -> {"none", "live", "revoked"}]
    /\ issued \in [Families -> 0..MaxSessions]
    /\ live \subseteq Sessions
    /\ expires \in [Sessions -> 0..(MaxTime + RefreshTTL)]
    /\ request \in [Requests -> {New} \cup Asked]

Exists(s) == s[2] <= issued[s[1]]
Newest(f) == <<f, issued[f]>>

Init ==
    /\ now = 0
    /\ family = [f \in Families |-> "none"]
    /\ issued = [f \in Families |-> 0]
    /\ live = {}
    /\ expires = [s \in Sessions |-> 0]
    /\ request = [r \in Requests |-> New]

-----------------------------------------------------------------------------
(* CreateSession, at login or registration.                                *)
Login(f) ==
    /\ family[f] = "none"
    /\ family' = [family EXCEPT ![f] = "live"]
    /\ issued' = [issued EXCEPT ![f] = 1]
    /\ live' = live \cup {<<f, 1>>}
    /\ expires' = [expires EXCEPT ![<<f, 1>>] = now + RefreshTTL]
    /\ UNCHANGED <<now, request>>

(* Faulty: a token that is not active is refused, and that is all.         *)
LookupRefuses(r, s) ==
    /\ request[r] = New
    /\ Exists(s)
    /\ LET active == s \in live /\ expires[s] > now /\ family[s[1]] = "live"
       IN  request' = [request EXCEPT ![r] =
              [at |-> IF active THEN "rotate" ELSE "refused",
               session |-> s, since |-> now]]
    /\ UNCHANGED <<now, family, issued, live, expires>>

(* FindActiveSession: a read.  A token that was never issued changes       *)
(* nothing and is left out.                                                *)
Lookup(r, s) ==
    /\ request[r] = New
    /\ Exists(s)
    /\ LET active == s \in live /\ expires[s] > now /\ family[s[1]] = "live"
       IN  request' = [request EXCEPT ![r] =
              [at |-> IF active THEN "rotate" ELSE "contain",
               session |-> s, since |-> now]]
    /\ UNCHANGED <<now, family, issued, live, expires>>

(* Faulty: what the lookup found is believed.                              *)
RotateUnchecked(r) ==
    LET s == request[r].session
        f == s[1]
        next == <<f, issued[f] + 1>>
    IN  /\ request[r].at = "rotate"
        /\ issued[f] < MaxSessions
        /\ issued' = [issued EXCEPT ![f] = @ + 1]
        /\ live' = (live \ {s}) \cup {next}
        /\ \E t \in request[r].since..now :
              expires' = [expires EXCEPT ![next] = t + RefreshTTL]
        /\ request' = [request EXCEPT ![r].at = "rotated"]
        /\ UNCHANGED <<now, family>>

(* Faulty: the replacement's lifetime is added to its predecessor's.        *)
RotateExtends(r) ==
    LET s == request[r].session
        f == s[1]
        next == <<f, issued[f] + 1>>
    IN  /\ request[r].at = "rotate"
        /\ family[f] = "live" /\ s \in live /\ expires[s] > now
        /\ issued[f] < MaxSessions
        /\ issued' = [issued EXCEPT ![f] = @ + 1]
        /\ live' = (live \ {s}) \cup {next}
        /\ expires' = [expires EXCEPT ![next] = expires[s] + RefreshTTL]
        /\ request' = [request EXCEPT ![r].at = "rotated"]
        /\ UNCHANGED <<now, family>>

(* RotateSession: with the family locked, both are checked again.  The     *)
(* replacement's expiry was computed before the wait for the lock.         *)
Rotate(r) ==
    LET s == request[r].session
        f == s[1]
        next == <<f, issued[f] + 1>>
    IN  /\ request[r].at = "rotate"
        /\ IF family[f] = "live" /\ s \in live /\ expires[s] > now
           THEN /\ issued[f] < MaxSessions
                /\ issued' = [issued EXCEPT ![f] = @ + 1]
                /\ live' = (live \ {s}) \cup {next}
                /\ \E t \in request[r].since..now :
                      expires' = [expires EXCEPT ![next] = t + RefreshTTL]
                /\ request' = [request EXCEPT ![r].at = "rotated"]
           ELSE /\ request' = [request EXCEPT ![r].at = "contain"]
                /\ UNCHANGED <<issued, live, expires>>
        /\ UNCHANGED <<now, family>>

(* Faulty: only the session whose token was presented is revoked.          *)
RevokeSessionAlone(s) ==
    /\ family' = [family EXCEPT ![s[1]] = "revoked"]
    /\ live' = live \ {s}
    /\ UNCHANGED <<now, issued, expires>>

(* RevokeSession: any token of a family, revoked and expired ones too,     *)
(* revokes all of it.                                                      *)
RevokeSession(s) ==
    /\ family' = [family EXCEPT ![s[1]] = "revoked"]
    /\ live' = {t \in live : t[1] # s[1]}
    /\ UNCHANGED <<now, issued, expires>>

Contain(r) ==
    /\ request[r].at = "contain"
    /\ RevokeSession(request[r].session)
    /\ request' = [request EXCEPT ![r].at = "refused"]

Logout(s) ==
    /\ Exists(s)
    /\ RevokeSession(s)
    /\ UNCHANGED request

(* The process dies, the client goes away or a query fails.                *)
Lose(r) ==
    /\ request[r].at \in {"rotate", "contain"}
    /\ request' = [request EXCEPT ![r].at = "lost"]
    /\ UNCHANGED <<now, family, issued, live, expires>>

Tick ==
    /\ now < MaxTime
    /\ now' = now + 1
    /\ UNCHANGED <<family, issued, live, expires, request>>

Next ==
    \/ \E f \in Families : Login(f)
    \/ \E r \in Requests : (\E s \in Sessions : Lookup(r, s)) \/ Rotate(r) \/ Contain(r) \/ Lose(r)
    \/ \E s \in Sessions : Logout(s)
    \/ Tick

Spec == Init /\ [][Next]_vars
-----------------------------------------------------------------------------
(* At most one token of a login can be used, the last one issued, and none *)
(* once the family is revoked: two refreshes that looked the same session  *)
(* up, or a refresh that waited while a logout went through, do not leave  *)
(* a second or a late session behind.                                      *)
OnlyNewestLive ==
    \A s \in live : s = Newest(s[1]) /\ family[s[1]] = "live"

(* "The old refresh token cannot be reused" (docs/authentication.md): of   *)
(* two answered requests with one token at most one was served, and the    *)
(* family of a token that two requests presented is revoked by the time    *)
(* both are answered.                                                      *)
ReuseContained ==
    \A q, r \in Requests :
        /\ q # r
        /\ {request[q].at, request[r].at} \subseteq {"rotated", "refused"}
        /\ request[q].session = request[r].session
        => /\ {request[q].at, request[r].at} # {"rotated"}
           /\ family[request[q].session[1]] = "revoked"

(* A logout is final: its family is never live again and gets no session.  *)
LogoutIsFinal ==
    [][\A f \in Families :
          family[f] = "revoked" => /\ family'[f] = "revoked"
                                   /\ issued'[f] = issued[f]]_vars
=============================================================================
