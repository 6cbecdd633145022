----------------------------- MODULE MCAccounts ----------------------------
(* What stands between a person and the data of an organization: the       *)
(* budgets of login and registration, the sessions they start, and the     *)
(* memberships.                                                            *)
(*   - Two logins of one user and three refreshes: two that overlap on a   *)
(*     token and one that uses the replacement meanwhile.                  *)
(*   - One address and two emails, of which the store of accounts has room *)
(*     for one; three attempts.                                            *)
(*   - Three users of one organization, and two requests at a time.        *)
(* These share no state, so that each runs while the others rest.          *)
EXTENDS SessionFamilies, LoginLimits, Membership, TLC

Interchangeable == Permutations(Requests)

Budgets  == [s \in Stores |-> IF s = "login" THEN 2 ELSE 1]
TwoTicks == [s \in Stores |-> 2]

AccountsInit == Init /\ LimitsInit /\ MemberInit

AccountsNext ==
    \/ LimitsInit /\ MemberInit /\ Next /\ UNCHANGED <<limitVars, memberVars>>
    \/ Init /\ MemberInit /\ LimitsNext /\ UNCHANGED <<vars, memberVars>>
    \/ Init /\ LimitsInit /\ MemberNext /\ UNCHANGED <<vars, limitVars>>

AccountsSpec == AccountsInit /\ [][AccountsNext]_<<vars, limitVars, memberVars>>

AccountsTypeOK == SessionTypeOK /\ LimitsTypeOK /\ MemberTypeOK
=============================================================================
