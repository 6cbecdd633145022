---------------------------- MODULE LoginLimits -----------------------------
(***************************************************************************)
(* The budgets of the authentication routes: token buckets in bounded      *)
(* stores (ratelimit.Limiter), and the slots for password hashing.  A      *)
(* login takes a token of its address, then reserves one of the account    *)
(* before the password is looked at, and gives that one back unless the    *)
(* credentials were wrong.                                                 *)
(*                                                                         *)
(* A bucket holds Capacity tokens and fills up in one Period.  To stay in  *)
(* the integers, a token weighs Period units and a tick of the clock       *)
(* refills Capacity units.  A ticket names its bucket by the time it was   *)
(* born: a key never has two buckets that were born at the same time.      *)
(***************************************************************************)
EXTENDS Naturals, FiniteSets, FiniteSetsExt

CONSTANTS
    Addresses, Emails,
    Attempts,      \* requests; each is one login or registration
    Capacity,      \* tokens of a full bucket, by store
    Period,        \* ticks in which an empty bucket fills up, by store
    Second,        \* ticks between two cleanups of a store
    MaxEntries,    \* buckets a store may hold
    HashSlots,     \* passwords hashed at a time
    MaxClock,      \* bound on the clock
    Absent         \* no bucket

Stores  == {"login", "account", "register"}
Keys    == Addresses \cup Emails
Entries == Stores \X Keys

ASSUME LimitsAssumption ==
    /\ Capacity \in [Stores -> Nat \ {0}] /\ Period \in [Stores -> Nat \ {0}]
    /\ Second \in Nat /\ MaxEntries \in Nat \ {0} /\ HashSlots \in Nat /\ MaxClock \in Nat
    /\ Absent \notin [tokens: Nat, updated: Nat, expires: Nat, born: Nat]

VARIABLES
    clock,
    bucket,     \* Limiter.entries of every store
    sweepAt,    \* Limiter.nextCleanup
    attempt     \* how far each request is, and its ticket for the account

limitVars == <<clock, bucket, sweepAt, attempt>>

Full(s) == Capacity[s] * Period[s]
Buckets == [tokens: Nat, updated: 0..MaxClock, expires: Nat, born: 0..MaxClock]

Fresh == [at |-> "new"]
(* since, born: when the account's token was taken, and its bucket;        *)
(* back: when it was given back, MaxClock + 1 if it was not.               *)
Logins == [at: {"lookup", "hash", "refund", "failed", "done"}, email: Emails,
           since: 0..MaxClock, born: 0..MaxClock, back: 0..(MaxClock + 1)]
Others == [at: {"account"}, email: Emails] \cup [at: {"register", "encode", "ended"}]

Held(t, s) == {k \in Keys : t[<<s, k>>] # Absent}

LimitsTypeOK ==
    /\ clock \in 0..MaxClock
    /\ bucket \in [Entries -> Buckets \cup {Absent}]
    /\ \A e \in Entries : bucket[e] # Absent => bucket[e].tokens <= Full(e[1])
    /\ \A s \in Stores : Cardinality(Held(bucket, s)) <= MaxEntries
    /\ sweepAt \in [Stores -> Nat]
    /\ attempt \in [Attempts -> {Fresh} \cup Logins \cup Others]

LimitsInit ==
    /\ clock = 0
    /\ bucket = [e \in Entries |-> Absent]
    /\ sweepAt = [s \in Stores |-> 0]
    /\ attempt = [a \in Attempts |-> Fresh]

-----------------------------------------------------------------------------
Refilled(s, b) ==
    [b EXCEPT !.tokens = Min({Full(s), b.tokens + (clock - b.updated) * Capacity[s]}),
              !.updated = clock]

(* What is left of a store when the bucket of key k is asked for: expired  *)
(* buckets go, all of them when a cleanup is due and k's own at any time.  *)
Cleaned(s, k) ==
    [e \in Entries |->
       IF /\ e[1] = s /\ bucket[e] # Absent /\ bucket[e].expires <= clock
          /\ sweepAt[s] <= clock \/ e[2] = k
       THEN Absent ELSE bucket[e]]

NewBucket(s) ==
    [tokens |-> Full(s), updated |-> clock, expires |-> clock + Period[s], born |-> clock]

(* Faulty: a bucket expires one period after it was created.               *)
SpendOnce(s, b) == [b EXCEPT !.tokens = @ - Period[s]]

(* A token is taken, and the bucket kept until it would be full again.     *)
Spend(s, b) == [b EXCEPT !.tokens = @ - Period[s], !.expires = clock + Period[s]]

(* Limiter.Take, by what it returns: a ticket or none.  A full store takes *)
(* no new bucket.                                                          *)
Take(s, k, granted) ==
    LET left == Cleaned(s, k)
        b    == IF left[<<s, k>>] = Absent THEN NewBucket(s) ELSE Refilled(s, left[<<s, k>>])
    IN  /\ sweepAt' = [sweepAt EXCEPT ![s] = IF @ <= clock THEN clock + Second ELSE @]
        /\ IF left[<<s, k>>] = Absent /\ Cardinality(Held(left, s)) >= MaxEntries
           THEN ~granted /\ bucket' = left
           ELSE IF b.tokens < Period[s]
           THEN ~granted /\ bucket' = [left EXCEPT ![<<s, k>>] = b]
           ELSE granted  /\ bucket' = [left EXCEPT ![<<s, k>>] = Spend(s, b)]

-----------------------------------------------------------------------------
(* Handler.Login: every attempt costs its address a token.  One that has   *)
(* no valid email gets no further than that.                               *)
LoginFrom(a, ip, m) ==
    /\ attempt[a] = Fresh
    /\ \E granted, valid \in BOOLEAN :
          /\ Take("login", ip, granted)
          /\ attempt' = [attempt EXCEPT ![a] =
                IF granted /\ valid THEN [at |-> "account", email |-> m] ELSE [at |-> "ended"]]
    /\ UNCHANGED clock

(* Then a token of the account is reserved.                                *)
Reserve(a) ==
    LET m == attempt[a].email
    IN  /\ attempt[a].at = "account"
        /\ \E granted \in BOOLEAN :
              /\ Take("account", m, granted)
              /\ attempt' = [attempt EXCEPT ![a] =
                    IF granted
                    THEN [at |-> "lookup", email |-> m, since |-> clock,
                          born |-> bucket'[<<"account", m>>].born, back |-> MaxClock + 1]
                    ELSE [at |-> "ended"]]
        /\ UNCHANGED clock

(* Handler.Register: a token of the address.                               *)
RegisterFrom(a, ip) ==
    /\ attempt[a] = Fresh
    /\ \E granted \in BOOLEAN :
          /\ Take("register", ip, granted)
          /\ attempt' = [attempt EXCEPT ![a] =
                [at |-> IF granted THEN "register" ELSE "ended"]]
    /\ UNCHANGED clock

Hashing == {a \in Attempts : attempt[a].at \in {"hash", "encode"}}

Goes(a, to) ==
    /\ attempt' = [attempt EXCEPT ![a].at = to]
    /\ UNCHANGED <<clock, bucket, sweepAt>>

(* Faulty: a login that could not be looked at keeps its token.            *)
FindOrForget(a) ==
    /\ attempt[a].at = "lookup"
    /\ \/ Goes(a, "failed")
       \/ Goes(a, "done")
       \/ Cardinality(Hashing) < HashSlots /\ Goes(a, "hash")

(* Service.Login finds nobody, or fails to ask, or goes on if it gets a    *)
(* slot at once.                                                           *)
Find(a) ==
    /\ attempt[a].at = "lookup"
    /\ \/ Goes(a, "failed")
       \/ Goes(a, "refund")
       \/ Cardinality(Hashing) < HashSlots /\ Goes(a, "hash")

(* The password is wrong, or it is right and a session is issued or not.   *)
Verify(a) ==
    /\ attempt[a].at = "hash"
    /\ Goes(a, "failed") \/ Goes(a, "refund")

(* Service.Register: the input is invalid, or the password is hashed if a  *)
(* slot is free at once.                                                   *)
Encode(a) ==
    /\ attempt[a].at = "register"
    /\ \/ Goes(a, "ended")
       \/ Cardinality(Hashing) < HashSlots /\ Goes(a, "encode")

(* The slot is free again; the user exists or the email was taken.         *)
Encoded(a) ==
    /\ attempt[a].at = "encode"
    /\ Goes(a, "ended")

(* One token more, up to a full bucket.                                    *)
Regained(b) ==
    [Refilled("account", b) EXCEPT !.tokens = Min({Full("account"), @ + Period["account"]})]

(* Faulty: whatever bucket the account has now gets the token.             *)
RefundAnyBucket(a) ==
    LET e == <<"account", attempt[a].email>>
    IN  /\ attempt[a].at = "refund"
        /\ bucket[e] # Absent
        /\ bucket' = [bucket EXCEPT ![e] = Regained(@)]
        /\ attempt' = [attempt EXCEPT ![a].at = "done"]
        /\ UNCHANGED <<clock, sweepAt>>

(* Ticket.Refund: into its own bucket if the store still has that one.     *)
Refund(a) ==
    LET e    == <<"account", attempt[a].email>>
        same == bucket[e] # Absent /\ bucket[e].born = attempt[a].born
    IN  /\ attempt[a].at = "refund"
        /\ bucket' = IF ~same THEN bucket ELSE [bucket EXCEPT ![e] = Regained(@)]
        /\ attempt' = [attempt EXCEPT ![a] =
              [@ EXCEPT !.at = "done",
                        !.back = IF same THEN clock ELSE attempt[a].back]]
        /\ UNCHANGED <<clock, sweepAt>>

Pass ==
    /\ clock < MaxClock
    /\ clock' = clock + 1
    /\ UNCHANGED <<bucket, sweepAt, attempt>>

LimitsNext ==
    \/ \E a \in Attempts :
          \/ \E ip \in Addresses : RegisterFrom(a, ip) \/ \E m \in Emails : LoginFrom(a, ip, m)
          \/ Reserve(a) \/ Find(a) \/ Verify(a) \/ Encode(a) \/ Encoded(a) \/ Refund(a)
    \/ Pass

LimitsSpec == LimitsInit /\ [][LimitsNext]_limitVars
-----------------------------------------------------------------------------
Reserved(m) == {a \in Attempts : "since" \in DOMAIN attempt[a] /\ attempt[a].email = m}

(* "Login reserves an account token before service work to bound           *)
(* concurrent attempts" (docs/rate-limiting.md:24): since any moment, an   *)
(* account has seen no more logins than a full bucket and the refill since *)
(* then allow, beyond those that gave their token back; neither dropping   *)
(* idle buckets nor late refunds get around it.                            *)
AttemptsWithinBudget ==
    \A m \in Emails, s \in 0..clock :
       Period["account"] * Cardinality({a \in Reserved(m) : attempt[a].since >= s})
       <= Full("account") + (clock - s) * Capacity["account"]
          + Period["account"] *
               Cardinality({a \in Reserved(m) : attempt[a].back \in s..MaxClock})

(* "Full stores reject new identities ... rather than evict active limits" *)
(* (docs/rate-limiting.md): a bucket that is dropped or replaced would be  *)
(* full by then, so its key loses no debt.                                 *)
ForgetsOnlyFull ==
    [][\A e \in Entries :
          /\ bucket[e] # Absent
          /\ bucket'[e] = Absent \/ bucket'[e].born # bucket[e].born
          => Refilled(e[1], bucket[e]).tokens = Full(e[1])]_limitVars

(* "Invalid credentials keep the token spent", all else gives it back      *)
(* (docs/rate-limiting.md:25): what an account's bucket lacks is owed by   *)
(* logins that failed or are still under way.                              *)
ShortageIsOwed ==
    \A m \in Emails :
       LET b == bucket[<<"account", m>>]
       IN  b # Absent =>
              Full("account") - b.tokens <=
                 Period["account"] * Cardinality({a \in Reserved(m) :
                     attempt[a].born = b.born /\ attempt[a].at # "done"})
=============================================================================
