--------------------------------- MODULE Pools ---------------------------------
(***************************************************************************)
(* pool/pool.py under threads: the connection pool, whose permit is taken   *)
(* before its lock and given back after it, and the token bucket.           *)
(*                                                                          *)
(* Tokens are counted in parts: a request costs Part of them, a tick of the *)
(* clock brings Rate of them.                                               *)
(***************************************************************************)
EXTENDS Integers, Sequences, FiniteSets

CONSTANTS
    Users,          \* threads
    MaxSize,        \* max_size
    MaxMade,        \* bound: connections ever made
    Part, Rate, Burst,
    MaxClock        \* bound: ticks of the clock

VARIABLES
    permit,         \* _semaphore
    idle,           \* _pool
    made,           \* _created
    user,           \* [Users -> [at, conn]]
    living,         \* connections that are alive
    failures,       \* history: factory calls that failed after a permit
    turnedDown,     \* history: "Max connections reached" was raised
    clock,
    bucket,         \* [tokens, last]
    granted         \* history: [0..MaxClock -> requests allowed up to that tick]

ASSUME PoolsAssumption ==
    /\ IsFiniteSet(Users) /\ MaxSize \in Nat
    /\ MaxMade \in Nat /\ MaxMade > MaxSize        \* there is always another one to make
    /\ Part \in Nat /\ Rate \in Nat /\ Burst \in Nat /\ MaxClock \in Nat

connVars == <<permit, idle, made, user, living, failures, turnedDown>>
rateVars == <<clock, bucket, granted>>
poolsVars == <<connVars, rateVars>>

NoConn == 0
Out == [at |-> "out", conn |-> NoConn]
Holding == {u \in Users : user[u].conn # NoConn}
Existing == {user[u].conn : u \in Holding} \cup {idle[i] : i \in DOMAIN idle}

PoolsInit ==
    /\ permit = MaxSize /\ idle = <<>> /\ made = 0 /\ user = [u \in Users |-> Out]
    /\ living = {} /\ failures = 0 /\ turnedDown = FALSE
    /\ clock = 0 /\ bucket = [tokens |-> Burst * Part, last |-> 0]
    /\ granted = [t \in 0..MaxClock |-> 0]

---------------------------------------------------------------------------
(* _acquire: first the permit, then, under the lock, a connection. *)
TakesPermit(u) ==
    /\ user[u].at = "out" /\ permit > 0
    /\ permit' = permit - 1
    /\ user' = [user EXCEPT ![u].at = "permitted"]
    /\ UNCHANGED <<idle, made, living, failures, turnedDown, rateVars>>

Fresh == CHOOSE c \in 1..MaxMade : c \notin living \cup Existing

(* _create_new, with `count` connections created so far: when it raises the *)
(* permit is not given back, when the factory raises the count is not.      *)
CreateNew(u, count, works) ==
    IF count >= MaxSize
    THEN /\ turnedDown' = TRUE
         /\ made' = count
         /\ user' = [user EXCEPT ![u] = Out]
         /\ UNCHANGED <<living, failures>>
    ELSE /\ made' = count + 1
         /\ UNCHANGED turnedDown
         /\ IF works
            THEN /\ user' = [user EXCEPT ![u] = [at |-> "holds", conn |-> Fresh]]
                 /\ living' = living \cup {Fresh} /\ UNCHANGED failures
            ELSE /\ user' = [user EXCEPT ![u] = Out]
                 /\ failures' = failures + 1 /\ UNCHANGED living

(* Faulty variant: a dead connection is replaced without being counted out. *)
AcquiresUncounted(u, works) ==
    /\ user[u].at = "permitted"
    /\ IF idle = <<>> THEN CreateNew(u, made, works) /\ UNCHANGED idle
       ELSE LET conn == idle[Len(idle)]
            IN /\ idle' = SubSeq(idle, 1, Len(idle) - 1)
               /\ IF conn \in living
                  THEN /\ user' = [user EXCEPT ![u] = [at |-> "holds", conn |-> conn]]
                       /\ UNCHANGED <<made, living, failures, turnedDown>>
                  ELSE CreateNew(u, made, works)
    /\ UNCHANGED <<permit, rateVars>>
Acquires(u, works) ==
    /\ user[u].at = "permitted"
    /\ IF idle = <<>> THEN CreateNew(u, made, works) /\ UNCHANGED idle
       ELSE LET conn == idle[Len(idle)]
            IN /\ idle' = SubSeq(idle, 1, Len(idle) - 1)
               /\ IF conn \in living
                  THEN /\ user' = [user EXCEPT ![u] = [at |-> "holds", conn |-> conn]]
                       /\ UNCHANGED <<made, living, failures, turnedDown>>
                  ELSE CreateNew(u, made - 1, works)
    /\ UNCHANGED <<permit, rateVars>>

(* _release: back under the lock, the permit after it. *)
Releases(u) ==
    /\ user[u].at = "holds"
    /\ IF user[u].conn \in living
       THEN idle' = Append(idle, user[u].conn) /\ UNCHANGED made
       ELSE made' = made - 1 /\ UNCHANGED idle
    /\ user' = [user EXCEPT ![u] = [at |-> "leaving", conn |-> NoConn]]
    /\ UNCHANGED <<permit, living, failures, turnedDown, rateVars>>
GivesPermit(u) ==
    /\ user[u].at = "leaving"
    /\ permit' = permit + 1
    /\ user' = [user EXCEPT ![u] = Out]
    /\ UNCHANGED <<idle, made, living, failures, turnedDown, rateVars>>

close_all ==
    /\ idle # <<>> \/ made # 0
    /\ living' = living \ {idle[i] : i \in DOMAIN idle}
    /\ idle' = <<>> /\ made' = 0
    /\ UNCHANGED <<permit, user, failures, turnedDown, rateVars>>

(* The peer ends a connection, in use or not (external). *)
ConnectionDies(c) ==
    /\ c \in living /\ living' = living \ {c}
    /\ UNCHANGED <<permit, idle, made, user, failures, turnedDown, rateVars>>

---------------------------------------------------------------------------
(* The token bucket. *)
ClockTicks ==
    /\ clock < MaxClock /\ clock' = clock + 1
    /\ granted' = [granted EXCEPT ![clock + 1] = granted[clock]]
    /\ UNCHANGED <<bucket, connVars>>

Refilled == LET full == bucket.tokens + (clock - bucket.last) * Rate
            IN IF full > Burst * Part THEN Burst * Part ELSE full

(* Faulty variant: a request that is turned away leaves the time as it was. *)
AllowTwice ==
    /\ bucket' = IF Refilled >= Part THEN [tokens |-> Refilled - Part, last |-> clock]
                 ELSE [tokens |-> Refilled, last |-> bucket.last]
    /\ granted' = IF Refilled >= Part THEN [granted EXCEPT ![clock] = @ + 1] ELSE granted
    /\ UNCHANGED <<clock, connVars>>
Allow ==
    /\ bucket' = [tokens |-> IF Refilled >= Part THEN Refilled - Part ELSE Refilled, last |-> clock]
    /\ granted' = IF Refilled >= Part THEN [granted EXCEPT ![clock] = @ + 1] ELSE granted
    /\ UNCHANGED <<clock, connVars>>

PoolsNext ==
    \/ \E u \in Users : TakesPermit(u) \/ Releases(u) \/ GivesPermit(u)
    \/ \E u \in Users, works \in BOOLEAN : Acquires(u, works)
    \/ close_all
    \/ \E c \in 1..MaxMade : ConnectionDies(c)
    \/ ClockTicks \/ Allow

PoolsSpec == PoolsInit /\ [][PoolsNext]_poolsVars

---------------------------------------------------------------------------
(* However threads, deaths, failed factories and close_all() interleave: a  *)
(* connection is in one place only, there are never more than max_size, who *)
(* holds a permit is not turned down, and a permit is lost only with a      *)
(* factory that failed.                                                     *)
ConnectionsAccounted ==
    /\ \A u, v \in Holding : u # v => user[u].conn # user[v].conn
    /\ Cardinality(Existing) = Cardinality(Holding) + Len(idle)
    /\ Cardinality(Existing) <= MaxSize
    /\ ~turnedDown
    /\ permit + Cardinality({u \in Users : user[u].at # "out"}) + failures = MaxSize

(* The requests allowed before tick t began. *)
Before(t) == IF t = 0 THEN 0 ELSE granted[t - 1]

(* Between any two moments no more is allowed than a full bucket and what   *)
(* flowed in meanwhile.                                                     *)
RateKept ==
    \A from, to \in 0..clock : from <= to =>
        Part * (granted[to] - Before(from)) <= Burst * Part + (to - from) * Rate

PoolsHold == ConnectionsAccounted /\ RateKept
=============================================================================
