---------------------------- MODULE RateLimiter ----------------------------
(***************************************************************************)
(* The limiter of requests: one token bucket for each address and path,    *)
(* made at the first request, looked up without the write lock by the      *)
(* later ones, and thrown away after ten minutes without a request.        *)
(*                                                                         *)
(* The keys are of one rule, and time passes in ticks of one token of it.  *)
(* Websockets, /health and /metrics do not come here.                      *)
(***************************************************************************)
EXTENDS Integers, FiniteSets

CONSTANTS
  Keys,     \* address and path
  Reqs,     \* requests in flight together
  Boxes,    \* limiters in memory
  NoBox,
  NoKey,
  Burst,    \* tokens of a full bucket
  Idle,     \* ticks in ten minutes
  MaxStall  \* ticks a request may take from its look-up to its verdict

ASSUME LimiterIds == NoBox \notin Boxes /\ NoKey \notin Keys
ASSUME LimiterBurst == Burst \in Nat \ {0} /\ MaxStall \in Nat /\ Idle \in Nat

\* A bucket fills up before it is idle.
ASSUME LimiterIdle == Burst + MaxStall <= Idle

\* The rules: tokens a minute and burst.  All leave a request a minute to stall.
Rules == {[limit |-> 5, burst |-> 5], [limit |-> 10, burst |-> 10],
          [limit |-> 100, burst |-> 50], [limit |-> 300, burst |-> 100],
          [limit |-> 10, burst |-> 5], [limit |-> 30, burst |-> 20],
          [limit |-> 30, burst |-> 15], [limit |-> 20, burst |-> 10],
          [limit |-> 100, burst |-> 20]}
ASSUME LimiterRules ==
  \A rule \in Rules : rule.burst + 1 * rule.limit <= 10 * rule.limit

VARIABLES
  visitors,  \* RateLimiter.visitors: the limiter of a key
  tokens,    \* rate.Limiter: tokens left
  age,       \* visitor.lastSeen: ticks since
  call,      \* requests in getLimiter and Allow
  allowance, \* history: the bucket the rule speaks of, one to a key and never thrown
             \* away; below zero when more was admitted than it held
  extra      \* history: what races gave a key since that bucket was last full

history == <<allowance, extra>>
limiterVars == <<visitors, tokens, age, call, history>>

\* stall: ticks since the request was seen.
Call == [pc : {"idle", "lookup", "touch", "create", "allow"}, key : Keys \cup {NoKey},
         held : Boxes \cup {NoBox}, stall : 0 .. MaxStall]
NoCall == [pc |-> "idle", key |-> NoKey, held |-> NoBox, stall |-> 0]

LimiterTypeOK ==
  /\ visitors \in [Keys -> Boxes \cup {NoBox}]
  /\ tokens \in [Boxes -> 0 .. Burst]
  /\ age \in [Boxes -> 0 .. Idle + 1]
  /\ call \in [Reqs -> Call]
  /\ allowance \in [Keys -> Int] /\ \A k \in Keys : allowance[k] <= Burst
  /\ extra \in [Keys -> Nat]

LimiterInit ==
  /\ visitors = [k \in Keys |-> NoBox]
  /\ tokens = [b \in Boxes |-> 0]
  /\ age = [b \in Boxes |-> 0]
  /\ call = [r \in Reqs |-> NoCall]
  /\ allowance = [k \in Keys |-> Burst]
  /\ extra = [k \in Keys |-> 0]

-----------------------------------------------------------------------------
(* A request.                                                              *)

Enter(r, k) ==
  /\ call[r].pc = "idle"
  /\ call' = [call EXCEPT ![r].pc = "lookup", ![r].key = k]
  /\ UNCHANGED <<visitors, tokens, age, history>>

\* Under the read lock.
Lookup(r) ==
  LET box == visitors[call[r].key]
  IN
  /\ call[r].pc = "lookup"
  /\ \/ box # NoBox /\ call' = [call EXCEPT ![r].pc = "touch", ![r].held = box]
     \/ box = NoBox /\ call' = [call EXCEPT ![r].pc = "create"]
  /\ UNCHANGED <<visitors, tokens, age, history>>

\* Under no lock: cleanup sees the old time or the new one.
Touch(r) ==
  /\ call[r].pc = "touch"
  /\ age' = [age EXCEPT ![call[r].held] = 0]
  /\ call' = [call EXCEPT ![r].pc = "allow"]
  /\ UNCHANGED <<visitors, tokens, history>>

\* What the next request of a key finds.
InForce(k) == IF visitors[k] = NoBox THEN Burst ELSE tokens[visitors[k]]

\* A limiter nobody refers to.
Unused == {b \in Boxes : (\A k \in Keys : visitors[k] # b) /\ (\A r \in Reqs : call[r].held # b)}

\* Under the write lock.  A limiter made meanwhile is replaced: what it gave out is
\* forgotten, and the requests that hold it answer to it.
Create(r) ==
  LET k == call[r].key
  IN
  /\ call[r].pc = "create"
  /\ \E box \in Unused :
       /\ box = CHOOSE b \in Unused : TRUE
       /\ visitors' = [visitors EXCEPT ![k] = box]
       /\ tokens' = [tokens EXCEPT ![box] = Burst]
       /\ age' = [age EXCEPT ![box] = 0]
       /\ call' = [call EXCEPT ![r].pc = "allow", ![r].held = box]
  /\ extra' = [extra EXCEPT ![k] = @ + Burst - InForce(k)]
  /\ UNCHANGED allowance

\* limiter.Allow: what follows it in the handler is not the limiter's.  The limiter
\* at hand may have been replaced or evicted since it was looked up.
Admit(r) ==
  LET c == call[r]
  IN
  /\ c.pc = "allow" /\ tokens[c.held] >= 1
  /\ tokens' = [tokens EXCEPT ![c.held] = @ - 1]
  /\ allowance' = [allowance EXCEPT ![c.key] = @ - 1]
  /\ extra' = [extra EXCEPT ![c.key] = IF visitors[c.key] = c.held THEN @ ELSE @ + 1]
  /\ call' = [call EXCEPT ![r] = NoCall]
  /\ UNCHANGED <<visitors, age>>

\* 429.
Refuse(r) ==
  /\ call[r].pc = "allow" /\ tokens[call[r].held] = 0
  /\ call' = [call EXCEPT ![r] = NoCall]
  /\ UNCHANGED <<visitors, tokens, age, history>>

-----------------------------------------------------------------------------
(* Time and cleanup.                                                       *)

Least(m, n) == IF m <= n THEN m ELSE n

\* Every bucket gains a token.  No request stalls for longer than MaxStall.
Tick ==
  /\ \A r \in Reqs : call[r].pc = "allow" => call[r].stall < MaxStall
  /\ tokens' = [b \in Boxes |-> Least(tokens[b] + 1, Burst)]
  /\ age' = [b \in Boxes |-> Least(age[b] + 1, Idle + 1)]
  /\ allowance' = [k \in Keys |-> Least(allowance[k] + 1, Burst)]
  /\ extra' = [k \in Keys |-> IF allowance[k] + 1 >= Burst THEN 0 ELSE extra[k]]
  /\ call' = [r \in Reqs |->
       IF call[r].pc = "allow" THEN [call[r] EXCEPT !.stall = @ + 1] ELSE call[r]]
  /\ UNCHANGED visitors

\* At any time, a superset of every five minutes.
\* (Mutation: the last request's time is not looked at.)
CleanupAll ==
  /\ \E k \in Keys : visitors[k] # NoBox
  /\ visitors' = [k \in Keys |-> NoBox]
  /\ UNCHANGED <<tokens, age, call, history>>
Cleanup ==
  LET old == {k \in Keys : visitors[k] # NoBox /\ age[visitors[k]] > Idle}
  IN
  /\ old # {}
  /\ visitors' = [k \in Keys |-> IF k \in old THEN NoBox ELSE visitors[k]]
  /\ UNCHANGED <<tokens, age, call, history>>

Step(r) == Lookup(r) \/ Touch(r) \/ Create(r)

LimiterNext ==
  \/ \E r \in Reqs : (\E k \in Keys : Enter(r, k)) \/ Step(r) \/ Admit(r) \/ Refuse(r)
  \/ Tick
  \/ Cleanup

LimiterSpec == LimiterInit /\ [][LimiterNext]_limiterVars

-----------------------------------------------------------------------------
(* Properties.                                                             *)

\* ratelimit.go:79, ratelimit.go:44.  Eviction neither gives an address tokens nor
\* takes them.  What a key can get is never less than the rule leaves it, and more
\* only by what a limiter replaced in a race of first requests had given out, and
\* by a token for each request admitted by a limiter that is no longer the key's;
\* and once the bucket of the rule is full again, by nothing.
OnlyRacesGiveMore ==
  \A k \in Keys :
    /\ allowance[k] <= InForce(k)
    /\ InForce(k) <= allowance[k] + extra[k]

\* The inductive invariant: a limiter is one key's, and was filled for as long as
\* it has not been seen, less what its requests under way may stall.
BoxesHaveOneKey ==
  \A k, l \in Keys : visitors[k] = visitors[l] /\ visitors[k] # NoBox => k = l

CallsHoldTheirKeys ==
  \A r \in Reqs :
    /\ call[r].pc # "idle" => call[r].key \in Keys
    /\ call[r].pc \in {"touch", "allow"} <=> call[r].held \in Boxes
    /\ \A k \in Keys : visitors[k] # NoBox /\ visitors[k] = call[r].held => k = call[r].key

StallIsShort ==
  \A r \in Reqs :
    /\ call[r].pc # "allow" => call[r].stall = 0
    /\ call[r].pc = "allow" => age[call[r].held] <= call[r].stall

IdleIsFull ==
  \A k \in Keys : visitors[k] # NoBox =>
    tokens[visitors[k]] >= Least(Burst, age[visitors[k]] - MaxStall)

LimiterInv ==
  /\ LimiterTypeOK
  /\ BoxesHaveOneKey
  /\ CallsHoldTheirKeys
  /\ StallIsShort
  /\ IdleIsFull
  /\ OnlyRacesGiveMore
=============================================================================
