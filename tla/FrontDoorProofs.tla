-------------------------- MODULE FrontDoorProofs --------------------------
(***************************************************************************)
(* What the limiter in front of the dashboard admits beside its rule, and  *)
(* when a tab's token is refused, for any number of addresses, tabs and    *)
(* tokens.                                                                 *)
(***************************************************************************)
EXTENDS FrontDoor, TLAPS

USE LimiterIds, LimiterBurst, LimiterIdle

LEMMA LimiterStarts == LimiterInit => LimiterInv
<1> SUFFICES ASSUME LimiterInit PROVE LimiterInv
  OBVIOUS
<1>1. LimiterTypeOK
  BY DEF LimiterInit, LimiterTypeOK, Call, NoCall
<1>2. BoxesHaveOneKey /\ IdleIsFull /\ OnlyRacesGiveMore
  BY DEF LimiterInit, BoxesHaveOneKey, IdleIsFull, OnlyRacesGiveMore, InForce
<1>3. CallsHoldTheirKeys /\ StallIsShort
  BY DEF LimiterInit, CallsHoldTheirKeys, StallIsShort, NoCall
<1> QED BY <1>1, <1>2, <1>3 DEF LimiterInv

LEMMA EnterKeeps ==
  ASSUME LimiterInv, NEW r \in Reqs, NEW k \in Keys, Enter(r, k)
  PROVE  LimiterInv'
<1> USE DEF LimiterInv
<1>1. LimiterTypeOK'
  <2>1. call' \in [Reqs -> Call]
    <3>1. call \in [Reqs -> Call] /\ call[r] \in Call
      BY DEF LimiterTypeOK
    <3>2. [call[r] EXCEPT !.pc = "lookup", !.key = k] \in Call
      BY <3>1 DEF Call
    <3>3. call' = [call EXCEPT ![r] = [call[r] EXCEPT !.pc = "lookup", !.key = k]]
      BY <3>1 DEF Enter
    <3> QED BY <3>1, <3>2, <3>3
  <2>2. UNCHANGED <<visitors, tokens, age, allowance, extra>>
    BY DEF Enter, history
  <2> QED BY <2>1, <2>2 DEF LimiterTypeOK
<1>2. BoxesHaveOneKey' /\ IdleIsFull' /\ OnlyRacesGiveMore'
  BY DEF Enter, history, BoxesHaveOneKey, IdleIsFull, OnlyRacesGiveMore, InForce
<1>3. CallsHoldTheirKeys'
  BY DEF Enter, CallsHoldTheirKeys, LimiterTypeOK, Call
<1>4. StallIsShort'
  BY DEF Enter, StallIsShort, LimiterTypeOK, Call
<1> QED BY <1>1, <1>2, <1>3, <1>4

LEMMA LookupKeeps ==
  ASSUME LimiterInv, NEW r \in Reqs, Lookup(r)
  PROVE  LimiterInv'
<1> USE DEF LimiterInv
<1>0. call[r].key \in Keys
  BY DEF Lookup, CallsHoldTheirKeys
<1>1. LimiterTypeOK'
  BY <1>0 DEF Lookup, history, LimiterTypeOK, Call
<1>2. BoxesHaveOneKey' /\ IdleIsFull' /\ OnlyRacesGiveMore'
  BY DEF Lookup, history, BoxesHaveOneKey, IdleIsFull, OnlyRacesGiveMore, InForce
<1>3. CallsHoldTheirKeys'
  <2> DEFINE box == visitors[call[r].key]
  <2>1. call[r].held \notin Boxes /\ call[r].pc = "lookup"
    BY DEF Lookup, CallsHoldTheirKeys
  <2>2. CASE box # NoBox /\ call' = [call EXCEPT ![r].pc = "touch", ![r].held = box]
    <3>1. box \in Boxes /\ \A k \in Keys : visitors[k] = box => k = call[r].key
      BY <2>2, <1>0 DEF BoxesHaveOneKey, LimiterTypeOK
    <3>2. call'[r].pc = "touch" /\ call'[r].held = box /\ call'[r].key = call[r].key
      BY <2>2 DEF LimiterTypeOK, Call
    <3>3. \A s \in Reqs : s # r => call'[s] = call[s]
      BY <2>2 DEF LimiterTypeOK
    <3>4. visitors' = visitors
      BY DEF Lookup
    <3> QED BY <1>0, <3>1, <3>2, <3>3, <3>4 DEF CallsHoldTheirKeys
  <2>3. CASE box = NoBox /\ call' = [call EXCEPT ![r].pc = "create"]
    <3>1. call'[r].pc = "create" /\ call'[r].held = call[r].held /\ call'[r].key = call[r].key
      BY <2>3 DEF LimiterTypeOK, Call
    <3>2. \A s \in Reqs : s # r => call'[s] = call[s]
      BY <2>3 DEF LimiterTypeOK
    <3>3. visitors' = visitors
      BY DEF Lookup
    <3> QED BY <1>0, <2>1, <3>1, <3>2, <3>3 DEF CallsHoldTheirKeys
  <2> QED BY <2>2, <2>3 DEF Lookup
<1>4. StallIsShort'
  <2>1. \A s \in Reqs : s # r => call'[s] = call[s]
    BY DEF Lookup, history, LimiterTypeOK
  <2>2. call'[r].pc \in {"touch", "create"} /\ call'[r].stall = call[r].stall
    BY DEF Lookup, history, LimiterTypeOK, Call
  <2>3. call[r].stall = 0 /\ age' = age
    BY DEF Lookup, StallIsShort
  <2> QED BY <2>1, <2>2, <2>3 DEF StallIsShort
<1> QED BY <1>1, <1>2, <1>3, <1>4

LEMMA TouchKeeps ==
  ASSUME LimiterInv, NEW r \in Reqs, Touch(r)
  PROVE  LimiterInv'
<1> USE DEF LimiterInv
<1>0. call[r].held \in Boxes
  BY DEF Touch, CallsHoldTheirKeys
<1>1. LimiterTypeOK'
  BY <1>0 DEF Touch, history, LimiterTypeOK, Call
<1>2. BoxesHaveOneKey' /\ OnlyRacesGiveMore'
  BY DEF Touch, history, BoxesHaveOneKey, OnlyRacesGiveMore, InForce
<1>3. IdleIsFull'
  <2> SUFFICES ASSUME NEW k \in Keys, visitors[k] # NoBox
               PROVE  tokens[visitors[k]] >= Least(Burst, age'[visitors[k]] - MaxStall)
    BY DEF IdleIsFull, Touch
  <2>1. visitors[k] \in Boxes /\ tokens[visitors[k]] \in 0 .. Burst
    BY DEF LimiterTypeOK
  <2>2. CASE visitors[k] = call[r].held
    BY <2>1, <2>2, <1>0 DEF Touch, LimiterTypeOK, Least
  <2>3. CASE visitors[k] # call[r].held
    BY <2>1, <2>3 DEF Touch, LimiterTypeOK, IdleIsFull
  <2> QED BY <2>2, <2>3
<1>4. CallsHoldTheirKeys'
  BY DEF Touch, CallsHoldTheirKeys, LimiterTypeOK, Call
<1>5. StallIsShort'
  BY <1>0 DEF Touch, StallIsShort, CallsHoldTheirKeys, LimiterTypeOK, Call
<1> QED BY <1>1, <1>2, <1>3, <1>4, <1>5

LEMMA CreateKeeps ==
  ASSUME LimiterInv, NEW r \in Reqs, Create(r)
  PROVE  LimiterInv'
<1> USE DEF LimiterInv
<1>0. PICK box \in Unused : /\ visitors' = [visitors EXCEPT ![call[r].key] = box]
                            /\ tokens' = [tokens EXCEPT ![box] = Burst]
                            /\ age' = [age EXCEPT ![box] = 0]
                            /\ call' = [call EXCEPT ![r].pc = "allow", ![r].held = box]
  BY DEF Create
<1> DEFINE key == call[r].key
<1>1. /\ key \in Keys /\ call[r].pc = "create"
      /\ box \in Boxes
      /\ \A k \in Keys : visitors[k] # box
      /\ \A s \in Reqs : call[s].held # box
      /\ allowance' = allowance
      /\ extra' = [extra EXCEPT ![key] = @ + Burst - InForce(key)]
  BY DEF Create, Unused, CallsHoldTheirKeys
<1>2. LimiterTypeOK'
  <2>1. InForce(key) \in 0 .. Burst
    BY <1>1 DEF InForce, LimiterTypeOK
  <2>2. extra' \in [Keys -> Nat]
    BY <1>1, <2>1 DEF LimiterTypeOK
  <2> QED BY <1>0, <1>1, <2>2 DEF LimiterTypeOK, Call
<1>3. BoxesHaveOneKey'
  BY <1>0, <1>1 DEF BoxesHaveOneKey, LimiterTypeOK
<1>4. \A k \in Keys : visitors'[k] = IF k = key THEN box ELSE visitors[k]
  BY <1>0 DEF LimiterTypeOK
<1>5. CallsHoldTheirKeys'
  <2> SUFFICES ASSUME NEW s \in Reqs
               PROVE  /\ call'[s].pc # "idle" => call'[s].key \in Keys
                      /\ call'[s].pc \in {"touch", "allow"} <=> call'[s].held \in Boxes
                      /\ \A k \in Keys : visitors'[k] # NoBox /\ visitors'[k] = call'[s].held
                                           => k = call'[s].key
    BY DEF CallsHoldTheirKeys
  <2>1. CASE s = r
    <3>1. call'[s].pc = "allow" /\ call'[s].held = box /\ call'[s].key = key
      BY <2>1, <1>0 DEF LimiterTypeOK, Call
    <3> QED BY <3>1, <1>1, <1>4
  <2>2. CASE s # r
    <3>1. call'[s] = call[s] /\ call[s].held # box
      BY <2>2, <1>0, <1>1 DEF LimiterTypeOK
    <3> QED BY <3>1, <1>4 DEF CallsHoldTheirKeys
  <2> QED BY <2>1, <2>2
<1>6. StallIsShort'
  BY <1>0, <1>1 DEF StallIsShort, CallsHoldTheirKeys, LimiterTypeOK, Call
<1>7. IdleIsFull'
  <2> SUFFICES ASSUME NEW k \in Keys, visitors'[k] # NoBox
               PROVE  tokens'[visitors'[k]] >= Least(Burst, age'[visitors'[k]] - MaxStall)
    BY DEF IdleIsFull
  <2>1. CASE k = key
    BY <2>1, <1>0, <1>1, <1>4 DEF LimiterTypeOK, Least
  <2>2. CASE k # key
    BY <2>2, <1>0, <1>1, <1>4 DEF LimiterTypeOK, IdleIsFull
  <2> QED BY <2>1, <2>2
<1>8. OnlyRacesGiveMore'
  <2> SUFFICES ASSUME NEW k \in Keys
               PROVE  allowance[k] <= InForce(k)' /\ InForce(k)' <= allowance[k] + extra'[k]
    BY <1>1 DEF OnlyRacesGiveMore
  <2>1. /\ allowance[k] \in Int /\ allowance[k] <= Burst /\ extra[k] \in Nat
        /\ InForce(k) \in 0 .. Burst
        /\ allowance[k] <= InForce(k) /\ InForce(k) <= allowance[k] + extra[k]
    BY DEF OnlyRacesGiveMore, InForce, LimiterTypeOK
  <2>2. CASE k = key
    <3>1. InForce(k)' = Burst
      BY <2>2, <1>0, <1>1, <1>4 DEF InForce, LimiterTypeOK
    <3>2. extra'[k] = extra[k] + Burst - InForce(k)
      BY <2>2, <1>1 DEF LimiterTypeOK
    <3> QED BY <2>1, <3>1, <3>2
  <2>3. CASE k # key
    <3>1. InForce(k)' = InForce(k) /\ extra'[k] = extra[k]
      BY <2>3, <1>0, <1>1, <1>4 DEF InForce, LimiterTypeOK
    <3> QED BY <2>1, <3>1
  <2> QED BY <2>2, <2>3
<1> QED BY <1>2, <1>3, <1>5, <1>6, <1>7, <1>8

LEMMA AdmitKeeps ==
  ASSUME LimiterInv, NEW r \in Reqs, Admit(r)
  PROVE  LimiterInv'
<1> USE DEF LimiterInv
<1> DEFINE key == call[r].key
           box == call[r].held
<1>0. /\ key \in Keys /\ box \in Boxes /\ call[r].pc = "allow"
      /\ tokens[box] \in 1 .. Burst
      /\ age[box] <= MaxStall
      /\ \A k \in Keys : visitors[k] = box => k = key
  <2>1. key \in Keys /\ box \in Boxes /\ call[r].pc = "allow"
        /\ \A k \in Keys : visitors[k] = box => k = key
    BY DEF Admit, CallsHoldTheirKeys
  <2>2. tokens[box] \in 1 .. Burst
    BY <2>1 DEF Admit, LimiterTypeOK
  <2>3. age[box] <= call[r].stall /\ call[r].stall \in 0 .. MaxStall /\ age[box] \in Nat
    BY <2>1 DEF StallIsShort, LimiterTypeOK, Call
  <2> QED BY <2>1, <2>2, <2>3
<1>1. /\ tokens' = [tokens EXCEPT ![box] = @ - 1]
      /\ allowance' = [allowance EXCEPT ![key] = @ - 1]
      /\ extra' = [extra EXCEPT ![key] = IF visitors[key] = box THEN @ ELSE @ + 1]
      /\ call' = [call EXCEPT ![r] = NoCall]
      /\ UNCHANGED <<visitors, age>>
  BY DEF Admit
<1>3. LimiterTypeOK'
  <2>1. tokens' \in [Boxes -> 0 .. Burst]
    BY <1>0, <1>1 DEF LimiterTypeOK
  <2>2. /\ allowance' \in [Keys -> Int] /\ \A k \in Keys : allowance'[k] <= Burst
        /\ extra' \in [Keys -> Nat]
    BY <1>0, <1>1 DEF LimiterTypeOK
  <2>3. NoCall \in Call
    BY DEF NoCall, Call
  <2> QED BY <1>1, <2>1, <2>2, <2>3 DEF LimiterTypeOK
<1>4. BoxesHaveOneKey'
  BY <1>1 DEF BoxesHaveOneKey
<1>5. CallsHoldTheirKeys'
  BY <1>1 DEF CallsHoldTheirKeys, LimiterTypeOK, NoCall
<1>6. StallIsShort'
  BY <1>1 DEF StallIsShort, LimiterTypeOK, NoCall
<1>7. IdleIsFull'
  <2> SUFFICES ASSUME NEW k \in Keys, visitors[k] # NoBox
               PROVE  tokens'[visitors[k]] >= Least(Burst, age[visitors[k]] - MaxStall)
    BY <1>1 DEF IdleIsFull
  <2>1. CASE visitors[k] = box
    BY <2>1, <1>0, <1>1 DEF LimiterTypeOK, Least
  <2>2. CASE visitors[k] # box
    BY <2>2, <1>0, <1>1 DEF LimiterTypeOK, IdleIsFull
  <2> QED BY <2>1, <2>2
<1>8. OnlyRacesGiveMore'
  <2> SUFFICES ASSUME NEW k \in Keys
               PROVE  allowance'[k] <= InForce(k)' /\ InForce(k)' <= allowance'[k] + extra'[k]
    BY DEF OnlyRacesGiveMore
  <2>1. /\ allowance[k] \in Int /\ extra[k] \in Nat /\ InForce(k) \in 0 .. Burst
        /\ allowance[k] <= InForce(k) /\ InForce(k) <= allowance[k] + extra[k]
    BY DEF OnlyRacesGiveMore, InForce, LimiterTypeOK
  <2>2. CASE k = key /\ visitors[k] = box
    <3>1. InForce(k)' = InForce(k) - 1
      BY <2>2, <1>0, <1>1 DEF InForce, LimiterTypeOK
    <3>2. allowance'[k] = allowance[k] - 1 /\ extra'[k] = extra[k]
      BY <2>2, <1>1 DEF LimiterTypeOK
    <3> QED BY <2>1, <3>1, <3>2
  <2>3. CASE k = key /\ visitors[k] # box
    <3>1. InForce(k)' = InForce(k)
      BY <2>3, <1>0, <1>1 DEF InForce, LimiterTypeOK
    <3>2. allowance'[k] = allowance[k] - 1 /\ extra'[k] = extra[k] + 1
      BY <2>3, <1>1 DEF LimiterTypeOK
    <3> QED BY <2>1, <3>1, <3>2
  <2>4. CASE k # key
    <3>1. InForce(k)' = InForce(k)
      BY <2>4, <1>0, <1>1 DEF InForce, LimiterTypeOK
    <3>2. allowance'[k] = allowance[k] /\ extra'[k] = extra[k]
      BY <2>4, <1>1 DEF LimiterTypeOK
    <3> QED BY <2>1, <3>1, <3>2
  <2> QED BY <2>2, <2>3, <2>4
<1> QED BY <1>3, <1>4, <1>5, <1>6, <1>7, <1>8

LEMMA RefuseKeeps ==
  ASSUME LimiterInv, NEW r \in Reqs, Refuse(r)
  PROVE  LimiterInv'
<1> USE DEF LimiterInv
<1>1. LimiterTypeOK'
  <2>1. NoCall \in Call
    BY DEF NoCall, Call
  <2> QED BY <2>1 DEF Refuse, history, LimiterTypeOK
<1>2. BoxesHaveOneKey' /\ IdleIsFull' /\ OnlyRacesGiveMore'
  BY DEF Refuse, history, BoxesHaveOneKey, IdleIsFull, OnlyRacesGiveMore, InForce
<1>3. CallsHoldTheirKeys'
  BY DEF Refuse, CallsHoldTheirKeys, LimiterTypeOK, NoCall
<1>4. StallIsShort'
  BY DEF Refuse, StallIsShort, LimiterTypeOK, NoCall
<1> QED BY <1>1, <1>2, <1>3, <1>4

LEMMA TickKeeps == ASSUME LimiterInv, Tick PROVE LimiterInv'
<1> USE DEF LimiterInv
<1>1. /\ \A b \in Boxes : /\ tokens[b] \in 0 .. Burst /\ age[b] \in 0 .. Idle + 1
                          /\ tokens'[b] = Least(tokens[b] + 1, Burst)
                          /\ age'[b] = Least(age[b] + 1, Idle + 1)
      /\ \A k \in Keys : /\ allowance[k] \in Int /\ allowance[k] <= Burst
                         /\ allowance'[k] = Least(allowance[k] + 1, Burst)
                         /\ extra[k] \in Nat
                         /\ extra'[k] = IF allowance[k] + 1 >= Burst THEN 0 ELSE extra[k]
      /\ visitors' = visitors
  BY DEF Tick, LimiterTypeOK
<1>2. \A s \in Reqs :
        /\ call[s] \in Call /\ call'[s] \in Call
        /\ call'[s].pc = call[s].pc /\ call'[s].held = call[s].held /\ call'[s].key = call[s].key
        /\ call'[s].stall = IF call[s].pc = "allow" THEN call[s].stall + 1 ELSE call[s].stall
  BY DEF Tick, LimiterTypeOK, Call
<1>3. LimiterTypeOK'
  <2>1. tokens' \in [Boxes -> 0 .. Burst] /\ age' \in [Boxes -> 0 .. Idle + 1]
    BY <1>1 DEF Tick, Least
  <2>2. /\ allowance' \in [Keys -> Int] /\ \A k \in Keys : allowance'[k] <= Burst
        /\ extra' \in [Keys -> Nat]
    BY <1>1 DEF Tick, Least
  <2>3. call' \in [Reqs -> Call]
    BY <1>2 DEF Tick
  <2> QED BY <1>1, <2>1, <2>2, <2>3 DEF LimiterTypeOK
<1>4. BoxesHaveOneKey'
  BY <1>1 DEF BoxesHaveOneKey
<1>5. CallsHoldTheirKeys'
  BY <1>1, <1>2 DEF CallsHoldTheirKeys
<1>6. StallIsShort'
  <2> SUFFICES ASSUME NEW s \in Reqs
               PROVE  /\ call'[s].pc # "allow" => call'[s].stall = 0
                      /\ call'[s].pc = "allow" => age'[call'[s].held] <= call'[s].stall
    BY DEF StallIsShort
  <2>1. CASE call[s].pc # "allow"
    BY <2>1, <1>2 DEF StallIsShort
  <2>2. CASE call[s].pc = "allow"
    <3>1. call[s].held \in Boxes /\ age[call[s].held] <= call[s].stall
          /\ call[s].stall \in 0 .. MaxStall
      BY <2>2, <1>2 DEF StallIsShort, CallsHoldTheirKeys, Call
    <3> QED BY <2>2, <3>1, <1>1, <1>2 DEF Least
  <2> QED BY <2>1, <2>2
<1>7. IdleIsFull'
  <2> SUFFICES ASSUME NEW k \in Keys, visitors[k] # NoBox
               PROVE  tokens'[visitors[k]] >= Least(Burst, age'[visitors[k]] - MaxStall)
    BY <1>1 DEF IdleIsFull
  <2>1. visitors[k] \in Boxes
        /\ tokens[visitors[k]] >= Least(Burst, age[visitors[k]] - MaxStall)
    BY DEF IdleIsFull, LimiterTypeOK
  <2> QED BY <2>1, <1>1 DEF Least
<1>8. OnlyRacesGiveMore'
  <2> SUFFICES ASSUME NEW k \in Keys
               PROVE  allowance'[k] <= InForce(k)' /\ InForce(k)' <= allowance'[k] + extra'[k]
    BY DEF OnlyRacesGiveMore
  <2>1. /\ InForce(k) \in 0 .. Burst
        /\ allowance[k] <= InForce(k) /\ InForce(k) <= allowance[k] + extra[k]
    BY DEF OnlyRacesGiveMore, InForce, LimiterTypeOK
  <2>2. InForce(k)' = Least(InForce(k) + 1, Burst)
    <3>1. visitors[k] # NoBox => visitors[k] \in Boxes
      BY DEF LimiterTypeOK
    <3> QED BY <3>1, <1>1 DEF InForce, Least
  <2> QED BY <2>1, <2>2, <1>1 DEF Least
<1> QED BY <1>3, <1>4, <1>5, <1>6, <1>7, <1>8

\* An entry is old enough to be full, a full one is worth a new one.
LEMMA CleanupKeeps == ASSUME LimiterInv, Cleanup PROVE LimiterInv'
<1> USE DEF LimiterInv
<1>1. /\ UNCHANGED <<tokens, age, call, allowance, extra>>
      /\ visitors' \in [Keys -> Boxes \cup {NoBox}]
      /\ \A k \in Keys :
           \/ visitors'[k] = visitors[k]
           \/ visitors'[k] = NoBox /\ visitors[k] # NoBox /\ age[visitors[k]] > Idle
  BY DEF Cleanup, history, LimiterTypeOK
<1>2. LimiterTypeOK'
  BY <1>1 DEF LimiterTypeOK
<1>3. BoxesHaveOneKey' /\ StallIsShort' /\ CallsHoldTheirKeys'
  BY <1>1 DEF BoxesHaveOneKey, StallIsShort, CallsHoldTheirKeys
<1>4. IdleIsFull'
  BY <1>1 DEF IdleIsFull
<1>5. OnlyRacesGiveMore'
  <2> SUFFICES ASSUME NEW k \in Keys
               PROVE  InForce(k)' = InForce(k)
    BY <1>1 DEF OnlyRacesGiveMore
  <2>1. CASE visitors'[k] = visitors[k]
    BY <2>1, <1>1 DEF InForce
  <2>2. CASE visitors'[k] = NoBox /\ visitors[k] # NoBox /\ age[visitors[k]] > Idle
    <3>1. /\ visitors[k] \in Boxes
          /\ age[visitors[k]] \in Nat /\ tokens[visitors[k]] \in 0 .. Burst
          /\ tokens[visitors[k]] >= Least(Burst, age[visitors[k]] - MaxStall)
      BY <2>2 DEF LimiterTypeOK, IdleIsFull
    <3>2. tokens[visitors[k]] = Burst
      BY <2>2, <3>1 DEF Least
    <3> QED BY <2>2, <3>2 DEF InForce
  <2> QED BY <1>1, <2>1, <2>2
<1> QED BY <1>2, <1>3, <1>4, <1>5

LEMMA LimiterStutters == ASSUME LimiterInv, UNCHANGED limiterVars PROVE LimiterInv'
  BY DEF LimiterInv, limiterVars, history, InForce, LimiterTypeOK, BoxesHaveOneKey, CallsHoldTheirKeys,
         StallIsShort, IdleIsFull, OnlyRacesGiveMore

LEMMA LimiterStep == LimiterInv /\ [LimiterNext]_limiterVars => LimiterInv'
<1> SUFFICES ASSUME LimiterInv, [LimiterNext]_limiterVars PROVE LimiterInv'
  OBVIOUS
<1>1. ASSUME NEW r \in Reqs, NEW k \in Keys, Enter(r, k) PROVE LimiterInv'
  BY <1>1, EnterKeeps
<1>2. ASSUME NEW r \in Reqs, Step(r) PROVE LimiterInv'
  BY <1>2, LookupKeeps, TouchKeeps, CreateKeeps DEF Step
<1>3. ASSUME NEW r \in Reqs, Admit(r) \/ Refuse(r) PROVE LimiterInv'
  BY <1>3, AdmitKeeps, RefuseKeeps
<1>4. CASE Tick \/ Cleanup
  BY <1>4, TickKeeps, CleanupKeeps
<1>5. CASE UNCHANGED limiterVars
  BY <1>5, LimiterStutters
<1> QED BY <1>1, <1>2, <1>3, <1>4, <1>5 DEF LimiterNext

\* ratelimit.go alone, any keys and any requests: how far its admissions may leave
\* the rule, and the invariant that says so.
THEOREM LimiterInvariant == LimiterSpec => [](LimiterInv /\ OnlyRacesGiveMore)
<1>1. LimiterInv => OnlyRacesGiveMore
  BY DEF LimiterInv
<1> QED BY <1>1, LimiterStarts, LimiterStep, PTL DEF LimiterSpec

\* The browser calls the limiter as anybody does: the composition implements it.
LEMMA FrontStepsAreLimiterSteps == [FrontNext]_frontVars => [LimiterNext]_limiterVars
<1> SUFFICES ASSUME [FrontNext]_frontVars PROVE [LimiterNext]_limiterVars
  OBVIOUS
<1>1. ASSUME NEW t \in Tabs,
             Act(t) \/ ReceiveToken(t) \/ FetchLost(t) \/ Send(t) \/ CSRFMiddleware(t)
               \/ RequestRefused(t) \/ Reload(t)
      PROVE  UNCHANGED limiterVars
  BY <1>1 DEF Act, ReceiveToken, FetchLost, Send, CSRFMiddleware, RequestRefused, Reload
<1>2. ASSUME NEW t \in Tabs, NEW s \in Tokens,
             StartFetch(t) \/ CSRFTokenHandler(t, s) \/ FetchRefused(t) \/ Limiter(t)
      PROVE  LimiterNext
  BY <1>2, FrontDoorIds
     DEF StartFetch, CSRFTokenHandler, FetchRefused, Limiter, LimiterNext, Tabs
<1>3. CASE Expire
  BY <1>3 DEF Expire
<1>4. CASE (Tick \/ Cleanup) /\ UNCHANGED browserVars
  BY <1>4 DEF LimiterNext
<1>5. CASE UNCHANGED frontVars
  BY <1>5 DEF frontVars
<1>6. ASSUME NEW t \in Tabs, StartFetch(t) \/ FetchRefused(t) \/ Limiter(t) PROVE LimiterNext
  BY <1>6, FrontDoorIds DEF StartFetch, FetchRefused, Limiter, LimiterNext, Tabs
<1> QED BY <1>1, <1>2, <1>3, <1>4, <1>5, <1>6 DEF FrontNext

\* RateLimiter is what the front door promises about its limiter.
THEOREM FrontDoorImplementsLimiter == FrontSpec => LimiterSpec
<1>1. FrontInit => LimiterInit
  BY DEF FrontInit
<1> QED BY <1>1, FrontStepsAreLimiterSteps, PTL DEF FrontSpec, LimiterSpec

\* ratelimit.go:44, :79.  Beside the rule a key gets what a replaced limiter had given
\* out and a token for each request that outlived its limiter; eviction gives and
\* takes nothing.
THEOREM RacesAloneGiveMore == FrontSpec => []OnlyRacesGiveMore
  BY LimiterInvariant, FrontDoorImplementsLimiter, PTL

-----------------------------------------------------------------------------
(* The tokens.                                                             *)

LEMMA FrontStarts == FrontInit => FrontInv
<1> SUFFICES ASSUME FrontInit PROVE FrontInv
  OBVIOUS
<1>1. BrowserTypeOK
  BY FrontDoorBounds DEF FrontInit, BrowserTypeOK, MaybeToken, NewPage, Page
<1>2. \A t \in Tabs : TokenIsCookie(t) /\ PageIsConsistent(t)
  BY DEF FrontInit, NewPage, TokenIsCookie, PageIsConsistent, Fetching
<1>3. OneAsks /\ RefusedOnlyAfterTrouble
  BY DEF FrontInit, NewPage, OneAsks, Asking, RefusedOnlyAfterTrouble
<1> QED BY <1>1, <1>2, <1>3 DEF FrontInv

\* A step of one page: what remains to be shown is about that page, who asks for
\* a cookie, and the others when the cookie changes.
LEMMA PageKeeps ==
  ASSUME FrontInv, NEW t \in Tabs, NEW p \in Page, tab' = [tab EXCEPT ![t] = p],
         jar' \in MaybeToken, faults' \in 0 .. MaxFaults, trouble' \in SUBSET Tabs,
         trouble \ {t} \subseteq trouble',
         TokenIsCookie(t)', PageIsConsistent(t)',
         p.outcome = "forbidden" => t \in trouble' \/ p.bare,
         jar' # jar => \A u \in Tabs : u # t /\ u \notin trouble =>
                         tab[u].csrfToken = NoToken /\ ~Fetching(u),
         OneAsks'
  PROVE  FrontInv'
<1> USE DEF Tabs
<1>1. \A u \in Tabs : tab'[u] = IF u = t THEN p ELSE tab[u]
  BY DEF FrontInv, BrowserTypeOK
<1>2. BrowserTypeOK'
  BY DEF FrontInv, BrowserTypeOK
<1>3. \A u \in Tabs : TokenIsCookie(u)'
  <2> SUFFICES ASSUME NEW u \in Tabs, u # t, u \notin trouble' PROVE TokenIsCookie(u)'
    BY DEF TokenIsCookie
  <2>1. TokenIsCookie(u) /\ u \notin trouble /\ tab'[u] = tab[u]
    BY <1>1 DEF FrontInv
  <2> QED BY <2>1 DEF TokenIsCookie, Fetching, Matches
<1>4. \A u \in Tabs : PageIsConsistent(u)'
  <2> SUFFICES ASSUME NEW u \in Tabs, u # t PROVE PageIsConsistent(u)'
    OBVIOUS
  <2>1. PageIsConsistent(u) /\ tab'[u] = tab[u]
    BY <1>1 DEF FrontInv
  <2> QED BY <2>1 DEF PageIsConsistent, Fetching
<1>5. RefusedOnlyAfterTrouble'
  BY <1>1 DEF FrontInv, RefusedOnlyAfterTrouble
<1> QED BY <1>2, <1>3, <1>4, <1>5 DEF FrontInv

\* Who did not ask does not ask now, and who counts on a token did before.
LEMMA NobodyElseAsks ==
  ASSUME FrontInv, NEW t \in Tabs, NEW p \in Page, tab' = [tab EXCEPT ![t] = p],
         trouble \ {t} \subseteq trouble',
         t \in Asking' => t \in Asking,
         t \notin trouble' =>
           \/ p.csrfToken = NoToken /\ p.pc \notin {"fetch", "reply"}
           \/ t \notin trouble /\ (tab[t].csrfToken # NoToken \/ Fetching(t))
  PROVE  OneAsks'
<1> USE DEF Tabs
<1>1. \A u \in Tabs : tab'[u] = IF u = t THEN p ELSE tab[u]
  BY DEF FrontInv, BrowserTypeOK
<1>2. Asking' \subseteq Asking
  BY <1>1 DEF Asking
<1>3. OneAsks
  BY DEF FrontInv
<1> SUFFICES ASSUME NEW u \in Tabs, NEW a \in Asking', u # a, u \notin trouble'
             PROVE  tab'[u].csrfToken = NoToken /\ tab'[u].pc \notin {"fetch", "reply"}
  BY DEF OneAsks, Fetching
<1>4. a \in Asking /\ a \in Tabs
  BY <1>2 DEF Asking
<1>5. CASE u # t
  BY <1>1, <1>3, <1>4, <1>5 DEF OneAsks, Fetching
<1>6. CASE u = t
  BY <1>1, <1>3, <1>4, <1>6 DEF OneAsks, Fetching
<1> QED BY <1>5, <1>6

LEMMA PageIs == ASSUME FrontInv, NEW t \in Tabs PROVE tab[t] \in Page
  BY DEF FrontInv, BrowserTypeOK
LEMMA ActKeeps ==
  ASSUME FrontInv, NEW t \in Tabs, Act(t)
  PROVE  FrontInv'
<1> DEFINE p == [tab[t] EXCEPT !.pc = "ready", !.outcome = "none", !.slowed = FALSE,
              !.bare = FALSE]
<1>1. jar \in MaybeToken /\ tab \in [Tabs -> Page] /\ trouble \in SUBSET Tabs /\ faults \in 0 .. MaxFaults
  BY DEF FrontInv, BrowserTypeOK
<1>2. /\ tab[t] \in Page /\ p \in Page
      /\ p.pc = "ready"
      /\ p.csrfToken = tab[t].csrfToken
      /\ p.cookie = tab[t].cookie
      /\ p.token = tab[t].token
      /\ p.set = tab[t].set
      /\ p.outcome = "none"
      /\ p.slowed = FALSE
      /\ p.bare = FALSE
  BY <1>1 DEF Page, MaybeToken
<1>3. /\ tab' = [tab EXCEPT ![t] = p]
      /\ tab[t].pc = "idle" /\ tab[t].csrfToken # NoToken
      /\ jar' = jar /\ trouble' = trouble /\ faults' \in 0 .. MaxFaults
  BY <1>1, FrontDoorBounds DEF Act, Fault
<1> HIDE DEF p
<1>4. tab'[t] = p
  BY <1>1, <1>3
<1>5. TokenIsCookie(t) /\ PageIsConsistent(t) /\ RefusedOnlyAfterTrouble
  BY DEF FrontInv
<1>6. TokenIsCookie(t)'
  BY <1>2, <1>3, <1>4, <1>5 DEF TokenIsCookie, PageIsConsistent, Fetching, Matches
<1>7. PageIsConsistent(t)'
  BY <1>2, <1>3, <1>4, <1>5 DEF PageIsConsistent, Fetching
<1>8. p.outcome = "forbidden" => t \in trouble' \/ p.bare
  BY <1>2, <1>3, <1>5 DEF RefusedOnlyAfterTrouble
<1>9. OneAsks'
  <2>1. t \notin Asking'
    BY <1>2, <1>3, <1>4 DEF Asking
  <2>2. t \notin trouble' =>
          \/ p.csrfToken = NoToken /\ p.pc \notin {"fetch", "reply"}
          \/ t \notin trouble /\ (tab[t].csrfToken # NoToken \/ Fetching(t))
    BY <1>2, <1>3 DEF Fetching
  <2>3. trouble \ {t} \subseteq trouble'
    BY <1>3
  <2> QED BY <1>2, <1>3, <2>1, <2>2, <2>3, NobodyElseAsks
<1> QED BY <1>1, <1>2, <1>3, <1>6, <1>7, <1>8, <1>9, PageKeeps

LEMMA FetchRefusedKeeps ==
  ASSUME FrontInv, NEW t \in Tabs, FetchRefused(t)
  PROVE  FrontInv'
<1> DEFINE p == [tab[t] EXCEPT !.pc = "ready", !.cookie = NoToken, !.token = NoToken,
              !.set = FALSE, !.slowed = TRUE, !.bare = TRUE]
<1>1. jar \in MaybeToken /\ tab \in [Tabs -> Page] /\ trouble \in SUBSET Tabs /\ faults \in 0 .. MaxFaults
  BY DEF FrontInv, BrowserTypeOK
<1>2. /\ tab[t] \in Page /\ p \in Page
      /\ p.pc = "ready"
      /\ p.csrfToken = tab[t].csrfToken
      /\ p.cookie = NoToken
      /\ p.token = NoToken
      /\ p.set = FALSE
      /\ p.outcome = tab[t].outcome
      /\ p.slowed = TRUE
      /\ p.bare = TRUE
  BY <1>1 DEF Page, MaybeToken
<1>3. /\ tab' = [tab EXCEPT ![t] = p]
      /\ tab[t].pc = "fetch"
      /\ jar' = jar /\ trouble' = trouble /\ faults' \in 0 .. MaxFaults
  BY <1>1, FrontDoorBounds DEF FetchRefused, Bare, Fault
<1> HIDE DEF p
<1>4. tab'[t] = p
  BY <1>1, <1>3
<1>5. TokenIsCookie(t) /\ PageIsConsistent(t) /\ RefusedOnlyAfterTrouble
  BY DEF FrontInv
<1>6. TokenIsCookie(t)'
  BY <1>2, <1>3, <1>4, <1>5 DEF TokenIsCookie, PageIsConsistent, Fetching, Matches
<1>7. PageIsConsistent(t)'
  BY <1>2, <1>3, <1>4, <1>5 DEF PageIsConsistent, Fetching
<1>8. p.outcome = "forbidden" => t \in trouble' \/ p.bare
  BY <1>2, <1>3, <1>5 DEF RefusedOnlyAfterTrouble
<1>9. OneAsks'
  <2>1. t \notin Asking'
    BY <1>2, <1>3, <1>4 DEF Asking
  <2>2. t \notin trouble' =>
          \/ p.csrfToken = NoToken /\ p.pc \notin {"fetch", "reply"}
          \/ t \notin trouble /\ (tab[t].csrfToken # NoToken \/ Fetching(t))
    BY <1>2, <1>3 DEF Fetching
  <2>3. trouble \ {t} \subseteq trouble'
    BY <1>3
  <2> QED BY <1>2, <1>3, <2>1, <2>2, <2>3, NobodyElseAsks
<1> QED BY <1>1, <1>2, <1>3, <1>6, <1>7, <1>8, <1>9, PageKeeps

\* The cookie may have changed: as in ReceiveTokenKeeps.
LEMMA FetchLostKeeps ==
  ASSUME FrontInv, NEW t \in Tabs, FetchLost(t)
  PROVE  FrontInv'
<1> DEFINE p == [tab[t] EXCEPT !.pc = "ready", !.cookie = NoToken, !.token = NoToken,
              !.set = FALSE, !.slowed = FALSE, !.bare = TRUE]
<1>1. jar \in MaybeToken /\ tab \in [Tabs -> Page] /\ trouble \in SUBSET Tabs /\ faults \in 0 .. MaxFaults
  BY DEF FrontInv, BrowserTypeOK
<1>2. /\ tab[t] \in Page /\ p \in Page
      /\ p.pc = "ready"
      /\ p.csrfToken = tab[t].csrfToken
      /\ p.outcome = tab[t].outcome
      /\ p.bare = TRUE
  BY <1>1 DEF Page, MaybeToken
<1>3. /\ tab' = [tab EXCEPT ![t] = p]
      /\ tab[t].pc = "reply"
      /\ jar' # jar => tab[t].set /\ jar' = tab[t].token
      /\ trouble' = trouble /\ faults' \in 0 .. MaxFaults
  BY <1>1, FrontDoorBounds DEF FetchLost, Bare, Fault
<1> HIDE DEF p
<1>4. tab'[t] = p /\ jar' \in MaybeToken
  BY <1>1, <1>2, <1>3 DEF Page
<1>5. TokenIsCookie(t) /\ PageIsConsistent(t)
  BY DEF FrontInv
<1>6. p.csrfToken = NoToken
  BY <1>2, <1>3, <1>5 DEF PageIsConsistent, Fetching
<1>7. TokenIsCookie(t)' /\ PageIsConsistent(t)'
  BY <1>2, <1>4, <1>6 DEF TokenIsCookie, PageIsConsistent, Fetching
<1>8. jar' # jar => \A u \in Tabs : u # t /\ u \notin trouble =>
                      tab[u].csrfToken = NoToken /\ ~Fetching(u)
  <2>1. jar' # jar => t \in Asking
    BY <1>3, <1>5 DEF PageIsConsistent, Asking
  <2> QED BY <2>1 DEF FrontInv, OneAsks
<1>9. OneAsks'
  <2>1. t \notin Asking'
    BY <1>2, <1>4 DEF Asking
  <2>2. p.csrfToken = NoToken /\ p.pc \notin {"fetch", "reply"}
    BY <1>2, <1>6
  <2>3. trouble \ {t} \subseteq trouble'
    BY <1>3
  <2> QED BY <1>2, <1>3, <2>1, <2>2, <2>3, NobodyElseAsks
<1>10. trouble' \in SUBSET Tabs /\ trouble \ {t} \subseteq trouble'
  BY <1>1, <1>3
<1> QED BY <1>2, <1>3, <1>4, <1>7, <1>8, <1>9, <1>10, PageKeeps

LEMMA SendKeeps ==
  ASSUME FrontInv, NEW t \in Tabs, Send(t)
  PROVE  FrontInv'
<1> DEFINE p == [tab[t] EXCEPT !.pc = "post", !.cookie = jar]
<1>1. jar \in MaybeToken /\ tab \in [Tabs -> Page] /\ trouble \in SUBSET Tabs /\ faults \in 0 .. MaxFaults
  BY DEF FrontInv, BrowserTypeOK
<1>2. /\ tab[t] \in Page /\ p \in Page
      /\ p.pc = "post"
      /\ p.csrfToken = tab[t].csrfToken
      /\ p.cookie = jar
      /\ p.token = tab[t].token
      /\ p.set = tab[t].set
      /\ p.outcome = tab[t].outcome
      /\ p.slowed = tab[t].slowed
      /\ p.bare = tab[t].bare
  BY <1>1 DEF Page, MaybeToken
<1>3. /\ tab' = [tab EXCEPT ![t] = p]
      /\ tab[t].pc = "ready"
      /\ jar' = jar /\ trouble' = trouble /\ faults' \in 0 .. MaxFaults
  BY <1>1, FrontDoorBounds DEF Send, Fault
<1> HIDE DEF p
<1>4. tab'[t] = p
  BY <1>1, <1>3
<1>5. TokenIsCookie(t) /\ PageIsConsistent(t) /\ RefusedOnlyAfterTrouble
  BY DEF FrontInv
<1>6. TokenIsCookie(t)'
  BY <1>2, <1>3, <1>4, <1>5 DEF TokenIsCookie, PageIsConsistent, Fetching, Matches
<1>7. PageIsConsistent(t)'
  BY <1>2, <1>3, <1>4, <1>5 DEF PageIsConsistent, Fetching
<1>8. p.outcome = "forbidden" => t \in trouble' \/ p.bare
  BY <1>2, <1>3, <1>5 DEF RefusedOnlyAfterTrouble
<1>9. OneAsks'
  <2>1. t \notin Asking'
    BY <1>2, <1>3, <1>4 DEF Asking
  <2>2. t \notin trouble' =>
          \/ p.csrfToken = NoToken /\ p.pc \notin {"fetch", "reply"}
          \/ t \notin trouble /\ (tab[t].csrfToken # NoToken \/ Fetching(t))
    BY <1>2, <1>3 DEF Fetching
  <2>3. trouble \ {t} \subseteq trouble'
    BY <1>3
  <2> QED BY <1>2, <1>3, <2>1, <2>2, <2>3, NobodyElseAsks
<1> QED BY <1>1, <1>2, <1>3, <1>6, <1>7, <1>8, <1>9, PageKeeps

LEMMA CSRFMiddlewareKeeps ==
  ASSUME FrontInv, NEW t \in Tabs, CSRFMiddleware(t)
  PROVE  FrontInv'
<1>0. PICK o \in {"accepted", "forbidden"} : Answer(t, o) /\ (o = "forbidden" => ~Matches(t))
  BY DEF CSRFMiddleware
<1> DEFINE p == Answered(tab[t], o)
<1>1. jar \in MaybeToken /\ tab \in [Tabs -> Page] /\ trouble \in SUBSET Tabs /\ faults \in 0 .. MaxFaults
  BY DEF FrontInv, BrowserTypeOK
<1>2. /\ tab[t] \in Page /\ p \in Page
      /\ p.pc = "idle"
      /\ p.csrfToken = tab[t].csrfToken
      /\ p.cookie = NoToken
      /\ p.token = tab[t].token
      /\ p.set = tab[t].set
      /\ p.outcome = o
      /\ p.slowed = (tab[t].slowed \/ o = "limited")
      /\ p.bare = tab[t].bare
  BY <1>1 DEF Page, MaybeToken, Answered
<1>3. /\ tab' = [tab EXCEPT ![t] = p]
      /\ tab[t].pc = "post" /\ (o = "forbidden" => ~Matches(t))
      /\ jar' = jar /\ trouble' = trouble /\ faults' \in 0 .. MaxFaults
  <2>1. tab' = [tab EXCEPT ![t] = p]
    BY <1>0 DEF Answer
  <2> QED BY <2>1, <1>0, <1>1 DEF CSRFMiddleware
<1> HIDE DEF p
<1>4. tab'[t] = p
  BY <1>1, <1>3
<1>5. TokenIsCookie(t) /\ PageIsConsistent(t) /\ RefusedOnlyAfterTrouble
  BY DEF FrontInv
<1>6. TokenIsCookie(t)'
  BY <1>2, <1>3, <1>4, <1>5 DEF TokenIsCookie, PageIsConsistent, Fetching, Matches
<1>7. PageIsConsistent(t)'
  BY <1>2, <1>3, <1>4, <1>5 DEF PageIsConsistent, Fetching
<1>8. p.outcome = "forbidden" => t \in trouble' \/ p.bare
  BY <1>2, <1>3, <1>5 DEF RefusedOnlyAfterTrouble, TokenIsCookie, PageIsConsistent
<1>9. OneAsks'
  <2>1. t \notin Asking'
    BY <1>2, <1>3, <1>4 DEF Asking
  <2>2. t \notin trouble' =>
          \/ p.csrfToken = NoToken /\ p.pc \notin {"fetch", "reply"}
          \/ t \notin trouble /\ (tab[t].csrfToken # NoToken \/ Fetching(t))
    BY <1>2, <1>3 DEF Fetching
  <2>3. trouble \ {t} \subseteq trouble'
    BY <1>3
  <2> QED BY <1>2, <1>3, <2>1, <2>2, <2>3, NobodyElseAsks
<1> QED BY <1>1, <1>2, <1>3, <1>6, <1>7, <1>8, <1>9, PageKeeps

LEMMA RequestRefusedKeeps ==
  ASSUME FrontInv, NEW t \in Tabs, RequestRefused(t)
  PROVE  FrontInv'
<1> DEFINE p == Answered(tab[t], "limited")
<1>1. jar \in MaybeToken /\ tab \in [Tabs -> Page] /\ trouble \in SUBSET Tabs /\ faults \in 0 .. MaxFaults
  BY DEF FrontInv, BrowserTypeOK
<1>2. /\ tab[t] \in Page /\ p \in Page
      /\ p.pc = "idle"
      /\ p.csrfToken = tab[t].csrfToken
      /\ p.cookie = NoToken
      /\ p.token = tab[t].token
      /\ p.set = tab[t].set
      /\ p.outcome = "limited"
      /\ p.slowed = (tab[t].slowed \/ "limited" = "limited")
      /\ p.bare = tab[t].bare
  BY <1>1 DEF Page, MaybeToken, Answered
<1>3. /\ tab' = [tab EXCEPT ![t] = p]
      /\ tab[t].pc = "post"
      /\ jar' = jar /\ trouble' = trouble /\ faults' \in 0 .. MaxFaults
  BY <1>1, FrontDoorBounds DEF RequestRefused, Answer, Fault
<1> HIDE DEF p
<1>4. tab'[t] = p
  BY <1>1, <1>3
<1>5. TokenIsCookie(t) /\ PageIsConsistent(t) /\ RefusedOnlyAfterTrouble
  BY DEF FrontInv
<1>6. TokenIsCookie(t)'
  BY <1>2, <1>3, <1>4, <1>5 DEF TokenIsCookie, PageIsConsistent, Fetching, Matches
<1>7. PageIsConsistent(t)'
  BY <1>2, <1>3, <1>4, <1>5 DEF PageIsConsistent, Fetching
<1>8. p.outcome = "forbidden" => t \in trouble' \/ p.bare
  BY <1>2, <1>3, <1>5 DEF RefusedOnlyAfterTrouble
<1>9. OneAsks'
  <2>1. t \notin Asking'
    BY <1>2, <1>3, <1>4 DEF Asking
  <2>2. t \notin trouble' =>
          \/ p.csrfToken = NoToken /\ p.pc \notin {"fetch", "reply"}
          \/ t \notin trouble /\ (tab[t].csrfToken # NoToken \/ Fetching(t))
    BY <1>2, <1>3 DEF Fetching
  <2>3. trouble \ {t} \subseteq trouble'
    BY <1>3
  <2> QED BY <1>2, <1>3, <2>1, <2>2, <2>3, NobodyElseAsks
<1> QED BY <1>1, <1>2, <1>3, <1>6, <1>7, <1>8, <1>9, PageKeeps

\* The first to ask for a cookie, or one of several, all of them in trouble.
LEMMA StartFetchKeeps ==
  ASSUME FrontInv, NEW t \in Tabs, StartFetch(t)
  PROVE  FrontInv'
<1> USE DEF Tabs
<1> DEFINE p == [tab[t] EXCEPT !.pc = "fetch", !.cookie = jar, !.outcome = "none",
                               !.slowed = FALSE, !.bare = FALSE]
<1>1. jar \in MaybeToken /\ tab \in [Tabs -> Page] /\ trouble \in SUBSET Tabs /\ faults \in 0 .. MaxFaults
  BY DEF FrontInv, BrowserTypeOK
<1>2. /\ tab[t] \in Page /\ p \in Page
      /\ p.pc = "fetch" /\ p.csrfToken = tab[t].csrfToken /\ p.cookie = jar
      /\ p.outcome = "none"
  BY <1>1 DEF Page, MaybeToken
<1>3. /\ tab' = [tab EXCEPT ![t] = p]
      /\ tab[t].pc = "idle" /\ tab[t].csrfToken = NoToken
      /\ jar' = jar /\ faults' = faults
      /\ trouble' = IF Asking = {} THEN trouble ELSE trouble \cup Asking \cup {t}
  BY <1>1 DEF StartFetch
<1> HIDE DEF p
<1>4. \A u \in Tabs : tab'[u] = IF u = t THEN p ELSE tab[u]
  BY <1>1, <1>3
<1>5. trouble \subseteq trouble' /\ trouble' \in SUBSET Tabs
  BY <1>1, <1>3 DEF Asking
<1>6. TokenIsCookie(t)' /\ PageIsConsistent(t)'
  BY <1>2, <1>3, <1>4 DEF TokenIsCookie, PageIsConsistent, Fetching
<1>7. Asking \subseteq Asking' /\ Asking' \subseteq Asking \cup {t}
  BY <1>3, <1>4 DEF Asking
<1>8. OneAsks'
  <2> SUFFICES ASSUME NEW u \in Tabs, NEW a \in Tabs, a \in Asking', u # a, u \notin trouble'
               PROVE  tab'[u].csrfToken = NoToken /\ tab'[u].pc \notin {"fetch", "reply"}
    BY DEF OneAsks, Fetching
  <2>1. u \notin trouble
    BY <1>5
  <2>2. CASE Asking = {}
    <3>1. a = t /\ jar = NoToken
      BY <2>2, <1>2, <1>4, <1>7 DEF Asking
    <3>2. tab'[u] = tab[u] /\ TokenIsCookie(u)
      BY <1>4, <3>1 DEF FrontInv
    <3>3. tab[u].csrfToken = NoToken
      BY <3>1, <3>2, <2>1 DEF TokenIsCookie
    <3>4. ~Fetching(u)
      BY <3>1, <3>2, <2>1, <2>2 DEF TokenIsCookie, Fetching, Asking
    <3> QED BY <3>2, <3>3, <3>4 DEF Fetching
  <2>3. CASE Asking # {}
    <3>1. u # t /\ u \notin Asking /\ tab'[u] = tab[u]
      BY <2>3, <1>3, <1>4
    <3>2. PICK b \in Asking : b \in Tabs
      BY <2>3 DEF Asking
    <3> QED BY <3>1, <3>2, <2>1 DEF FrontInv, OneAsks, Fetching
  <2> QED BY <2>2, <2>3
<1>9. trouble \ {t} \subseteq trouble' /\ jar' \in MaybeToken /\ faults' \in 0 .. MaxFaults
  BY <1>1, <1>3, <1>5
<1> QED BY <1>2, <1>3, <1>5, <1>6, <1>8, <1>9, PageKeeps

\* The token is the cookie that the request carried, or a new one.
LEMMA CSRFTokenHandlerKeeps ==
  ASSUME FrontInv, NEW t \in Tabs, NEW s \in Tokens, CSRFTokenHandler(t, s)
  PROVE  FrontInv'
<1> USE DEF Tabs
<1> DEFINE p == [tab[t] EXCEPT !.pc = "reply", !.token = s, !.set = (tab[t].cookie = NoToken)]
<1>1. jar \in MaybeToken /\ tab \in [Tabs -> Page] /\ trouble \in SUBSET Tabs /\ faults \in 0 .. MaxFaults
  BY DEF FrontInv, BrowserTypeOK
<1>2. /\ tab[t] \in Page /\ p \in Page
      /\ p.pc = "reply" /\ p.csrfToken = tab[t].csrfToken /\ p.cookie = tab[t].cookie
      /\ p.token = s /\ p.set = (tab[t].cookie = NoToken)
      /\ p.outcome = tab[t].outcome /\ p.bare = tab[t].bare
  BY <1>1 DEF Page, MaybeToken
<1>3. /\ tab' = [tab EXCEPT ![t] = p]
      /\ tab[t].pc = "fetch"
      /\ tab[t].cookie # NoToken => s = tab[t].cookie
      /\ jar' = jar /\ faults' = faults /\ trouble' = trouble
  BY <1>1 DEF CSRFTokenHandler, EnsureCSRFCookie
<1> HIDE DEF p
<1>4. tab'[t] = p
  BY <1>1, <1>3
<1>5. TokenIsCookie(t) /\ PageIsConsistent(t) /\ RefusedOnlyAfterTrouble
  BY DEF FrontInv
<1>6. TokenIsCookie(t)'
  BY <1>2, <1>3, <1>4, <1>5 DEF TokenIsCookie, Fetching
<1>7. PageIsConsistent(t)'
  BY <1>2, <1>3, <1>4, <1>5, FrontDoorIds DEF PageIsConsistent, Fetching
<1>8. p.outcome = "forbidden" => t \in trouble' \/ p.bare
  BY <1>2, <1>3, <1>5 DEF RefusedOnlyAfterTrouble
<1>9. OneAsks'
  <2>1. t \in Asking' => t \in Asking
    BY <1>2, <1>3, <1>4 DEF Asking
  <2>2. Fetching(t)
    BY <1>3 DEF Fetching
  <2> QED BY <1>2, <1>3, <2>1, <2>2, NobodyElseAsks
<1> QED BY <1>1, <1>2, <1>3, <1>6, <1>7, <1>8, <1>9, PageKeeps

\* A new cookie reaches the browser while all who count on another are in trouble.
LEMMA ReceiveTokenKeeps ==
  ASSUME FrontInv, NEW t \in Tabs, ReceiveToken(t)
  PROVE  FrontInv'
<1> USE DEF Tabs
<1> DEFINE p == [tab[t] EXCEPT !.pc = "ready", !.csrfToken = tab[t].token,
                               !.cookie = NoToken, !.token = NoToken, !.set = FALSE]
<1>1. jar \in MaybeToken /\ tab \in [Tabs -> Page] /\ trouble \in SUBSET Tabs /\ faults \in 0 .. MaxFaults
  BY DEF FrontInv, BrowserTypeOK
<1>2. /\ tab[t] \in Page /\ p \in Page
      /\ p.pc = "ready" /\ p.csrfToken = tab[t].token
      /\ p.outcome = tab[t].outcome /\ p.bare = tab[t].bare
  BY <1>1 DEF Page, MaybeToken
<1>3. /\ tab' = [tab EXCEPT ![t] = p]
      /\ tab[t].pc = "reply"
      /\ jar' = IF tab[t].set THEN tab[t].token ELSE jar
      /\ faults' = faults /\ trouble' = trouble
  BY <1>1 DEF ReceiveToken
<1> HIDE DEF p
<1>4. tab'[t] = p /\ jar' \in MaybeToken
  BY <1>1, <1>2, <1>3 DEF Page
<1>5. TokenIsCookie(t) /\ PageIsConsistent(t) /\ RefusedOnlyAfterTrouble
  BY DEF FrontInv
<1>6. TokenIsCookie(t)'
  <2>1. t \notin trouble => tab[t].token = jar'
    BY <1>3, <1>5 DEF TokenIsCookie, PageIsConsistent, Fetching
  <2> QED BY <1>2, <1>3, <1>4, <2>1 DEF TokenIsCookie, Fetching
<1>7. PageIsConsistent(t)'
  BY <1>2, <1>3, <1>4, <1>5 DEF PageIsConsistent, Fetching
<1>8. p.outcome = "forbidden" => t \in trouble' \/ p.bare
  BY <1>2, <1>3, <1>5 DEF RefusedOnlyAfterTrouble
<1>9. jar' # jar => \A u \in Tabs : u # t /\ u \notin trouble =>
                      tab[u].csrfToken = NoToken /\ ~Fetching(u)
  <2>1. jar' # jar => t \in Asking
    BY <1>3, <1>5 DEF PageIsConsistent, Asking
  <2> QED BY <2>1 DEF FrontInv, OneAsks
<1>10. OneAsks'
  <2>1. t \in Asking' => t \in Asking
    BY <1>2, <1>3, <1>4 DEF Asking
  <2>2. Fetching(t) /\ (t \notin trouble' => t \notin trouble)
    BY <1>3 DEF Fetching
  <2>3. trouble \ {t} \subseteq trouble'
    BY <1>3
  <2> QED BY <1>2, <1>3, <2>1, <2>2, <2>3, NobodyElseAsks
<1>11. faults' \in 0 .. MaxFaults /\ trouble' \in SUBSET Tabs /\ trouble \ {t} \subseteq trouble'
  BY <1>1, <1>3
<1> QED BY <1>2, <1>3, <1>4, <1>6, <1>7, <1>8, <1>9, <1>10, <1>11, PageKeeps

LEMMA ReloadKeeps ==
  ASSUME FrontInv, NEW t \in Tabs, Reload(t)
  PROVE  FrontInv'
<1> USE DEF Tabs
<1>1. jar \in MaybeToken /\ tab \in [Tabs -> Page] /\ trouble \in SUBSET Tabs /\ faults \in 0 .. MaxFaults
  BY DEF FrontInv, BrowserTypeOK
<1>2. /\ NewPage \in Page /\ NewPage.csrfToken = NoToken /\ NewPage.pc = "idle"
      /\ NewPage.outcome = "none"
  BY DEF NewPage, Page, MaybeToken
<1>3. tab' = [tab EXCEPT ![t] = NewPage] /\ jar' = jar /\ faults' = faults /\ trouble' = trouble \ {t}
  BY DEF Reload
<1>4. tab'[t] = NewPage
  BY <1>1, <1>3
<1>5. TokenIsCookie(t)' /\ PageIsConsistent(t)'
  BY <1>2, <1>4 DEF TokenIsCookie, PageIsConsistent, Fetching
<1>6. OneAsks'
  <2>1. t \notin Asking'
    BY <1>2, <1>4 DEF Asking
  <2> QED BY <1>2, <1>3, <2>1, NobodyElseAsks
<1>7. trouble' \in SUBSET Tabs /\ trouble \ {t} \subseteq trouble'
  BY <1>1, <1>3
<1> QED BY <1>1, <1>2, <1>3, <1>5, <1>6, <1>7, PageKeeps

LEMMA ExpireKeeps == ASSUME FrontInv, Expire PROVE FrontInv'
<1>1. trouble' = Tabs /\ jar' = NoToken /\ tab' = tab /\ faults' \in 0 .. MaxFaults
  BY FrontDoorBounds DEF Expire, Fault, FrontInv, BrowserTypeOK
<1>2. BrowserTypeOK'
  BY <1>1 DEF FrontInv, BrowserTypeOK, MaybeToken
<1>3. \A t \in Tabs : TokenIsCookie(t)' /\ PageIsConsistent(t)'
  BY <1>1 DEF FrontInv, TokenIsCookie, PageIsConsistent, Fetching
<1>4. OneAsks' /\ RefusedOnlyAfterTrouble'
  BY <1>1 DEF OneAsks, RefusedOnlyAfterTrouble
<1> QED BY <1>2, <1>3, <1>4 DEF FrontInv

LEMMA BrowserStutters == ASSUME FrontInv, UNCHANGED browserVars PROVE FrontInv'
<1>1. jar' = jar /\ tab' = tab /\ trouble' = trouble /\ faults' = faults
  BY DEF browserVars
<1>2. BrowserTypeOK' /\ OneAsks' /\ RefusedOnlyAfterTrouble'
  BY <1>1 DEF FrontInv, BrowserTypeOK, OneAsks, Asking, Fetching, RefusedOnlyAfterTrouble
<1>3. \A t \in Tabs : TokenIsCookie(t)' /\ PageIsConsistent(t)'
  BY <1>1 DEF FrontInv, TokenIsCookie, PageIsConsistent, Fetching, Matches
<1> QED BY <1>2, <1>3 DEF FrontInv

LEMMA FrontStep == FrontInv /\ [FrontNext]_frontVars => FrontInv'
<1> SUFFICES ASSUME FrontInv, [FrontNext]_frontVars PROVE FrontInv'
  OBVIOUS
<1>1. ASSUME NEW t \in Tabs,
             Act(t) \/ StartFetch(t) \/ ReceiveToken(t) \/ FetchRefused(t) \/ FetchLost(t)
               \/ Send(t) \/ CSRFMiddleware(t) \/ RequestRefused(t) \/ Reload(t)
      PROVE  FrontInv'
  BY <1>1, ActKeeps, StartFetchKeeps, ReceiveTokenKeeps, FetchRefusedKeeps, FetchLostKeeps,
     SendKeeps, CSRFMiddlewareKeeps, RequestRefusedKeeps, ReloadKeeps
<1>2. ASSUME NEW t \in Tabs, NEW s \in Tokens, CSRFTokenHandler(t, s) PROVE FrontInv'
  BY <1>2, CSRFTokenHandlerKeeps
<1>3. ASSUME UNCHANGED browserVars PROVE FrontInv'
  BY <1>3, BrowserStutters
<1>4. ASSUME NEW t \in Tabs, Limiter(t) PROVE FrontInv'
  BY <1>4, <1>3 DEF Limiter
<1>5. CASE Expire
  BY <1>5, ExpireKeeps
<1>6. CASE UNCHANGED frontVars
  BY <1>6, <1>3 DEF frontVars
<1> QED BY <1>1, <1>2, <1>3, <1>4, <1>5, <1>6 DEF FrontNext

\* Outside of trouble the page's token is the cookie, so nobody is refused.
THEOREM TokensFollowTheCookie == FrontSpec => []RefusedOnlyAfterTrouble
<1>1. FrontInv => RefusedOnlyAfterTrouble
  BY DEF FrontInv
<1> QED BY <1>1, FrontStarts, FrontStep, PTL DEF FrontSpec
=============================================================================
