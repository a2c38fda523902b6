-------------------------- MODULE AutoAssign_proofs --------------------------
(***************************************************************************)
(* Theorems about AutoAssign, for every set of conversations, agents and   *)
(* overlapping executions, every limit and every tier table.               *)
(***************************************************************************)
EXTENDS AutoAssign, FiniteSetTheorems, TLAPS

-----------------------------------------------------------------------------
(* The statements of Desk.                                                 *)

\* Leaving the queue touches queued and ahead only.
LEMMA DequeuedRow ==
    ASSUME NEW cs \in [Conv -> ConvRow], NEW c \in Conv
    PROVE  /\ Dequeued(cs, c) \in [Conv -> ConvRow]
           /\ \A d \in Conv : /\ Dequeued(cs, c)[d].owner = cs[d].owner
                              /\ Dequeued(cs, c)[d].status = cs[d].status
                              /\ Dequeued(cs, c)[d].source = cs[d].source
                              /\ Dequeued(cs, c)[d].stage = cs[d].stage
<1> DEFINE row(d) == IF d = c THEN [cs[d] EXCEPT !.queued = FALSE, !.ahead = {}]
                              ELSE [cs[d] EXCEPT !.ahead = @ \ {c}]
<1>1. ASSUME NEW d \in Conv
      PROVE  /\ row(d) \in ConvRow
             /\ row(d).owner = cs[d].owner /\ row(d).status = cs[d].status
             /\ row(d).source = cs[d].source /\ row(d).stage = cs[d].stage
  <2>1. cs[d] \in ConvRow
    OBVIOUS
  <2>2. CASE d = c
    BY <2>1, <2>2 DEF ConvRow
  <2>3. CASE d # c
    BY <2>1, <2>3 DEF ConvRow
  <2> QED
    BY <2>2, <2>3
<1>2. Dequeued(cs, c) = [d \in Conv |-> row(d)]
  BY DEF Dequeued
<1> HIDE DEF row
<1> QED
  BY <1>1, <1>2

\* So does entering it.
LEMMA EnqueuedOnceRow ==
    ASSUME NEW cs \in [Conv -> ConvRow], NEW c \in Conv
    PROVE  /\ EnqueuedOnce(cs, c) \in [Conv -> ConvRow]
           /\ \A d \in Conv : /\ EnqueuedOnce(cs, c)[d].owner = cs[d].owner
                              /\ EnqueuedOnce(cs, c)[d].status = cs[d].status
                              /\ EnqueuedOnce(cs, c)[d].source = cs[d].source
                              /\ EnqueuedOnce(cs, c)[d].stage = cs[d].stage
<1> DEFINE before == {e \in Conv \ {c} : cs[e].queued}
           row(d) == IF d \in {c} THEN [cs[d] EXCEPT !.queued = TRUE, !.ahead = before]
                                  ELSE [cs[d] EXCEPT !.ahead = @ \ {c}]
<1>1. ASSUME NEW d \in Conv
      PROVE  /\ row(d) \in ConvRow
             /\ row(d).owner = cs[d].owner /\ row(d).status = cs[d].status
             /\ row(d).source = cs[d].source /\ row(d).stage = cs[d].stage
  <2>1. cs[d] \in ConvRow /\ before \in SUBSET Conv
    OBVIOUS
  <2> HIDE DEF before
  <2>2. CASE d = c
    BY <2>1, <2>2 DEF ConvRow
  <2>3. CASE d # c
    BY <2>1, <2>3 DEF ConvRow
  <2> QED
    BY <2>2, <2>3
<1>2. Enqueued(cs, {c}) = [d \in Conv |-> row(d)]
  BY DEF Enqueued
<1> HIDE DEF row
<1>3. CASE cs[c].queued
  BY <1>3 DEF EnqueuedOnce
<1>4. CASE ~ cs[c].queued
  BY <1>1, <1>2, <1>4 DEF EnqueuedOnce
<1> QED
  BY <1>3, <1>4

\* The row that is given is open and owned by the agent; the others keep
\* their owner.
LEMMA GivenRow ==
    ASSUME NEW cs \in [Conv -> ConvRow], NEW c \in Conv, NEW a \in Agent,
           NEW by \in {"auto", "person"}
    PROVE  /\ Given(cs, c, a, by) \in [Conv -> ConvRow]
           /\ Given(cs, c, a, by)[c].owner = a
           /\ Given(cs, c, a, by)[c].status = "open"
           /\ Given(cs, c, a, by)[c].source = by
           /\ \A d \in Conv \ {c} : /\ Given(cs, c, a, by)[d].owner = cs[d].owner
                                    /\ Given(cs, c, a, by)[d].status = cs[d].status
                                    /\ Given(cs, c, a, by)[d].source = cs[d].source
                                    /\ Given(cs, c, a, by)[d].stage = cs[d].stage
<1> DEFINE new == [cs EXCEPT ![c].owner = a, ![c].status = "open", ![c].source = by]
<1>1. /\ new \in [Conv -> ConvRow]
      /\ new[c].owner = a /\ new[c].status = "open" /\ new[c].source = by
      /\ \A d \in Conv \ {c} : new[d] = cs[d]
  <2>1. cs[c] \in ConvRow
    OBVIOUS
  <2>2. new = [cs EXCEPT ![c] = [cs[c] EXCEPT !.owner = a, !.status = "open",
                                             !.source = by]]
    BY <2>1 DEF ConvRow
  <2>3. /\ [cs[c] EXCEPT !.owner = a, !.status = "open", !.source = by] \in ConvRow
        /\ [cs[c] EXCEPT !.owner = a, !.status = "open", !.source = by].owner = a
        /\ [cs[c] EXCEPT !.owner = a, !.status = "open", !.source = by].status = "open"
        /\ [cs[c] EXCEPT !.owner = a, !.status = "open", !.source = by].source = by
    BY <2>1 DEF ConvRow, Status
  <2> HIDE DEF new
  <2> QED
    BY <2>2, <2>3
<1>2. Given(cs, c, a, by) = Dequeued(new, c)
  BY DEF Given
<1> HIDE DEF new
<1> QED
  BY <1>1, <1>2, DequeuedRow

\* Counting the open rows of an agent.
LEMMA LoadType ==
    ASSUME NEW cs, NEW a
    PROVE  /\ IsFiniteSet(OpenOf(cs, a)) /\ IsFiniteSet(RoutedTo(cs, a))
           /\ Load(cs, a) \in Nat /\ Cardinality(RoutedTo(cs, a)) \in Nat
           /\ Cardinality(RoutedTo(cs, a)) <= Load(cs, a)
<1>1. OpenOf(cs, a) \in SUBSET Conv /\ RoutedTo(cs, a) \in SUBSET OpenOf(cs, a)
  BY DEF OpenOf, RoutedTo
<1>2. IsFiniteSet(OpenOf(cs, a))
  BY <1>1, DeskAssumption, FS_Subset
<1>3. IsFiniteSet(RoutedTo(cs, a)) /\ Cardinality(RoutedTo(cs, a)) <= Cardinality(OpenOf(cs, a))
  BY <1>1, <1>2, FS_Subset
<1> QED
  BY <1>2, <1>3, FS_CardinalityType DEF Load

\* A recount writes counters and nothing else, and writes them exactly.
LEMMA RecountedRow ==
    ASSUME NEW ag \in [Agent -> AgentRow], NEW S, NEW cs
    PROVE  /\ Recounted(ag, S, cs) \in [Agent -> AgentRow]
           /\ \A a \in Agent :
                 /\ Recounted(ag, S, cs)[a].status = ag[a].status
                 /\ Recounted(ag, S, cs)[a].available = ag[a].available
                 /\ Recounted(ag, S, cs)[a].connected = ag[a].connected
                 /\ Recounted(ag, S, cs)[a].active
                       = IF a \in S THEN Load(cs, a) ELSE ag[a].active
  BY LoadType DEF Recounted, AgentRow

LEMMA ResyncedRow ==
    ASSUME NEW ag \in [Agent -> AgentRow], NEW S, NEW cs
    PROVE  /\ Resynced(ag, S, cs) \in [Agent -> AgentRow]
           /\ \A a \in Agent :
                 /\ Resynced(ag, S, cs)[a].status = ag[a].status
                 /\ Resynced(ag, S, cs)[a].connected = ag[a].connected
                 /\ Resynced(ag, S, cs)[a].available
                       => (ag[a].available \/ ag[a].status = "online")
                 /\ Resynced(ag, S, cs)[a].active
                       = IF a \in S THEN Load(cs, a) ELSE ag[a].active
<1>1. \A a \in Agent : Load(cs, a) \in Nat /\ (Load(cs, a) < Limit[a]) \in BOOLEAN
  BY LoadType
<1> QED
  BY <1>1 DEF Resynced, AgentRow

-----------------------------------------------------------------------------
(* Type correctness.                                                       *)

\* What an execution holds at each statement.
RunConsistent ==
    \A w \in Worker :
        /\ run[w].pc \notin {"idle", "next"} => run[w].conv \in Conv
        /\ run[w].pc \in {"demote", "claim", "release", "insert", "recount", "resync",
                          "raise", "lower"} => run[w].agent \in Agent
        /\ run[w].pc \in {"select", "probe", "demote"} /\ run[w].tier = 0
              => run[w].pref \in Agent
        /\ run[w].pc \in {"select", "probe", "demote"}
              => run[w].tier \in 0..Len(Tiers[run[w].conv])

TypeInv == AutoAssignTypeOK /\ RunConsistent

LEMMA AtType ==
    ASSUME NEW pc \in {"idle", "next", "sync"}, NEW c \in Conv \cup {NoConv},
           NEW a \in Agent \cup {NoAgent}, NEW loop \in BOOLEAN
    PROVE  At(pc, c, a, loop) \in RunState
  BY DEF At, RunState, Steps

LEMMA IdleType == Idle \in RunState
  BY AtType DEF Idle

\* Replacing one execution's record by a consistent one.
OneConsistent(r) ==
    /\ r \in RunState
    /\ r.pc \notin {"idle", "next"} => r.conv \in Conv
    /\ r.pc \in {"demote", "claim", "release", "insert", "recount", "resync",
                 "raise", "lower"} => r.agent \in Agent
    /\ r.pc \in {"select", "probe", "demote"} /\ r.tier = 0 => r.pref \in Agent
    /\ r.pc \in {"select", "probe", "demote"} => r.tier \in 0..Len(Tiers[r.conv])

LEMMA RunStep ==
    ASSUME TypeInv, NEW w \in Worker, NEW r, OneConsistent(r),
           run' = [run EXCEPT ![w] = r]
    PROVE  run' \in [Worker -> RunState] /\ RunConsistent'
  BY DEF TypeInv, AutoAssignTypeOK, RunConsistent, OneConsistent

LEMMA RunSame ==
    ASSUME TypeInv, UNCHANGED run
    PROVE  run' \in [Worker -> RunState] /\ RunConsistent'
  BY DEF TypeInv, AutoAssignTypeOK, RunConsistent

LEMMA IdleConsistent == OneConsistent(Idle) /\ Idle.pc = "idle"
  BY IdleType DEF OneConsistent, Idle, At

LEMMA CallConsistent ==
    ASSUME NEW c \in Conv
    PROVE  OneConsistent(At("sync", c, NoAgent, FALSE))
  BY AtType DEF OneConsistent, At

LEMMA NextConsistent ==
    ASSUME NEW a \in Agent \cup {NoAgent}, NEW loop \in BOOLEAN
    PROVE  OneConsistent(At("next", NoConv, a, loop))
  BY AtType DEF OneConsistent, At

LEMMA SucceededConsistent ==
    ASSUME NEW r \in RunState
    PROVE  OneConsistent(Succeeded(r))
  BY IdleConsistent, NextConsistent DEF Succeeded, RunState

\* Where a search goes when a tier has nobody left.
LEMMA ExhaustedConsistent ==
    ASSUME NEW r, OneConsistent(r), r.pc \in {"select", "probe", "demote"},
           NEW n \in TierExhausted(r)
    PROVE  /\ OneConsistent(n)
           /\ n.pc \in {"select", "idle"}
  <1>1. Len(Tiers[r.conv]) \in 1..3 /\ r.tier \in 0..Len(Tiers[r.conv])
    BY AutoAssignAssumption DEF OneConsistent
  <1>2. CASE n = Idle
    BY <1>2, IdleConsistent
  <1>3. CASE /\ r.tier < Len(Tiers[r.conv])
             /\ n = [r EXCEPT !.pc = "select", !.tier = @ + 1, !.cand = {},
                              !.agent = NoAgent]
    <2>1. r \in RunState /\ r.conv \in Conv
      BY DEF OneConsistent
    <2>2. ASSUME NEW i, NEW len, len \in 1..3, i \in 0..len, i < len
          PROVE  i + 1 \in 1..len /\ i + 1 \in 0..3 /\ i + 1 # 0
      BY <2>2
    <2> DEFINE t == r.tier + 1
    <2>3. n = [r EXCEPT !.pc = "select", !.tier = t, !.cand = {}, !.agent = NoAgent]
      BY <1>3
    <2>4. t \in 1..Len(Tiers[r.conv]) /\ t \in 0..3 /\ t # 0
      <3> DEFINE i == r.tier
                 len == Len(Tiers[r.conv])
      <3>1. len \in 1..3 /\ i \in 0..len /\ i < len
        BY <1>1, <1>3
      <3>2. t = i + 1
        OBVIOUS
      <3> HIDE DEF i, len
      <3>3. t \in 1..len /\ t \in 0..3 /\ t # 0
        BY <2>2, <3>1, <3>2
      <3> QED
        BY <3>3 DEF len
    <2> HIDE DEF t
    <2>5. n = [pc |-> "select", conv |-> r.conv, pref |-> r.pref, loop |-> r.loop,
               tier |-> t, cand |-> {}, agent |-> NoAgent]
      BY <2>1, <2>3 DEF RunState
    <2>6. n \in RunState
      BY <2>1, <2>4, <2>5 DEF RunState, Steps
    <2> QED
      BY <1>1, <2>1, <2>4, <2>5, <2>6 DEF OneConsistent
  <1> QED
    BY <1>2, <1>3 DEF TierExhausted

\* Routing writes agent_assignments by status, availability and socket.
LEMMA AgentWrite ==
    ASSUME agent \in [Agent -> AgentRow], NEW a \in Agent,
           NEW st \in {"online", "paused", "offline"}, NEW av \in BOOLEAN
    PROVE  /\ [agent EXCEPT ![a].status = st, ![a].available = av] \in [Agent -> AgentRow]
           /\ [agent EXCEPT ![a].available = av] \in [Agent -> AgentRow]
           /\ [agent EXCEPT ![a].connected = av] \in [Agent -> AgentRow]
           /\ [agent EXCEPT ![a].connected = TRUE, ![a].status = st, ![a].available = av]
                 \in [Agent -> AgentRow]
<1> DEFINE row == agent[a]
<1>1. row \in AgentRow
  OBVIOUS
<1>2. /\ [row EXCEPT !.status = st, !.available = av] \in AgentRow
      /\ [row EXCEPT !.available = av] \in AgentRow
      /\ [row EXCEPT !.connected = av] \in AgentRow
      /\ [row EXCEPT !.connected = TRUE, !.status = st, !.available = av] \in AgentRow
  <2> HIDE DEF row
  <2> QED
    BY <1>1 DEF AgentRow
<1>3. /\ [agent EXCEPT ![a] = [row EXCEPT !.status = st, !.available = av]]
            \in [Agent -> AgentRow]
      /\ [agent EXCEPT ![a] = [row EXCEPT !.available = av]] \in [Agent -> AgentRow]
      /\ [agent EXCEPT ![a] = [row EXCEPT !.connected = av]] \in [Agent -> AgentRow]
      /\ [agent EXCEPT ![a] = [row EXCEPT !.connected = TRUE, !.status = st,
                                          !.available = av]] \in [Agent -> AgentRow]
  <2> HIDE DEF row
  <2> QED
    BY <1>2
<1>4. /\ [agent EXCEPT ![a].status = st, ![a].available = av]
            = [agent EXCEPT ![a] = [row EXCEPT !.status = st, !.available = av]]
      /\ [agent EXCEPT ![a].connected = TRUE, ![a].status = st, ![a].available = av]
            = [agent EXCEPT ![a] = [row EXCEPT !.connected = TRUE, !.status = st,
                                               !.available = av]]
  BY DEF AgentRow
<1> QED
  BY <1>3, <1>4

LEMMA TypeInit == Init => TypeInv
<1> SUFFICES ASSUME Init PROVE TypeInv
  OBVIOUS
<1>1. NewConv \in ConvRow /\ OfflineAgent \in AgentRow
  BY DEF NewConv, OfflineAgent, ConvRow, AgentRow, Status, Stage
<1>2. DeskTypeOK
  BY <1>1 DEF Init, DeskInit, DeskTypeOK
<1>3. run \in [Worker -> RunState] /\ RunConsistent
  BY IdleConsistent DEF Init, RunConsistent, OneConsistent
<1> QED
  BY <1>2, <1>3, AutoAssignAssumption DEF Init, TypeInv, AutoAssignTypeOK

\* Every statement of an execution keeps the types.
LEMMA TypeExecute ==
    ASSUME TypeInv, NEW w \in Worker, Execute(w)
    PROVE  TypeInv'
<1> USE DEF TypeInv, AutoAssignTypeOK, DeskTypeOK
<1>0. /\ run[w] \in RunState /\ OneConsistent(run[w])
      /\ \A r : OneConsistent(r) /\ run' = [run EXCEPT ![w] = r]
               => run' \in [Worker -> RunState] /\ RunConsistent'
  BY RunStep DEF OneConsistent, RunConsistent
<1>1. CASE ReadHead(w)
  <2>1. CASE run' = [run EXCEPT ![w] = Idle]
    BY <1>0, <1>1, <2>1, IdleConsistent DEF ReadHead
  <2>2. ASSUME NEW c \in QueueHead(conv), run' = [run EXCEPT ![w].pc = "sync", ![w].conv = c]
        PROVE  TypeInv'
    <3> DEFINE r == [run[w] EXCEPT !.pc = "sync", !.conv = c]
    <3>1. c \in Conv
      BY DEF QueueHead
    <3>2. r \in RunState /\ r.pc = "sync" /\ r.conv = c
      BY <1>0, <3>1 DEF RunState, Steps
    <3>3. OneConsistent(r)
      BY <3>1, <3>2 DEF OneConsistent
    <3>4. run' = [run EXCEPT ![w] = r]
      BY <1>0, <2>2 DEF RunState
    <3> QED
      BY <1>0, <1>1, <3>3, <3>4 DEF ReadHead
  <2> QED
    BY <1>1, <2>1, <2>2 DEF ReadHead
<1>2. CASE Sync(w)
  <2> DEFINE t == IF run[w].pref = NoAgent THEN 1 ELSE 0
             r == [run[w] EXCEPT !.pc = "select", !.tier = t]
  <2>1. run[w].conv \in Conv
    BY <1>0, <1>2 DEF Sync, OneConsistent
  <2>2. OneConsistent(r) /\ run' = [run EXCEPT ![w] = r]
    <3>1. run' = [run EXCEPT ![w] = r]
      BY <1>0, <1>2 DEF Sync, RunState
    <3>2. t \in {0, 1} /\ (t = 0 => run[w].pref \in Agent)
      BY <1>0 DEF RunState
    <3> HIDE DEF t
    <3>3. t \in 0..3
      BY <3>2
    <3>4. r \in RunState /\ r.pc = "select" /\ r.conv = run[w].conv
          /\ r.pref = run[w].pref /\ r.tier = t
      BY <1>0, <3>3 DEF RunState, Steps
    <3>5. Len(Tiers[run[w].conv]) \in 1..3
      BY <2>1, AutoAssignAssumption
    <3>6. t \in 0..Len(Tiers[run[w].conv])
      <4> DEFINE len == Len(Tiers[run[w].conv])
      <4>1. len \in 1..3
        BY <3>5
      <4> HIDE DEF len
      <4>2. t \in 0..len
        BY <3>2, <4>1
      <4> QED
        BY <4>2 DEF len
    <3> QED
      BY <2>1, <3>1, <3>2, <3>4, <3>6 DEF OneConsistent
  <2>3. conv' \in [Conv -> ConvRow]
    <3> DEFINE row == conv[run[w].conv]
               mark == row.routing \/ row.owner = NoAgent
    <3>1. row \in ConvRow /\ mark \in BOOLEAN
      BY <2>1 DEF ConvRow
    <3>2. conv' = [conv EXCEPT ![run[w].conv] = [row EXCEPT !.routing = mark]]
      BY <1>2 DEF Sync
    <3> HIDE DEF row, mark
    <3>3. [row EXCEPT !.routing = mark] \in ConvRow
      BY <3>1 DEF ConvRow
    <3> QED
      BY <2>1, <3>2, <3>3
  <2>4. agent' \in [Agent -> AgentRow]
    BY <1>2, RecountedRow DEF Sync
  <2> QED
    BY <1>0, <1>2, <2>2, <2>3, <2>4 DEF Sync
<1>3. CASE Select(w)
  <2>1. PICK lapsed \in SUBSET {a \in Agent : ~ agent[a].connected} :
           LET rows == Candidates(TierOf(run[w]), lapsed) IN
           IF rows = {}
           THEN \E r \in TierExhausted(run[w]) : run' = [run EXCEPT ![w] = r]
           ELSE run' = [run EXCEPT ![w].pc = "probe", ![w].cand = rows]
    BY <1>3 DEF Select
  <2> DEFINE rows == Candidates(TierOf(run[w]), lapsed)
             r == [run[w] EXCEPT !.pc = "probe", !.cand = rows]
  <2>2. run[w].pc = "select" /\ run[w].conv \in Conv
    BY <1>0, <1>3 DEF Select, OneConsistent
  <2>3. rows \in SUBSET Agent
    <3>1. TierOf(run[w]) \in SUBSET Agent
      <4>1. CASE run[w].tier = 0
        BY <1>0, <2>2, <4>1 DEF TierOf, OneConsistent
      <4>2. CASE run[w].tier # 0
        <5>1. run[w].tier \in 1..Len(Tiers[run[w].conv])
          BY <1>0, <2>2, <4>2, AutoAssignAssumption DEF OneConsistent, RunState
        <5>2. Tiers[run[w].conv] \in Seq(SUBSET Agent)
          BY <2>2, AutoAssignAssumption
        <5> QED
          BY <4>2, <5>1, <5>2 DEF TierOf
      <4> QED
        BY <4>1, <4>2
    <3> QED
      BY <3>1 DEF Candidates
  <2>4. CASE rows = {}
    BY <1>0, <1>3, <2>1, <2>2, <2>4, ExhaustedConsistent DEF Select
  <2>5. CASE rows # {}
    <3>1. run' = [run EXCEPT ![w].pc = "probe", ![w].cand = rows]
      BY <2>1, <2>5
    <3> HIDE DEF rows
    <3>2. r \in RunState /\ r.pc = "probe" /\ r.conv = run[w].conv
          /\ r.pref = run[w].pref /\ r.tier = run[w].tier
      BY <1>0, <2>3 DEF RunState, Steps
    <3>3. OneConsistent(r)
      BY <1>0, <2>2, <3>2 DEF OneConsistent
    <3>4. run' = [run EXCEPT ![w] = r]
      BY <1>0, <3>1 DEF RunState
    <3> QED
      BY <1>0, <1>3, <3>3, <3>4 DEF Select
  <2> QED
    BY <2>4, <2>5
<1>4. CASE Probe(w)
  <2>1. PICK a \in run[w].cand :
          IF ~ agent[a].connected
          THEN run' = [run EXCEPT ![w].pc = "demote", ![w].agent = a]
          ELSE IF run[w].tier = 0 /\ a \notin Qualified[run[w].conv]
          THEN \E r \in TierExhausted(run[w]) : run' = [run EXCEPT ![w] = r]
          ELSE run' = [run EXCEPT ![w].pc = "claim", ![w].agent = a]
    BY <1>4 DEF Probe
  <2>2. a \in Agent /\ run[w].pc = "probe" /\ run[w].conv \in Conv
    BY <1>0, <1>4 DEF Probe, RunState, OneConsistent
  <2>3. ASSUME NEW p \in {"demote", "claim"},
               run' = [run EXCEPT ![w].pc = p, ![w].agent = a]
        PROVE  TypeInv'
    <3> DEFINE r == [run[w] EXCEPT !.pc = p, !.agent = a]
    <3>1. run[w] \in RunState /\ p \in Steps
      BY <1>0 DEF Steps
    <3>2. r \in RunState /\ r.pc = p /\ r.agent = a /\ r.conv = run[w].conv
          /\ r.pref = run[w].pref /\ r.tier = run[w].tier
      BY <2>2, <3>1 DEF RunState
    <3>3. OneConsistent(r)
      BY <1>0, <2>2, <3>2 DEF OneConsistent
    <3>4. run' = [run EXCEPT ![w] = r]
      BY <2>3, <3>1 DEF RunState
    <3> HIDE DEF r
    <3> QED
      BY <1>0, <1>4, <3>3, <3>4 DEF Probe
  <2>4. ASSUME NEW r \in TierExhausted(run[w]), run' = [run EXCEPT ![w] = r]
        PROVE  TypeInv'
    BY <1>0, <1>4, <2>2, <2>4, ExhaustedConsistent DEF Probe
  <2> QED
    BY <2>1, <2>3, <2>4
<1>5. CASE Demote(w)
  <2> DEFINE rest == run[w].cand \ {run[w].agent}
             r == [run[w] EXCEPT !.pc = "probe", !.cand = rest, !.agent = NoAgent]
  <2>1. run[w].pc = "demote" /\ run[w].agent \in Agent
    BY <1>0, <1>5 DEF Demote, OneConsistent
  <2>2. agent' \in [Agent -> AgentRow]
    BY <1>5, <2>1, AgentWrite DEF Demote
  <2>3. CASE rest = {}
    BY <1>0, <1>5, <2>1, <2>2, <2>3, ExhaustedConsistent DEF Demote
  <2>4. CASE rest # {}
    <3>1. run' = [run EXCEPT ![w].pc = "probe", ![w].cand = rest, ![w].agent = NoAgent]
      BY <1>5, <2>4 DEF Demote
    <3>2. rest \in SUBSET Agent
      BY <1>0 DEF RunState
    <3> HIDE DEF rest
    <3>3. r \in RunState /\ r.pc = "probe" /\ r.conv = run[w].conv
          /\ r.pref = run[w].pref /\ r.tier = run[w].tier
      BY <1>0, <3>2 DEF RunState, Steps
    <3>4. OneConsistent(r)
      BY <1>0, <2>1, <3>3 DEF OneConsistent
    <3>5. run' = [run EXCEPT ![w] = r]
      BY <1>0, <3>1 DEF RunState
    <3> HIDE DEF r
    <3> QED
      BY <1>0, <1>5, <2>2, <3>4, <3>5 DEF Demote
  <2> QED
    BY <2>3, <2>4
<1>6. CASE Claim(w)
  <2>1. run[w].pc = "claim" /\ run[w].agent \in Agent /\ run[w].conv \in Conv
    BY <1>0, <1>6 DEF Claim, OneConsistent
  <2>2. CASE Eligible(conv[run[w].conv])
    <3> DEFINE r == [run[w] EXCEPT !.pc = "release", !.cand = {}]
    <3>1. OneConsistent(r) /\ run' = [run EXCEPT ![w] = r]
      BY <1>0, <1>6, <2>1, <2>2 DEF Claim, OneConsistent, RunState, Steps
    <3>2. conv' \in [Conv -> ConvRow]
      BY <1>6, <2>1, <2>2, GivenRow DEF Claim
    <3> QED
      BY <1>0, <1>6, <3>1, <3>2 DEF Claim
  <2>3. CASE ~ Eligible(conv[run[w].conv])
    BY <1>0, <1>6, <2>3, IdleConsistent DEF Claim
  <2> QED
    BY <2>2, <2>3
<1>7. ASSUME NEW p \in {"insert", "recount", "resync"},
             run[w].pc \in {"release", "insert", "recount"},
             run' = [run EXCEPT ![w].pc = p]
      PROVE  /\ run[w].agent \in Agent
             /\ run' \in [Worker -> RunState] /\ RunConsistent'
  <2> DEFINE r == [run[w] EXCEPT !.pc = p]
  <2>1. OneConsistent(r) /\ run' = [run EXCEPT ![w] = r] /\ run[w].agent \in Agent
    BY <1>0, <1>7 DEF OneConsistent, RunState, Steps
  <2> QED
    BY <1>0, <2>1
<1>8. CASE Release(w)
  BY <1>7, <1>8 DEF Release
<1>9. CASE Insert(w)
  <2>1. run[w].agent \in Agent /\ run' \in [Worker -> RunState] /\ RunConsistent'
    BY <1>7, <1>9 DEF Insert
  <2> QED
    BY <1>9, <2>1 DEF Insert
<1>10. CASE Recount(w)
  <2>1. agent' \in [Agent -> AgentRow]
    BY <1>10, RecountedRow DEF Recount
  <2> QED
    BY <1>7, <1>10, <2>1 DEF Recount
<1>11. CASE Resync(w)
  <2>1. run[w].agent \in Agent /\ run[w].pc = "resync" /\ run[w].conv \in Conv
    BY <1>0, <1>11 DEF Resync, OneConsistent
  <2>2. agent' \in [Agent -> AgentRow]
    <3>1. Load(conv, run[w].agent) \in Nat
      BY LoadType
    <3> QED
      BY <1>11, <2>1, <3>1 DEF Resync, AgentRow
  <2>3. ASSUME NEW p \in {"raise", "lower"}, run' = [run EXCEPT ![w] = [@ EXCEPT !.pc = p]]
        PROVE  run' \in [Worker -> RunState] /\ RunConsistent'
    <3> DEFINE r == [run[w] EXCEPT !.pc = p]
    <3>1. OneConsistent(r) /\ run' = [run EXCEPT ![w] = r]
      BY <1>0, <2>1, <2>3 DEF OneConsistent, RunState, Steps
    <3> QED
      BY <1>0, <3>1
  <2>4. CASE run' = [run EXCEPT ![w] = Succeeded(run[w])]
    BY <1>0, <1>11, <2>2, <2>4, SucceededConsistent DEF Resync
  <2> QED
    BY <1>11, <2>2, <2>3, <2>4 DEF Resync
<1>12. CASE SetAvailable(w)
  <2>1. run[w].agent \in Agent /\ (run[w].pc = "raise") \in BOOLEAN
    BY <1>0, <1>12 DEF SetAvailable, OneConsistent
  <2>2. agent' \in [Agent -> AgentRow]
    BY <1>12, <2>1, AgentWrite DEF SetAvailable
  <2> QED
    BY <1>0, <1>12, <2>2, SucceededConsistent DEF SetAvailable
<1> QED
  BY <1>1, <1>2, <1>3, <1>4, <1>5, <1>6, <1>8, <1>9, <1>10, <1>11, <1>12 DEF Execute

\* So does everything else.
LEMMA TypeTrigger ==
    ASSUME TypeInv, NEW w \in Worker, Trigger(w)
    PROVE  TypeInv'
<1> USE DEF TypeInv, AutoAssignTypeOK, DeskTypeOK
<1>1. ASSUME NEW c \in Conv, Call(w, c)
      PROVE  run' \in [Worker -> RunState] /\ RunConsistent'
  BY <1>1, CallConsistent, RunStep DEF Call
<1>2. ASSUME NEW a \in Agent \cup {NoAgent}, NEW loop \in BOOLEAN, CallNext(w, a, loop)
      PROVE  run' \in [Worker -> RunState] /\ RunConsistent'
  BY <1>2, NextConsistent, RunStep DEF CallNext
<1>3. CASE PendingQueueJob(w)
  BY <1>2, <1>3 DEF PendingQueueJob
<1>4. ASSUME NEW c \in Conv, ArriveAtQueue(w, c)
      PROVE  TypeInv'
  <2>1. [conv[c] EXCEPT !.status = "open"] \in ConvRow
    BY DEF ConvRow, Status
  <2>2. conv' \in [Conv -> ConvRow]
    BY <1>4, <2>1 DEF ArriveAtQueue
  <2> QED
    BY <1>1, <1>4, <2>2 DEF ArriveAtQueue
<1>5. ASSUME NEW c \in Conv, BotChoice(w, c)
      PROVE  TypeInv'
  <2>1. [conv[c] EXCEPT !.stage = "human"] \in ConvRow
    BY DEF ConvRow, Stage
  <2>2. [conv EXCEPT ![c].stage = "human"] \in [Conv -> ConvRow]
    BY <2>1
  <2>3. conv' \in [Conv -> ConvRow]
    BY <1>5, <2>2, EnqueuedOnceRow DEF BotChoice
  <2> QED
    BY <1>1, <1>5, <2>3 DEF BotChoice
<1>6. ASSUME NEW c \in Conv, RetryJob(w, c)
      PROVE  TypeInv'
  BY <1>1, <1>6 DEF RetryJob
<1>7. ASSUME NEW a \in Agent, GoOnline(w, a)
      PROVE  TypeInv'
  <2> DEFINE st == IF agent[a].status = "paused" THEN "paused" ELSE "online"
             av == st = "online"
  <2>1. agent' = [agent EXCEPT ![a].connected = TRUE, ![a].status = st, ![a].available = av]
    BY <1>7 DEF GoOnline
  <2>2. st \in {"online", "paused", "offline"} /\ av \in BOOLEAN
    OBVIOUS
  <2> HIDE DEF st, av
  <2>3. agent' \in [Agent -> AgentRow]
    BY <2>1, <2>2, AgentWrite
  <2>4. run' \in [Worker -> RunState] /\ RunConsistent'
    BY <1>2, <1>7, RunSame DEF GoOnline
  <2> QED
    BY <1>7, <2>3, <2>4 DEF GoOnline
<1>8. ASSUME NEW a \in Agent, EndPause(w, a)
      PROVE  TypeInv'
  <2>1. agent' \in [Agent -> AgentRow]
    BY <1>8, AgentWrite DEF EndPause
  <2> QED
    BY <1>2, <1>8, <2>1 DEF EndPause
<1>9. ASSUME NEW a \in Agent, ToggleOn(w, a)
      PROVE  TypeInv'
  <2>1. [agent EXCEPT ![a].status = "online", ![a].available = TRUE] \in [Agent -> AgentRow]
    BY AgentWrite
  <2>2. agent' \in [Agent -> AgentRow]
    BY <1>9, <2>1, RecountedRow DEF ToggleOn
  <2> QED
    BY <1>2, <1>9, <2>2 DEF ToggleOn
<1> QED
  BY <1>3, <1>4, <1>5, <1>6, <1>7, <1>8, <1>9 DEF Trigger

LEMMA TypeDesktop ==
    ASSUME TypeInv, Desktop
    PROVE  TypeInv'
<1> USE DEF TypeInv, AutoAssignTypeOK, DeskTypeOK
<1>1. ASSUME NEW c \in Conv, ArriveAtBot(c)
      PROVE  TypeInv'
  <2>1. [conv[c] EXCEPT !.status = "open", !.stage = "menu"] \in ConvRow
    <3> DEFINE row == conv[c]
    <3>1. row \in ConvRow
      OBVIOUS
    <3> HIDE DEF row
    <3>2. [row EXCEPT !.status = "open", !.stage = "menu"] \in ConvRow
      BY <3>1 DEF ConvRow, Status, Stage
    <3> QED
      BY <3>2 DEF row
  <2>2. conv' = [conv EXCEPT ![c] = [conv[c] EXCEPT !.status = "open", !.stage = "menu"]]
    BY <1>1 DEF ArriveAtBot, ConvRow
  <2>3. conv' \in [Conv -> ConvRow]
    BY <2>1, <2>2
  <2> QED
    BY <1>1, <2>3, RunSame DEF ArriveAtBot
<1>2. ASSUME NEW c \in Conv, Close(c)
      PROVE  TypeInv'
  <2>1. [conv[c] EXCEPT !.status = "closed"] \in ConvRow
    BY DEF ConvRow, Status
  <2>2. [conv EXCEPT ![c].status = "closed"] \in [Conv -> ConvRow]
    BY <2>1
  <2>3. conv' \in [Conv -> ConvRow]
    BY <1>2, <2>2, DequeuedRow DEF Close
  <2>4. agent' \in [Agent -> AgentRow]
    BY <1>2, ResyncedRow DEF Close
  <2> QED
    BY <1>2, <2>3, <2>4, RunSame DEF Close
<1>3. ASSUME NEW c \in Conv, NEW a \in Agent, TakeFromQueue(a, c)
      PROVE  TypeInv'
  BY <1>3, GivenRow, ResyncedRow, RunSame DEF TakeFromQueue
<1>4. ASSUME NEW a \in Agent, LoseSocket(a) \/ GraceOver(a) \/ StartPause(a)
      PROVE  TypeInv'
  <2>1. agent' \in [Agent -> AgentRow]
    <3>1. CASE LoseSocket(a)
      BY <3>1, AgentWrite DEF LoseSocket
    <3>2. CASE GraceOver(a)
      BY <3>2, AgentWrite DEF GraceOver
    <3>3. CASE StartPause(a)
      BY <3>3, AgentWrite DEF StartPause
    <3> QED
      BY <1>4, <3>1, <3>2, <3>3
  <2>2. UNCHANGED <<conv, ledger, run, restarts>>
    BY <1>4 DEF LoseSocket, GraceOver, StartPause
  <2> QED
    BY <2>1, <2>2, RunSame
<1>5. ASSUME NEW a \in Agent, ToggleOff(a)
      PROVE  TypeInv'
  <2> DEFINE st == IF agent[a].status = "paused" THEN "paused" ELSE "offline"
             written == [agent EXCEPT ![a].status = st, ![a].available = FALSE]
  <2>1. agent' = Recounted(written, Agent, conv)
    BY <1>5 DEF ToggleOff, AgentRow
  <2>2. st \in {"online", "paused", "offline"}
    OBVIOUS
  <2> HIDE DEF st
  <2>3. written \in [Agent -> AgentRow]
    BY <2>2, AgentWrite
  <2>4. agent' \in [Agent -> AgentRow]
    BY <2>1, <2>3, RecountedRow
  <2> QED
    BY <1>5, <2>4, RunSame DEF ToggleOff
<1> QED
  BY <1>1, <1>2, <1>3, <1>4, <1>5 DEF Desktop

LEMMA TypeRestart ==
    ASSUME TypeInv, Restart
    PROVE  TypeInv'
<1> USE DEF TypeInv, AutoAssignTypeOK, DeskTypeOK
<1>1. \A a \in Agent : [agent[a] EXCEPT !.connected = FALSE] \in AgentRow
  BY DEF AgentRow
<1>2. agent' \in [Agent -> AgentRow]
  BY <1>1 DEF Restart
<1>3. run' \in [Worker -> RunState] /\ RunConsistent'
  BY IdleConsistent DEF Restart, RunConsistent, OneConsistent
<1>4. restarts' \in 0..MaxRestarts
  BY AutoAssignAssumption DEF Restart
<1> QED
  BY <1>2, <1>3, <1>4 DEF Restart

LEMMA TypeStep == TypeInv /\ [Next]_vars => TypeInv'
<1> SUFFICES ASSUME TypeInv, [Next]_vars PROVE TypeInv'
  OBVIOUS
<1>1. CASE UNCHANGED vars
  BY <1>1 DEF vars, TypeInv, AutoAssignTypeOK, DeskTypeOK, RunConsistent
<1> QED
  BY <1>1, TypeExecute, TypeTrigger, TypeDesktop, TypeRestart DEF Next

\* The rows, the ledger and every execution's record keep their shape, and an
\* execution never stands at a statement without what that statement reads.
THEOREM TypeCorrect == Spec => []AutoAssignTypeOK
<1>1. TypeInv => AutoAssignTypeOK
  BY DEF TypeInv
<1> QED
  BY <1>1, TypeInit, TypeStep, PTL DEF Spec

-----------------------------------------------------------------------------
(* Who changes which column of conversations.                              *)

\* The row keeps its owner, and opens only by being created.
Kept(d) ==
    /\ conv'[d].owner = conv[d].owner /\ conv'[d].source = conv[d].source
    /\ conv'[d].status = "open" => conv[d].status \in {"open", "none"}
    /\ conv'[d].status = "none" => conv[d].status = "none"

AllKept == \A d \in Conv : Kept(d)

LEMMA UnchangedKept ==
    ASSUME UNCHANGED conv
    PROVE  AllKept
  BY DEF AllKept, Kept

\* The statements of an execution, but for the UPDATE of persistAutoAssignment.
LEMMA ExecuteKept ==
    ASSUME TypeInv, NEW w \in Worker, Execute(w), ~ Claim(w)
    PROVE  AllKept
<1>1. CASE Sync(w)
  <2> DEFINE c == run[w].conv
             mark == conv[c].routing \/ conv[c].owner = NoAgent
  <2>1. c \in Conv
    BY <1>1 DEF Sync, TypeInv, RunConsistent
  <2>2. conv \in [Conv -> ConvRow]
    BY DEF TypeInv, AutoAssignTypeOK, DeskTypeOK
  <2>3. conv' = [conv EXCEPT ![c] = [conv[c] EXCEPT !.routing = mark]]
    BY <1>1 DEF Sync
  <2> HIDE DEF mark, c
  <2>4. \A d \in Conv : /\ conv'[d].owner = conv[d].owner
                        /\ conv'[d].source = conv[d].source
                        /\ conv'[d].status = conv[d].status
    BY <2>1, <2>2, <2>3 DEF ConvRow
  <2> QED
    BY <2>4 DEF AllKept, Kept
<1>2. CASE UNCHANGED conv
  BY <1>2, UnchangedKept
<1> QED
  BY <1>1, <1>2 DEF Execute, ReadHead, Select, Probe, Demote, Release, Insert, Recount,
                    Resync, SetAvailable

LEMMA TriggerKept ==
    ASSUME TypeInv, NEW w \in Worker, Trigger(w)
    PROVE  AllKept
<1>0. conv \in [Conv -> ConvRow]
  BY DEF TypeInv, AutoAssignTypeOK, DeskTypeOK
<1>1. ASSUME NEW c \in Conv, ArriveAtQueue(w, c)
      PROVE  AllKept
  BY <1>0, <1>1 DEF ArriveAtQueue, AllKept, Kept, ConvRow
<1>2. ASSUME NEW c \in Conv, BotChoice(w, c)
      PROVE  AllKept
  <2> DEFINE staged == [conv EXCEPT ![c].stage = "human"]
  <2>1. /\ staged \in [Conv -> ConvRow]
        /\ \A d \in Conv : /\ staged[d].owner = conv[d].owner
                           /\ staged[d].source = conv[d].source
                           /\ staged[d].status = conv[d].status
    BY <1>0 DEF ConvRow, Stage
  <2> HIDE DEF staged
  <2>2. conv' = EnqueuedOnce(staged, c)
    BY <1>2 DEF BotChoice, staged
  <2> QED
    BY <2>1, <2>2, EnqueuedOnceRow DEF AllKept, Kept
<1>3. CASE UNCHANGED conv
  BY <1>3, UnchangedKept
<1> QED
  BY <1>1, <1>2, <1>3 DEF Trigger, PendingQueueJob, RetryJob, GoOnline, EndPause, ToggleOn

LEMMA DesktopKept ==
    ASSUME TypeInv, Desktop, ~ \E a \in Agent, c \in Conv : TakeFromQueue(a, c)
    PROVE  AllKept
<1>0. conv \in [Conv -> ConvRow]
  BY DEF TypeInv, AutoAssignTypeOK, DeskTypeOK
<1>1. ASSUME NEW c \in Conv, ArriveAtBot(c)
      PROVE  AllKept
  <2>1. conv' = [conv EXCEPT ![c] = [conv[c] EXCEPT !.status = "open", !.stage = "menu"]]
    BY <1>0, <1>1 DEF ArriveAtBot, ConvRow
  <2> QED
    BY <1>0, <1>1, <2>1 DEF ArriveAtBot, AllKept, Kept, ConvRow
<1>2. ASSUME NEW c \in Conv, Close(c)
      PROVE  AllKept
  <2> DEFINE closed == [conv EXCEPT ![c].status = "closed"]
  <2>1. /\ closed \in [Conv -> ConvRow]
        /\ \A d \in Conv : /\ closed[d].owner = conv[d].owner
                           /\ closed[d].source = conv[d].source
                           /\ closed[d].status \in {conv[d].status, "closed"}
    BY <1>0 DEF ConvRow, Status
  <2> HIDE DEF closed
  <2>2. conv' = Dequeued(closed, c)
    BY <1>2 DEF Close, closed
  <2> QED
    BY <2>1, <2>2, DequeuedRow DEF AllKept, Kept
<1>3. CASE UNCHANGED conv
  BY <1>3, UnchangedKept
<1> QED
  BY <1>1, <1>2, <1>3 DEF Desktop, LoseSocket, GraceOver, StartPause, ToggleOff

\* Every step keeps the owners, but for the two that give a queued row away.
LEMMA GivenOrKept ==
    ASSUME TypeInv, [Next]_vars
    PROVE  \/ AllKept
           \/ \E w \in Worker : Claim(w) /\ Eligible(conv[run[w].conv])
           \/ \E a \in Agent, c \in Conv : TakeFromQueue(a, c)
<1>1. CASE UNCHANGED vars \/ Restart
  BY <1>1, UnchangedKept DEF vars, Restart
<1>2. ASSUME NEW w \in Worker, Claim(w), ~ Eligible(conv[run[w].conv])
      PROVE  AllKept
  BY <1>2, UnchangedKept DEF Claim
<1> QED
  BY <1>1, <1>2, ExecuteKept, TriggerKept, DesktopKept DEF Next

\* A conversation changes hands only out of the human queue: the re-checked
\* WHERE clauses of persistAutoAssignment and assignQueuedConversationToMe.
THEOREM HandsChangeInQueue == Spec => GivenOnlyFromQueue
<1>1. TypeInv /\ [Next]_vars
         => [\A c \in Conv : conv'[c].owner # conv[c].owner => Eligible(conv[c])]_vars
  <2> SUFFICES ASSUME TypeInv, [Next]_vars, NEW d \in Conv,
                      conv'[d].owner # conv[d].owner
               PROVE  Eligible(conv[d])
    OBVIOUS
  <2>0. conv \in [Conv -> ConvRow]
    BY DEF TypeInv, AutoAssignTypeOK, DeskTypeOK
  <2>1. ~ AllKept
    BY DEF AllKept, Kept
  <2>2. ASSUME NEW w \in Worker, Claim(w), Eligible(conv[run[w].conv])
        PROVE  Eligible(conv[d])
    <3>1. run[w].conv \in Conv /\ run[w].agent \in Agent
      BY <2>2 DEF Claim, TypeInv, RunConsistent
    <3>2. conv' = Given(conv, run[w].conv, run[w].agent, "auto")
      BY <2>2 DEF Claim
    <3>3. CASE d = run[w].conv
      BY <2>2, <3>3
    <3>4. CASE d # run[w].conv
      <4>1. conv'[d].owner = conv[d].owner
        BY <2>0, <3>1, <3>2, <3>4, GivenRow
      <4> QED
        BY <4>1
    <3> QED
      BY <3>3, <3>4
  <2>3. ASSUME NEW a \in Agent, NEW c \in Conv, TakeFromQueue(a, c)
        PROVE  Eligible(conv[d])
    <3>1. conv' = Given(conv, c, a, "person") /\ Eligible(conv[c])
      BY <2>3 DEF TakeFromQueue
    <3>2. CASE d = c
      BY <3>1, <3>2
    <3>3. CASE d # c
      <4>1. conv'[d].owner = conv[d].owner
        BY <2>0, <3>1, <3>3, GivenRow
      <4> QED
        BY <4>1
    <3> QED
      BY <3>2, <3>3
  <2> QED
    BY <2>1, <2>2, <2>3, GivenOrKept
<1> QED
  BY <1>1, TypeInit, TypeStep, PTL DEF Spec, GivenOnlyFromQueue

-----------------------------------------------------------------------------
(* A pause is honoured.                                                    *)

\* No statement makes an agent available who is not online.
LEMMA AvailableStep ==
    ASSUME TypeInv, AvailableOnlyOnline, [Next]_vars
    PROVE  AvailableOnlyOnline'
<1>0. agent \in [Agent -> AgentRow]
  BY DEF TypeInv, AutoAssignTypeOK, DeskTypeOK
<1> DEFINE sound(ag) == \A b \in Agent : ag[b].available => ag[b].status = "online"
<1>1. sound(agent) /\ (sound(agent') => AvailableOnlyOnline')
  BY DEF AvailableOnlyOnline
<1>2. ASSUME NEW a \in Agent, NEW st \in {"online", "paused", "offline"},
             NEW av \in BOOLEAN, av => st = "online"
      PROVE  sound([agent EXCEPT ![a].status = st, ![a].available = av])
  BY <1>0, <1>1, <1>2 DEF AgentRow
<1>3. ASSUME NEW ag \in [Agent -> AgentRow], sound(ag), NEW S, NEW cs
      PROVE  sound(Recounted(ag, S, cs)) /\ sound(Resynced(ag, S, cs))
  BY <1>3, RecountedRow, ResyncedRow
<1>4. CASE UNCHANGED agent
  BY <1>1, <1>4 DEF AvailableOnlyOnline
<1>5. ASSUME NEW w \in Worker, Execute(w)
      PROVE  sound(agent')
  <2>1. run[w].pc \in {"demote", "resync", "raise", "lower"} => run[w].agent \in Agent
    BY DEF TypeInv, RunConsistent
  <2>2. CASE Sync(w) \/ Recount(w)
    BY <1>0, <1>1, <1>3, <2>2 DEF Sync, Recount
  <2>3. CASE Demote(w)
    BY <1>0, <1>1, <1>2, <2>1, <2>3 DEF Demote
  <2>4. CASE Resync(w)
    <3> DEFINE n == Load(conv, run[w].agent)
    <3>1. agent' = [agent EXCEPT ![run[w].agent] = [agent[run[w].agent] EXCEPT !.active = n]]
      BY <2>4 DEF Resync
    <3> HIDE DEF n
    <3> QED
      BY <1>0, <1>1, <3>1 DEF AgentRow
  <2>5. CASE SetAvailable(w)
    <3>1. run[w].agent \in Agent
      BY <2>1, <2>5 DEF SetAvailable
    <3>2. CASE agent[run[w].agent].status = "online"
      <4> DEFINE av == run[w].pc = "raise"
      <4>1. agent' = [agent EXCEPT ![run[w].agent].available = av]
        BY <2>5, <3>2 DEF SetAvailable
      <4> HIDE DEF av
      <4> QED
        BY <1>0, <1>1, <3>1, <3>2, <4>1 DEF AgentRow
    <3>3. CASE agent[run[w].agent].status # "online"
      BY <1>1, <2>5, <3>3 DEF SetAvailable
    <3> QED
      BY <3>2, <3>3
  <2>6. CASE UNCHANGED agent
    BY <1>1, <2>6
  <2> QED
    BY <1>5, <2>2, <2>3, <2>4, <2>5, <2>6
       DEF Execute, ReadHead, Select, Probe, Claim, Release, Insert
<1>6. ASSUME NEW w \in Worker, Trigger(w)
      PROVE  sound(agent')
  <2>1. ASSUME NEW a \in Agent, GoOnline(w, a)
        PROVE  sound(agent')
    <3> DEFINE st == IF agent[a].status = "paused" THEN "paused" ELSE "online"
               av == st = "online"
    <3>1. agent' = [agent EXCEPT ![a].connected = TRUE, ![a].status = st, ![a].available = av]
      BY <2>1 DEF GoOnline
    <3>2. av => st = "online"
      OBVIOUS
    <3> HIDE DEF st, av
    <3> QED
      BY <1>0, <1>1, <3>1, <3>2 DEF AgentRow
  <2>2. ASSUME NEW a \in Agent, EndPause(w, a)
        PROVE  sound(agent')
    BY <1>2, <2>2 DEF EndPause
  <2>3. ASSUME NEW a \in Agent, ToggleOn(w, a)
        PROVE  sound(agent')
    <3> DEFINE written == [agent EXCEPT ![a].status = "online", ![a].available = TRUE]
    <3>1. written \in [Agent -> AgentRow] /\ sound(written)
      BY <1>0, <1>2, AgentWrite
    <3>2. agent' = Recounted(written, Agent, conv)
      BY <2>3 DEF ToggleOn
    <3> HIDE DEF written
    <3> QED
      BY <1>3, <3>1, <3>2
  <2>4. CASE UNCHANGED agent
    BY <1>1, <2>4
  <2> QED
    BY <1>6, <2>1, <2>2, <2>3, <2>4
       DEF Trigger, PendingQueueJob, ArriveAtQueue, BotChoice, RetryJob
<1>7. CASE Desktop
  <2> HIDE DEF sound
  <2>1. ASSUME NEW a \in Agent, ToggleOff(a)
        PROVE  sound(agent')
    <3> DEFINE st == IF agent[a].status = "paused" THEN "paused" ELSE "offline"
               written == [agent EXCEPT ![a].status = st, ![a].available = FALSE]
    <3>1. agent' = Recounted(written, Agent, conv)
      BY <1>0, <2>1 DEF ToggleOff, AgentRow
    <3>2. st \in {"online", "paused", "offline"}
      OBVIOUS
    <3> HIDE DEF st
    <3>3. written \in [Agent -> AgentRow] /\ sound(written)
      BY <1>0, <1>2, <3>2, AgentWrite
    <3> HIDE DEF written
    <3> QED
      BY <1>3, <3>1, <3>3
  <2>2. ASSUME NEW c \in Conv, Close(c)
        PROVE  sound(agent')
    BY <1>0, <1>1, <1>3, <2>2 DEF Close
  <2>6. ASSUME NEW c \in Conv, NEW a \in Agent, TakeFromQueue(a, c)
        PROVE  sound(agent')
    BY <1>0, <1>1, <1>3, <2>6 DEF TakeFromQueue
  <2>3. ASSUME NEW a \in Agent, LoseSocket(a)
        PROVE  sound(agent')
    BY <1>0, <1>1, <2>3 DEF LoseSocket, AgentRow, sound
  <2>4. ASSUME NEW a \in Agent, GraceOver(a)
        PROVE  sound(agent')
    BY <1>2, <2>4 DEF GraceOver
  <2>7. ASSUME NEW a \in Agent, StartPause(a)
        PROVE  sound(agent')
    BY <1>2, <2>7 DEF StartPause
  <2>5. ASSUME NEW c \in Conv, ArriveAtBot(c)
        PROVE  sound(agent')
    BY <1>1, <2>5 DEF ArriveAtBot
  <2> QED
    BY <1>1, <1>7, <2>1, <2>2, <2>3, <2>4, <2>5, <2>6, <2>7 DEF Desktop
<1>8. CASE Restart
  <2>1. agent' = [b \in Agent |-> [agent[b] EXCEPT !.connected = FALSE]]
    BY <1>8 DEF Restart
  <2> QED
    BY <1>0, <1>1, <2>1 DEF AgentRow
<1> QED
  BY <1>1, <1>4, <1>5, <1>6, <1>7, <1>8 DEF Next, vars

\* Whatever an execution read before its await, no statement of it makes an
\* agent available whose row is not online when the statement runs.
THEOREM PauseHonoured == Spec => []AvailableOnlyOnline
<1>1. Init => AvailableOnlyOnline
  BY DEF Init, DeskInit, OfflineAgent, AvailableOnlyOnline
<1>2. TypeInv /\ AvailableOnlyOnline /\ [Next]_vars => TypeInv' /\ AvailableOnlyOnline'
  BY TypeStep, AvailableStep
<1> QED
  BY <1>1, <1>2, TypeInit, PTL DEF Spec

-----------------------------------------------------------------------------
(* The bound on what overlapping executions can overshoot.                 *)

\* Executions that may still give a row to a on the strength of an earlier
\* read of the counter, and those that gave one but have not recounted.
Pending(rs, a) ==
    {v \in Worker : \/ rs[v].pc \in {"probe", "demote"} /\ a \in rs[v].cand
                    \/ rs[v].pc = "claim" /\ rs[v].agent = a}

Unrecounted(rs, a) ==
    {v \in Worker : rs[v].pc \in {"release", "insert", "recount"} /\ rs[v].agent = a}

Searching(rs) == \E v \in Worker : rs[v].pc \in {"select", "probe", "demote"}

\* A conversation that does not exist yet belongs to nobody.
NoneUnowned == \A c \in Conv : conv[c].status = "none" => conv[c].owner = NoAgent

\* Rows routed to a and rows about to be.
Bounded(cs, rs, a) ==
    Cardinality(RoutedTo(cs, a)) + Cardinality(Pending(rs, a))
        <= Limit[a] + Cardinality(Worker) - 1

\* The counter lags the rows by the executions that have not recounted, and by
\* nothing else, as long as someone may read it.
Covered(cs, ag, rs, a) ==
    Searching(rs) => Load(cs, a) <= ag[a].active + Cardinality(Unrecounted(rs, a))

IInv ==
    /\ TypeInv
    /\ NoneUnowned
    /\ \A a \in Agent : Bounded(conv, run, a) /\ Covered(conv, agent, run, a)

LEMMA WorkerSets ==
    ASSUME NEW rs, NEW a
    PROVE  /\ IsFiniteSet(Pending(rs, a)) /\ Cardinality(Pending(rs, a)) \in Nat
           /\ IsFiniteSet(Unrecounted(rs, a)) /\ Cardinality(Unrecounted(rs, a)) \in Nat
           /\ Cardinality(Worker) \in Nat /\ Cardinality(Worker) >= 1
<1>1. Pending(rs, a) \in SUBSET Worker /\ Unrecounted(rs, a) \in SUBSET Worker
  BY DEF Pending, Unrecounted
<1>2. IsFiniteSet(Worker) /\ Worker # {}
  BY AutoAssignAssumption
<1>3. Cardinality(Worker) \in Nat /\ Cardinality(Worker) # 0
  BY <1>2, FS_CardinalityType, FS_EmptySet
<1> QED
  BY <1>1, <1>2, <1>3, FS_Subset, FS_CardinalityType

\* Fewer rows, fewer pending executions.
LEMMA BoundedShrinks ==
    ASSUME NEW cs1, NEW cs2, NEW rs1, NEW rs2, NEW a \in Agent,
           Bounded(cs1, rs1, a),
           RoutedTo(cs2, a) \subseteq RoutedTo(cs1, a),
           Pending(rs2, a) \subseteq Pending(rs1, a)
    PROVE  Bounded(cs2, rs2, a)
<1> DEFINE r1 == Cardinality(RoutedTo(cs1, a))
           r2 == Cardinality(RoutedTo(cs2, a))
           p1 == Cardinality(Pending(rs1, a))
           p2 == Cardinality(Pending(rs2, a))
           n == Cardinality(Worker)
<1>1. r1 \in Nat /\ r2 \in Nat /\ p1 \in Nat /\ p2 \in Nat /\ n \in Nat
  BY LoadType, WorkerSets
<1>2. r2 <= r1 /\ p2 <= p1
  BY LoadType, WorkerSets, FS_Subset
<1>3. r1 + p1 <= Limit[a] + n - 1 /\ Limit[a] \in Nat
  BY DeskAssumption DEF Bounded
<1> HIDE DEF r1, r2, p1, p2, n
<1>4. r2 + p2 <= Limit[a] + n - 1
  BY <1>1, <1>2, <1>3
<1> QED
  BY <1>4 DEF Bounded, r2, p2, n

\* The rows shrink and nobody recounts, or the counter is exact.
LEMMA CoveredKept ==
    ASSUME NEW cs1, NEW cs2, NEW ag1, NEW ag2, NEW rs1, NEW rs2, NEW a \in Agent,
           ag1[a].active \in Nat, ag2[a].active \in Nat,
           Covered(cs1, ag1, rs1, a),
           Searching(rs2) => Load(cs2, a) <= ag2[a].active
              \/ /\ Searching(rs1)
                 /\ OpenOf(cs2, a) \subseteq OpenOf(cs1, a)
                 /\ ag2[a].active = ag1[a].active
                 /\ Unrecounted(rs1, a) \subseteq Unrecounted(rs2, a)
    PROVE  Covered(cs2, ag2, rs2, a)
<1> SUFFICES ASSUME Searching(rs2)
             PROVE  Load(cs2, a) <= ag2[a].active + Cardinality(Unrecounted(rs2, a))
  BY DEF Covered
<1> DEFINE l1 == Load(cs1, a)
           l2 == Load(cs2, a)
           u1 == Cardinality(Unrecounted(rs1, a))
           u2 == Cardinality(Unrecounted(rs2, a))
<1>1. l1 \in Nat /\ l2 \in Nat /\ u1 \in Nat /\ u2 \in Nat
  BY LoadType, WorkerSets
<1>2. CASE l2 <= ag2[a].active
  <2> HIDE DEF l2, u2
  <2>1. l2 <= ag2[a].active + u2
    BY <1>1, <1>2
  <2> QED
    BY <2>1 DEF l2, u2
<1>3. CASE /\ Searching(rs1)
           /\ OpenOf(cs2, a) \subseteq OpenOf(cs1, a)
           /\ ag2[a].active = ag1[a].active
           /\ Unrecounted(rs1, a) \subseteq Unrecounted(rs2, a)
  <2>1. l2 <= l1 /\ u1 <= u2
    BY <1>3, LoadType, WorkerSets, FS_Subset DEF Load
  <2>2. l1 <= ag1[a].active + u1
    BY <1>3 DEF Covered
  <2> HIDE DEF l1, l2, u1, u2
  <2>3. l2 <= ag2[a].active + u2
    BY <1>1, <1>3, <2>1, <2>2
  <2> QED
    BY <2>3 DEF l2, u2
<1> QED
  BY <1>2, <1>3

\* A step that gives nothing away keeps the invariant.
LEMMA QuietStep ==
    ASSUME IInv, TypeInv', NoneUnowned',
           \A a \in Agent :
              /\ RoutedTo(conv', a) \subseteq RoutedTo(conv, a)
              /\ Pending(run', a) \subseteq Pending(run, a)
              /\ Searching(run') => Load(conv', a) <= agent'[a].active
                    \/ /\ Searching(run)
                       /\ OpenOf(conv', a) \subseteq OpenOf(conv, a)
                       /\ agent'[a].active = agent[a].active
                       /\ Unrecounted(run, a) \subseteq Unrecounted(run', a)
    PROVE  IInv'
<1> SUFFICES ASSUME NEW a \in Agent
             PROVE  Bounded(conv', run', a) /\ Covered(conv', agent', run', a)
  BY DEF IInv
<1>1. agent[a].active \in Nat /\ agent'[a].active \in Nat
  BY DEF IInv, TypeInv, AutoAssignTypeOK, DeskTypeOK, AgentRow
<1>2. Bounded(conv', run', a)
  BY BoundedShrinks DEF IInv
<1>3. Covered(conv', agent', run', a)
  BY <1>1, CoveredKept DEF IInv
<1> QED
  BY <1>2, <1>3

\* Rows that keep their owner leave everybody with the same rows or fewer.
LEMMA KeptRows ==
    ASSUME IInv, AllKept
    PROVE  /\ NoneUnowned'
           /\ \A a \in Agent : /\ OpenOf(conv', a) \subseteq OpenOf(conv, a)
                               /\ RoutedTo(conv', a) \subseteq RoutedTo(conv, a)
                               /\ Load(conv', a) <= Load(conv, a)
<1>1. NoneUnowned'
  BY DEF IInv, NoneUnowned, AllKept, Kept
<1>2. ASSUME NEW a \in Agent
      PROVE  /\ OpenOf(conv', a) \subseteq OpenOf(conv, a)
             /\ RoutedTo(conv', a) \subseteq RoutedTo(conv, a)
             /\ Load(conv', a) <= Load(conv, a)
  <2>1. ASSUME NEW c \in Conv, conv'[c].owner = a, conv'[c].status = "open"
        PROVE  conv[c].owner = a /\ conv[c].status = "open"
               /\ conv'[c].source = conv[c].source
    BY <2>1, DeskAssumption DEF IInv, NoneUnowned, AllKept, Kept
  <2>2. /\ OpenOf(conv', a) \subseteq OpenOf(conv, a)
        /\ RoutedTo(conv', a) \subseteq RoutedTo(conv, a)
    BY <2>1 DEF OpenOf, RoutedTo
  <2> QED
    BY <2>2, LoadType, FS_Subset DEF Load
<1> QED
  BY <1>1, <1>2

\* No execution comes nearer to giving a row, or forgets one it gave.
QuietRun ==
    /\ \A a \in Agent : /\ Pending(run', a) \subseteq Pending(run, a)
                        /\ Unrecounted(run, a) \subseteq Unrecounted(run', a)
    /\ Searching(run') => Searching(run)

LEMMA QuietUnchanged ==
    ASSUME UNCHANGED run
    PROVE  QuietRun
  BY DEF QuietRun

LEMMA QuietExecution ==
    ASSUME TypeInv, NEW w \in Worker, NEW r, run' = [run EXCEPT ![w] = r],
           r.pc \in {"probe", "demote"}
              => run[w].pc \in {"probe", "demote"} /\ r.cand \subseteq run[w].cand,
           r.pc = "claim" => run[w].pc = "probe" /\ r.agent \in run[w].cand,
           run[w].pc \in {"release", "insert", "recount"}
              => r.pc \in {"release", "insert", "recount"} /\ r.agent = run[w].agent,
           r.pc = "select" => run[w].pc \in {"select", "probe", "demote"}
    PROVE  QuietRun
<1>1. run \in [Worker -> RunState]
  BY DEF TypeInv, AutoAssignTypeOK
<1>2. run'[w] = r /\ \A v \in Worker \ {w} : run'[v] = run[v]
  BY <1>1
<1>3. ASSUME NEW a \in Agent
      PROVE  /\ Pending(run', a) \subseteq Pending(run, a)
             /\ Unrecounted(run, a) \subseteq Unrecounted(run', a)
  <2>1. ASSUME NEW v \in Pending(run', a)
        PROVE  v \in Pending(run, a)
    <3>1. CASE v = w
      BY <1>2, <2>1, <3>1 DEF Pending
    <3>2. CASE v # w
      BY <1>2, <2>1, <3>2 DEF Pending
    <3> QED
      BY <3>1, <3>2
  <2>2. ASSUME NEW v \in Unrecounted(run, a)
        PROVE  v \in Unrecounted(run', a)
    <3>1. CASE v = w
      BY <1>2, <2>2, <3>1 DEF Unrecounted
    <3>2. CASE v # w
      BY <1>2, <2>2, <3>2 DEF Unrecounted
    <3> QED
      BY <3>1, <3>2
  <2> QED
    BY <2>1, <2>2
<1>4. Searching(run') => Searching(run)
  BY <1>2 DEF Searching
<1> QED
  BY <1>3, <1>4 DEF QuietRun

LEMMA KeptQuiet ==
    ASSUME IInv, TypeInv', AllKept, QuietRun,
           \A a \in Agent : agent'[a].active
              \in {agent[a].active, Load(conv, a), Load(conv', a)}
    PROVE  IInv'
<1>1. \A a \in Agent : Load(conv', a) <= Load(conv, a) /\ Load(conv', a) \in Nat
  BY KeptRows, LoadType
<1> QED
  BY <1>1, KeptRows, QuietStep DEF QuietRun

\* The counters of a step that leaves agent_assignments alone, or writes only
\* status, availability and sockets.
LEMMA SameActive ==
    ASSUME agent \in [Agent -> AgentRow], NEW b \in Agent,
           NEW st \in {"online", "paused", "offline"}, NEW av \in BOOLEAN
    PROVE  /\ \A a \in Agent : [agent EXCEPT ![b].status = st, ![b].available = av][a].active
                                  = agent[a].active
           /\ \A a \in Agent : [agent EXCEPT ![b].available = av][a].active = agent[a].active
           /\ \A a \in Agent : [agent EXCEPT ![b].connected = av][a].active = agent[a].active
           /\ \A a \in Agent :
                 [agent EXCEPT ![b].connected = TRUE, ![b].status = st,
                               ![b].available = av][a].active = agent[a].active
  BY DEF AgentRow

LEMMA BoundTrigger ==
    ASSUME IInv, TypeInv', NEW w \in Worker, Trigger(w)
    PROVE  IInv'
<1>0. TypeInv /\ AllKept /\ agent \in [Agent -> AgentRow]
  BY TriggerKept DEF IInv, TypeInv, AutoAssignTypeOK, DeskTypeOK
<1>1. ASSUME NEW pc \in {"next", "sync"}, NEW c, NEW a, NEW loop \in BOOLEAN, run[w].pc = "idle",
             run' = [run EXCEPT ![w] = At(pc, c, a, loop)]
      PROVE  QuietRun
  BY <1>0, <1>1, QuietExecution DEF At
<1>2. QuietRun
  BY <1>1, QuietUnchanged DEF Trigger, PendingQueueJob, ArriveAtQueue, BotChoice, RetryJob,
     GoOnline, EndPause, ToggleOn, Call, CallNext
<1>3. \A a \in Agent : agent'[a].active \in {agent[a].active, Load(conv, a)}
  <2>1. CASE UNCHANGED agent
    BY <2>1
  <2>2. ASSUME NEW b \in Agent, GoOnline(w, b)
        PROVE  \A a \in Agent : agent'[a].active = agent[a].active
    <3> DEFINE st == IF agent[b].status = "paused" THEN "paused" ELSE "online"
               av == st = "online"
    <3>1. agent' = [agent EXCEPT ![b].connected = TRUE, ![b].status = st, ![b].available = av]
      BY <2>2 DEF GoOnline
    <3>2. st \in {"online", "paused", "offline"} /\ av \in BOOLEAN
      OBVIOUS
    <3> HIDE DEF st, av
    <3>3. \A a \in Agent \ {b} : agent'[a] = agent[a]
      BY <1>0, <3>1
    <3>4. agent[b] \in AgentRow /\ agent'[b] = [agent[b] EXCEPT !.connected = TRUE,
                                              !.status = st, !.available = av]
      BY <1>0, <3>1 DEF AgentRow
    <3>5. agent'[b].active = agent[b].active
      BY <3>4 DEF AgentRow
    <3> QED
      BY <3>3, <3>5
  <2>3. ASSUME NEW b \in Agent, EndPause(w, b)
        PROVE  \A a \in Agent : agent'[a].active = agent[a].active
    <3>1. agent' = [agent EXCEPT ![b].status = "online", ![b].available = TRUE]
      BY <2>3 DEF EndPause
    <3>2. \A a \in Agent : [agent EXCEPT ![b].status = "online", ![b].available = TRUE][a].active
                          = agent[a].active
      BY <1>0, SameActive
    <3> QED
      BY <3>1, <3>2, Zenon
  <2>4. ASSUME NEW b \in Agent, ToggleOn(w, b)
        PROVE  \A a \in Agent : agent'[a].active = Load(conv, a)
    <3> DEFINE written == [agent EXCEPT ![b].status = "online", ![b].available = TRUE]
    <3>1. written \in [Agent -> AgentRow]
      BY <1>0, AgentWrite
    <3>2. agent' = Recounted(written, Agent, conv)
      BY <2>4 DEF ToggleOn
    <3> HIDE DEF written
    <3> QED
      BY <3>1, <3>2, RecountedRow
  <2> QED
    BY <2>1, <2>2, <2>3, <2>4
       DEF Trigger, PendingQueueJob, ArriveAtQueue, BotChoice, RetryJob
<1> QED
  BY <1>0, <1>2, <1>3, KeptQuiet

LEMMA BoundDesktop ==
    ASSUME IInv, TypeInv', Desktop
    PROVE  IInv'
<1>0. TypeInv /\ agent \in [Agent -> AgentRow] /\ conv \in [Conv -> ConvRow]
  BY DEF IInv, TypeInv, AutoAssignTypeOK, DeskTypeOK
<1>1. UNCHANGED run
  BY DEF Desktop, ArriveAtBot, Close, TakeFromQueue, LoseSocket, GraceOver, StartPause,
         ToggleOff
<1>2. ASSUME NEW c \in Conv, NEW b \in Agent, TakeFromQueue(b, c)
      PROVE  IInv'
  <2>1. conv' = Given(conv, c, b, "person") /\ conv[c].owner = NoAgent
        /\ agent' = Resynced(agent, {b}, conv')
    BY <1>2 DEF TakeFromQueue, Eligible
  <2>2. /\ conv'[c].owner = b /\ conv'[c].status = "open" /\ conv'[c].source = "person"
        /\ \A d \in Conv \ {c} : /\ conv'[d].owner = conv[d].owner
                                 /\ conv'[d].status = conv[d].status
                                 /\ conv'[d].source = conv[d].source
    BY <1>0, <2>1, GivenRow
  <2>3. NoneUnowned'
    BY <2>2 DEF IInv, NoneUnowned
  <2>4. \A a \in Agent : RoutedTo(conv', a) \subseteq RoutedTo(conv, a)
    BY <2>2 DEF RoutedTo, OpenOf
  <2>5. \A a \in Agent \ {b} : OpenOf(conv', a) \subseteq OpenOf(conv, a)
    BY <2>2 DEF OpenOf
  <2>6. \A a \in Agent : agent'[a].active = IF a = b THEN Load(conv', a) ELSE agent[a].active
    BY <1>0, <2>1, ResyncedRow
  <2>7. Load(conv', b) \in Nat
    BY LoadType
  <2>8. QuietRun
    BY <1>1, QuietUnchanged
  <2> QED
    BY <2>3, <2>4, <2>5, <2>6, <2>7, <2>8, QuietStep DEF QuietRun
<1>3. ASSUME NEW c \in Conv, Close(c)
      PROVE  \A a \in Agent : agent'[a].active \in {agent[a].active, Load(conv', a)}
  BY <1>0, <1>3, ResyncedRow DEF Close
<1>4. ASSUME NEW b \in Agent, ToggleOff(b)
      PROVE  \A a \in Agent : agent'[a].active = Load(conv, a)
  <2> DEFINE st == IF agent[b].status = "paused" THEN "paused" ELSE "offline"
             written == [agent EXCEPT ![b].status = st, ![b].available = FALSE]
  <2>1. agent' = Recounted(written, Agent, conv)
    BY <1>0, <1>4 DEF ToggleOff, AgentRow
  <2>2. st \in {"online", "paused", "offline"}
    OBVIOUS
  <2> HIDE DEF st
  <2>3. written \in [Agent -> AgentRow]
    BY <1>0, <2>2, AgentWrite
  <2> HIDE DEF written
  <2> QED
    BY <2>1, <2>3, RecountedRow
<1>5. ASSUME NEW b \in Agent, LoseSocket(b)
      PROVE  \A a \in Agent : agent'[a].active = agent[a].active
  BY <1>0, <1>5, SameActive DEF LoseSocket
<1>6. ASSUME NEW b \in Agent, GraceOver(b)
      PROVE  \A a \in Agent : agent'[a].active = agent[a].active
  <2>1. agent' = [agent EXCEPT ![b].status = "offline", ![b].available = FALSE]
    BY <1>6 DEF GraceOver
  <2>2. \A a \in Agent : [agent EXCEPT ![b].status = "offline", ![b].available = FALSE][a].active
                        = agent[a].active
    BY <1>0, SameActive
  <2> QED
    BY <2>1, <2>2, Zenon
<1>7. ASSUME NEW b \in Agent, StartPause(b)
      PROVE  \A a \in Agent : agent'[a].active = agent[a].active
  <2>1. agent' = [agent EXCEPT ![b].status = "paused", ![b].available = FALSE]
    BY <1>7 DEF StartPause
  <2>2. \A a \in Agent : [agent EXCEPT ![b].status = "paused", ![b].available = FALSE][a].active
                        = agent[a].active
    BY <1>0, SameActive
  <2> QED
    BY <2>1, <2>2, Zenon
<1>8. ASSUME NEW c \in Conv, ArriveAtBot(c)
      PROVE  UNCHANGED agent
  BY <1>8 DEF ArriveAtBot
<1>9. CASE ~ \E a \in Agent, c \in Conv : TakeFromQueue(a, c)
  <2>1. AllKept
    BY <1>0, <1>9, DesktopKept
  <2>2. \A a \in Agent : agent'[a].active \in {agent[a].active, Load(conv, a), Load(conv', a)}
    BY <1>3, <1>4, <1>5, <1>6, <1>7, <1>8, <1>9 DEF Desktop
  <2> QED
    BY <1>1, <2>1, <2>2, QuietUnchanged, KeptQuiet
<1> QED
  BY <1>2, <1>9

\* Reading the counter below the limit: the rows cannot have passed it by more
\* than the executions still to recount, and these are not pending.
LEMMA BoundSelect ==
    ASSUME IInv, TypeInv', NEW w \in Worker, Select(w)
    PROVE  IInv'
<1>0. TypeInv /\ AllKept /\ UNCHANGED <<conv, agent>> /\ run[w].pc = "select"
      /\ run \in [Worker -> RunState]
  BY UnchangedKept DEF IInv, Select, TypeInv, AutoAssignTypeOK
<1>1. PICK lapsed :
         LET rows == Candidates(TierOf(run[w]), lapsed) IN
         IF rows = {}
         THEN \E r \in TierExhausted(run[w]) : run' = [run EXCEPT ![w] = r]
         ELSE run' = [run EXCEPT ![w].pc = "probe", ![w].cand = rows]
  BY DEF Select
<1> DEFINE rows == Candidates(TierOf(run[w]), lapsed)
<1>2. CASE rows = {}
  <2>1. OneConsistent(run[w])
    BY <1>0 DEF TypeInv, AutoAssignTypeOK, RunConsistent, OneConsistent
  <2>2. PICK r \in TierExhausted(run[w]) : run' = [run EXCEPT ![w] = r]
    BY <1>1, <1>2
  <2>3. r.pc \in {"select", "idle"}
    BY <1>0, <2>1, ExhaustedConsistent
  <2>4. QuietRun
    BY <1>0, <2>2, <2>3, QuietExecution
  <2> QED
    BY <1>0, <2>4, KeptQuiet
<1>3. CASE rows # {}
  <2> DEFINE r == [run[w] EXCEPT !.pc = "probe", !.cand = rows]
  <2>1. run' = [run EXCEPT ![w] = r]
    BY <1>0, <1>1, <1>3
  <2>2. r.pc = "probe" /\ r.cand = rows /\ r.agent = run[w].agent
    BY <1>0 DEF RunState
  <2>3. \A a \in rows : a \in Agent => agent[a].active < Limit[a]
    BY DEF Candidates
  <2> HIDE DEF r, rows
  <2>4. run'[w] = r /\ \A v \in Worker \ {w} : run'[v] = run[v]
    BY <1>0, <2>1
  <2>5. ASSUME NEW a \in Agent
        PROVE  Bounded(conv', run', a) /\ Covered(conv', agent', run', a)
    <3>1. Unrecounted(run', a) = Unrecounted(run, a)
      BY <1>0, <2>2, <2>4 DEF Unrecounted
    <3>2. Covered(conv', agent', run', a)
      BY <1>0, <3>1 DEF Covered, Searching, IInv
    <3>3. CASE a \notin rows
      <4>1. Pending(run', a) \subseteq Pending(run, a)
        BY <2>2, <2>4, <3>3 DEF Pending
      <4> QED
        BY <1>0, <3>2, <4>1, BoundedShrinks DEF IInv
    <3>4. CASE a \in rows
      <4> DEFINE P == Pending(run, a)
                 U == Unrecounted(run, a)
      <4>1. /\ P \in SUBSET Worker /\ U \in SUBSET Worker
            /\ P \cap U = {} /\ w \notin P /\ w \notin U
        BY <1>0 DEF Pending, Unrecounted
      <4>2. Pending(run', a) = P \cup {w}
        BY <2>2, <2>4, <3>4 DEF Pending
      <4>3. Load(conv, a) <= agent[a].active + Cardinality(U)
        BY <1>0 DEF IInv, Covered, Searching
      <4>4. agent[a].active < Limit[a] /\ agent[a].active \in Nat /\ Limit[a] \in Nat
        BY <1>0, <2>3, <3>4, DeskAssumption
           DEF TypeInv, AutoAssignTypeOK, DeskTypeOK, AgentRow
      <4>5. IsFiniteSet(P) /\ IsFiniteSet(U) /\ Cardinality(P) \in Nat /\ Cardinality(U) \in Nat
        BY WorkerSets
      <4> HIDE DEF P, U
      <4>6. /\ IsFiniteSet(P \cup U)
            /\ Cardinality(P \cup U) = Cardinality(P) + Cardinality(U)
        <5>1. Cardinality(P \cap U) = 0
          BY <4>1, FS_EmptySet
        <5>2. /\ IsFiniteSet(P \cup U)
              /\ Cardinality(P \cup U)
                    = Cardinality(P) + Cardinality(U) - Cardinality(P \cap U)
          BY <4>5, FS_Union
        <5> QED
          BY <4>5, <5>1, <5>2
      <4>7. Cardinality(P \cup U) + 1 <= Cardinality(Worker)
        <5>1. (P \cup U) \cup {w} \in SUBSET Worker /\ w \notin P \cup U
          BY <4>1
        <5>2. Cardinality((P \cup U) \cup {w}) = Cardinality(P \cup U) + 1
          BY <4>6, <5>1, FS_AddElement
        <5>3. Cardinality((P \cup U) \cup {w}) <= Cardinality(Worker)
          BY <5>1, AutoAssignAssumption, FS_Subset
        <5> QED
          BY <5>2, <5>3
      <4>8. Cardinality(Pending(run', a)) = Cardinality(P) + 1
        BY <4>1, <4>2, <4>5, FS_AddElement
      <4>9. Cardinality(RoutedTo(conv, a)) <= Load(conv, a)
            /\ Cardinality(RoutedTo(conv, a)) \in Nat /\ Load(conv, a) \in Nat
        BY LoadType
      <4>10. Cardinality(Worker) \in Nat
        BY WorkerSets
      <4>11. Bounded(conv, run', a)
        <5> DEFINE p == Cardinality(P)
                   u == Cardinality(U)
                   n == Cardinality(Worker)
                   routed == Cardinality(RoutedTo(conv, a))
                   l == Load(conv, a)
        <5>1. p \in Nat /\ u \in Nat /\ n \in Nat /\ p + u + 1 <= n
          BY <4>5, <4>6, <4>7, <4>10
        <5>2. routed <= l /\ routed \in Nat /\ l \in Nat /\ l <= agent[a].active + u
          BY <4>3, <4>9
        <5> HIDE DEF p, u, n, routed, l
        <5>3. routed + (p + 1) <= Limit[a] + n - 1
          BY <4>4, <5>1, <5>2
        <5> QED
          BY <4>8, <5>3 DEF Bounded, p, n, routed
      <4> QED
        BY <1>0, <3>2, <4>11
    <3> QED
      BY <3>3, <3>4
  <2> QED
    BY <1>0, <2>5 DEF IInv, NoneUnowned
<1> QED
  BY <1>2, <1>3

\* Giving the row: one more row, one fewer pending, one more to recount.
LEMMA BoundClaim ==
    ASSUME IInv, TypeInv', NEW w \in Worker, Claim(w), Eligible(conv[run[w].conv])
    PROVE  IInv'
<1> DEFINE c == run[w].conv
           a == run[w].agent
           r == [run[w] EXCEPT !.pc = "release", !.cand = {}]
<1>1. /\ TypeInv /\ conv \in [Conv -> ConvRow] /\ run \in [Worker -> RunState]
      /\ run[w].pc = "claim" /\ c \in Conv /\ a \in Agent /\ UNCHANGED agent
  BY DEF IInv, TypeInv, AutoAssignTypeOK, DeskTypeOK, RunConsistent, Claim
<1>2. conv' = Given(conv, c, a, "auto") /\ conv[c].owner = NoAgent
  BY DEF Claim, Eligible
<1>3. run' = [run EXCEPT ![w] = r]
  BY <1>1 DEF Claim
<1>4. r.pc = "release" /\ r.agent = a
  BY <1>1 DEF RunState
<1> HIDE DEF r
<1>5. run'[w] = r /\ \A v \in Worker \ {w} : run'[v] = run[v]
  BY <1>1, <1>3
<1>6. run[w].agent = a
  OBVIOUS
<1> HIDE DEF c, a
<1>7. /\ conv'[c].owner = a /\ conv'[c].status = "open"
      /\ \A d \in Conv \ {c} : /\ conv'[d].owner = conv[d].owner
                               /\ conv'[d].status = conv[d].status
                               /\ conv'[d].source = conv[d].source
  BY <1>1, <1>2, GivenRow
<1>8. NoneUnowned'
  BY <1>7 DEF IInv, NoneUnowned
<1>9. Searching(run') => Searching(run)
  BY <1>4, <1>5 DEF Searching
<1>10. ASSUME NEW b \in Agent
       PROVE  Bounded(conv', run', b) /\ Covered(conv', agent', run', b)
  <2>1. CASE b # a
    <3>1. /\ RoutedTo(conv', b) \subseteq RoutedTo(conv, b)
          /\ OpenOf(conv', b) \subseteq OpenOf(conv, b)
      BY <1>7, <2>1 DEF RoutedTo, OpenOf
    <3>2. Pending(run', b) \subseteq Pending(run, b)
      BY <1>4, <1>5 DEF Pending
    <3>3. Unrecounted(run, b) \subseteq Unrecounted(run', b)
      BY <1>1, <1>5 DEF Unrecounted
    <3>4. agent[b].active \in Nat
      BY <1>1 DEF TypeInv, AutoAssignTypeOK, DeskTypeOK, AgentRow
    <3> QED
      BY <1>1, <1>9, <3>1, <3>2, <3>3, <3>4, BoundedShrinks, CoveredKept DEF IInv
  <2>2. CASE b = a
    <3>1. /\ RoutedTo(conv', b) \subseteq RoutedTo(conv, b) \cup {c}
          /\ OpenOf(conv', b) \subseteq OpenOf(conv, b) \cup {c}
      BY <1>7 DEF RoutedTo, OpenOf
    <3>2. /\ Pending(run', b) \subseteq Pending(run, b) \ {w}
          /\ w \in Pending(run, b)
      BY <1>1, <1>4, <1>5, <1>6, <2>2 DEF Pending
    <3>3. /\ Unrecounted(run, b) \cup {w} \subseteq Unrecounted(run', b)
          /\ w \notin Unrecounted(run, b)
      BY <1>1, <1>4, <1>5, <2>2 DEF Unrecounted
    <3> DEFINE routed == Cardinality(RoutedTo(conv, b))
               routed1 == Cardinality(RoutedTo(conv', b))
               l == Load(conv, b)
               l1 == Load(conv', b)
               p == Cardinality(Pending(run, b))
               p1 == Cardinality(Pending(run', b))
               u == Cardinality(Unrecounted(run, b))
               u1 == Cardinality(Unrecounted(run', b))
               n == Cardinality(Worker)
    <3>4. /\ routed \in Nat /\ routed1 \in Nat /\ l \in Nat /\ l1 \in Nat
          /\ p \in Nat /\ p1 \in Nat /\ u \in Nat /\ u1 \in Nat /\ n \in Nat
          /\ Limit[b] \in Nat /\ agent[b].active \in Nat
      BY <1>1, LoadType, WorkerSets, DeskAssumption
         DEF TypeInv, AutoAssignTypeOK, DeskTypeOK, AgentRow
    <3>5. routed1 <= routed + 1
      <4>1. IsFiniteSet(RoutedTo(conv, b) \cup {c})
            /\ Cardinality(RoutedTo(conv, b) \cup {c}) \in {routed, routed + 1}
        BY LoadType, FS_AddElement
      <4>2. routed1 <= Cardinality(RoutedTo(conv, b) \cup {c})
        BY <3>1, <4>1, FS_Subset
      <4> HIDE DEF routed, routed1
      <4> QED
        BY <3>4, <4>1, <4>2
    <3>6. l1 <= l + 1
      <4>1. IsFiniteSet(OpenOf(conv, b) \cup {c})
            /\ Cardinality(OpenOf(conv, b) \cup {c}) \in {l, l + 1}
        BY LoadType, FS_AddElement DEF Load
      <4>2. l1 <= Cardinality(OpenOf(conv, b) \cup {c})
        BY <3>1, <4>1, FS_Subset DEF Load
      <4> HIDE DEF l, l1
      <4> QED
        BY <3>4, <4>1, <4>2
    <3>7. p1 <= p - 1
      <4>1. IsFiniteSet(Pending(run, b) \ {w})
            /\ Cardinality(Pending(run, b) \ {w}) = p - 1
        BY <3>2, WorkerSets, FS_RemoveElement
      <4>2. p1 <= Cardinality(Pending(run, b) \ {w})
        BY <3>2, <4>1, FS_Subset
      <4> QED
        BY <4>1, <4>2
    <3>8. u + 1 <= u1
      <4>1. Cardinality(Unrecounted(run, b) \cup {w}) = u + 1
        BY <3>3, WorkerSets, FS_AddElement
      <4>2. Cardinality(Unrecounted(run, b) \cup {w}) <= u1
        BY <3>3, WorkerSets, FS_Subset
      <4> QED
        BY <4>1, <4>2
    <3>9. routed + p <= Limit[b] + n - 1
      BY DEF IInv, Bounded
    <3>10. Searching(run) => l <= agent[b].active + u
      BY DEF IInv, Covered
    <3> HIDE DEF routed, routed1, l, l1, p, p1, u, u1, n
    <3>11. routed1 + p1 <= Limit[b] + n - 1
      BY <3>4, <3>5, <3>7, <3>9
    <3>12. Searching(run') => l1 <= agent[b].active + u1
      BY <1>9, <3>4, <3>6, <3>8, <3>10
    <3> QED
      BY <1>1, <3>11, <3>12 DEF Bounded, Covered, routed1, l1, p1, u1, n
  <2> QED
    BY <2>1, <2>2
<1> QED
  BY <1>8, <1>10 DEF IInv

\* The other statements of an execution.
LEMMA BoundExecute ==
    ASSUME IInv, TypeInv', NEW w \in Worker, Execute(w)
    PROVE  IInv'
<1>0. /\ TypeInv /\ run \in [Worker -> RunState] /\ agent \in [Agent -> AgentRow]
      /\ run[w] \in RunState /\ OneConsistent(run[w])
  BY DEF IInv, TypeInv, AutoAssignTypeOK, DeskTypeOK, RunConsistent, OneConsistent
<1>1. CASE ReadHead(w)
  <2>1. PICK r : run' = [run EXCEPT ![w] = r] /\ r.pc \in {"sync", "idle"}
    <3>1. CASE run' = [run EXCEPT ![w] = Idle]
      BY <3>1, IdleConsistent
    <3>2. ASSUME NEW c, run' = [run EXCEPT ![w].pc = "sync", ![w].conv = c]
          PROVE  \E r : run' = [run EXCEPT ![w] = r] /\ r.pc \in {"sync", "idle"}
      <4> WITNESS [run[w] EXCEPT !.pc = "sync", !.conv = c]
      <4> QED
        BY <1>0, <3>2 DEF RunState
    <3> QED
      BY <1>1, <3>1, <3>2 DEF ReadHead
  <2> QED
    BY <1>0, <1>1, <2>1, QuietExecution, UnchangedKept, KeptQuiet DEF ReadHead
<1>2. CASE Sync(w)
  <2>1. AllKept
    BY <1>0, <1>2, ExecuteKept DEF Sync, Claim
  <2>2. \A a \in Agent : agent'[a].active = Load(conv, a)
    BY <1>0, <1>2, RecountedRow DEF Sync
  <2>3. \A a \in Agent : Load(conv', a) <= agent'[a].active
    BY <2>1, <2>2, KeptRows
  <2> DEFINE r == [run[w] EXCEPT !.pc = "select",
                                 !.tier = IF run[w].pref = NoAgent THEN 1 ELSE 0]
  <2>4. run' = [run EXCEPT ![w] = r] /\ r.pc = "select"
    BY <1>0, <1>2 DEF Sync, RunState
  <2> HIDE DEF r
  <2>5. \A a \in Agent : Pending(run', a) \subseteq Pending(run, a)
    <3>1. run'[w] = r /\ \A v \in Worker \ {w} : run'[v] = run[v]
      BY <1>0, <2>4
    <3> QED
      BY <2>4, <3>1 DEF Pending
  <2> QED
    BY <2>1, <2>3, <2>5, KeptRows, QuietStep
<1>3. CASE Probe(w)
  <2>1. run[w].pc = "probe"
    BY <1>3 DEF Probe
  <2>2. ASSUME NEW a \in run[w].cand, NEW p \in {"demote", "claim"},
               run' = [run EXCEPT ![w].pc = p, ![w].agent = a]
        PROVE  QuietRun
    <3> DEFINE r == [run[w] EXCEPT !.pc = p, !.agent = a]
    <3>1. run' = [run EXCEPT ![w] = r]
          /\ r.pc = p /\ r.agent = a /\ r.cand = run[w].cand
      BY <1>0, <2>2 DEF RunState
    <3> HIDE DEF r
    <3> QED
      BY <1>0, <2>1, <3>1, QuietExecution
  <2>3. ASSUME NEW r \in TierExhausted(run[w]), run' = [run EXCEPT ![w] = r]
        PROVE  QuietRun
    <3>1. r.pc \in {"select", "idle"}
      BY <1>0, <2>1, ExhaustedConsistent
    <3> QED
      BY <1>0, <2>1, <2>3, <3>1, QuietExecution
  <2>4. QuietRun
    BY <1>3, <2>2, <2>3 DEF Probe
  <2> QED
    BY <1>0, <1>3, <2>4, UnchangedKept, KeptQuiet DEF Probe
<1>4. CASE Demote(w)
  <2> DEFINE rest == run[w].cand \ {run[w].agent}
  <2>1. run[w].pc = "demote" /\ run[w].agent \in Agent
    BY <1>0, <1>4 DEF Demote, OneConsistent
  <2>2. \A a \in Agent : agent'[a].active = agent[a].active
    BY <1>0, <1>4, <2>1, SameActive DEF Demote
  <2>3. CASE run' = [run EXCEPT ![w].pc = "probe", ![w].cand = rest, ![w].agent = NoAgent]
    <3> DEFINE r == [run[w] EXCEPT !.pc = "probe", !.cand = rest, !.agent = NoAgent]
    <3>1. run' = [run EXCEPT ![w] = r] /\ r.pc = "probe" /\ r.cand = rest
      BY <1>0, <2>3 DEF RunState
    <3> HIDE DEF r
    <3>2. QuietRun
      BY <1>0, <2>1, <3>1, QuietExecution
    <3> QED
      BY <1>0, <1>4, <2>2, <3>2, UnchangedKept, KeptQuiet DEF Demote
  <2>4. ASSUME NEW r \in TierExhausted(run[w]), run' = [run EXCEPT ![w] = r]
        PROVE  IInv'
    <3>1. r.pc \in {"select", "idle"}
      BY <1>0, <2>1, ExhaustedConsistent
    <3>2. QuietRun
      BY <1>0, <2>1, <2>4, <3>1, QuietExecution
    <3> QED
      BY <1>0, <1>4, <2>2, <3>2, UnchangedKept, KeptQuiet DEF Demote
  <2> QED
    BY <1>4, <2>3, <2>4 DEF Demote
<1>5. CASE Claim(w) /\ ~ Eligible(conv[run[w].conv])
  <2>1. QuietRun
    BY <1>0, <1>5, IdleConsistent, QuietExecution DEF Claim
  <2> QED
    BY <1>5, <2>1, UnchangedKept, KeptQuiet DEF Claim
<1>6. ASSUME NEW p \in {"insert", "recount"}, run[w].pc \in {"release", "insert"},
             run' = [run EXCEPT ![w].pc = p]
      PROVE  QuietRun
  <2> DEFINE r == [run[w] EXCEPT !.pc = p]
  <2>1. run' = [run EXCEPT ![w] = r] /\ r.pc = p /\ r.agent = run[w].agent
    BY <1>0, <1>6 DEF RunState
  <2> HIDE DEF r
  <2> QED
    BY <1>0, <1>6, <2>1, QuietExecution
<1>7. CASE Release(w) \/ Insert(w)
  <2>1. QuietRun
    BY <1>6, <1>7 DEF Release, Insert
  <2> QED
    BY <1>7, <2>1, UnchangedKept, KeptQuiet DEF Release, Insert
<1>8. CASE Recount(w)
  <2> DEFINE a == run[w].agent
             r == [run[w] EXCEPT !.pc = "resync"]
  <2>1. run' = [run EXCEPT ![w] = r] /\ r.pc = "resync" /\ run[w].pc = "recount"
    BY <1>0, <1>8 DEF Recount, RunState
  <2> HIDE DEF r
  <2>2. run'[w] = r /\ \A v \in Worker \ {w} : run'[v] = run[v]
    BY <1>0, <2>1
  <2>3. Searching(run') => Searching(run)
    BY <2>1, <2>2 DEF Searching
  <2>4. \A b \in Agent : Pending(run', b) \subseteq Pending(run, b)
    BY <2>1, <2>2 DEF Pending
  <2>5. \A b \in Agent \ {a} : Unrecounted(run, b) \subseteq Unrecounted(run', b)
    BY <2>2 DEF Unrecounted
  <2>6. \A b \in Agent : agent'[b].active = IF b = a THEN Load(conv, b) ELSE agent[b].active
    BY <1>0, <1>8, RecountedRow DEF Recount
  <2>7. UNCHANGED conv /\ AllKept /\ Load(conv, a) \in Nat
    BY <1>8, UnchangedKept, LoadType DEF Recount
  <2> HIDE DEF a
  <2> QED
    BY <2>3, <2>4, <2>5, <2>6, <2>7, KeptRows, QuietStep
<1>9. CASE Resync(w)
  <2> DEFINE n == Load(conv, run[w].agent)
  <2>1. run[w].pc = "resync" /\ UNCHANGED conv /\ run[w].agent \in Agent
        /\ agent' = [agent EXCEPT ![run[w].agent] = [agent[run[w].agent] EXCEPT !.active = n]]
    BY <1>0, <1>9 DEF Resync, OneConsistent
  <2> HIDE DEF n
  <2>2. \A b \in Agent : agent'[b].active \in {agent[b].active, IF b = run[w].agent THEN n
                                                                ELSE agent[b].active}
    BY <1>0, <2>1 DEF AgentRow
  <2>3. \A b \in Agent : agent'[b].active \in {agent[b].active, Load(conv, b)}
    BY <2>2 DEF n
  <2>4. ASSUME NEW p \in {"raise", "lower"}, run' = [run EXCEPT ![w] = [@ EXCEPT !.pc = p]]
        PROVE  QuietRun
    <3> DEFINE r == [run[w] EXCEPT !.pc = p]
    <3>1. run' = [run EXCEPT ![w] = r] /\ r.pc = p
      BY <1>0, <2>4 DEF RunState
    <3> HIDE DEF r
    <3> QED
      BY <1>0, <2>1, <3>1, QuietExecution
  <2>5. CASE run' = [run EXCEPT ![w] = Succeeded(run[w])]
    <3>1. Succeeded(run[w]).pc \in {"idle", "next"}
      BY IdleConsistent DEF Succeeded, At
    <3>2. QuietRun
      BY <1>0, <2>1, <2>5, <3>1, QuietExecution
    <3> QED
      BY <2>1, <2>3, <3>2, UnchangedKept, KeptQuiet
  <2>6. QuietRun \/ run' = [run EXCEPT ![w] = Succeeded(run[w])]
    BY <1>9, <2>4 DEF Resync
  <2> QED
    BY <2>1, <2>3, <2>5, <2>6, UnchangedKept, KeptQuiet
<1>10. CASE SetAvailable(w)
  <2>1. run[w].agent \in Agent /\ (run[w].pc = "raise") \in BOOLEAN
        /\ run[w].pc \in {"raise", "lower"}
    BY <1>0, <1>10 DEF SetAvailable, OneConsistent
  <2>2. \A a \in Agent : agent'[a].active = agent[a].active
    <3> DEFINE av == run[w].pc = "raise"
    <3>1. agent' = agent \/ agent' = [agent EXCEPT ![run[w].agent].available = av]
      BY <1>10 DEF SetAvailable
    <3> HIDE DEF av
    <3> QED
      BY <1>0, <2>1, <3>1 DEF AgentRow
  <2>3. Succeeded(run[w]).pc \in {"idle", "next"}
    BY IdleConsistent DEF Succeeded, At
  <2>4. QuietRun
    BY <1>0, <1>10, <2>1, <2>3, QuietExecution DEF SetAvailable
  <2> QED
    BY <1>10, <2>2, <2>4, UnchangedKept, KeptQuiet DEF SetAvailable
<1> QED
  BY <1>1, <1>2, <1>3, <1>4, <1>5, <1>7, <1>8, <1>9, <1>10, BoundSelect, BoundClaim
     DEF Execute

\* A restart forgets every execution at once, so nothing is pending.
LEMMA BoundRestart ==
    ASSUME IInv, TypeInv', Restart
    PROVE  IInv'
<1>1. \A v \in Worker : run'[v].pc = "idle"
  BY IdleConsistent DEF Restart
<1>2. ~ Searching(run') /\ \A a \in Agent : Pending(run', a) = {}
  BY <1>1 DEF Searching, Pending
<1>3. AllKept
  BY UnchangedKept DEF Restart
<1> QED
  BY <1>2, <1>3, KeptRows, QuietStep

LEMMA BoundInit == Init => IInv
<1> SUFFICES ASSUME Init PROVE IInv
  OBVIOUS
<1>1. TypeInv /\ NoneUnowned
  BY TypeInit DEF Init, DeskInit, NewConv, NoneUnowned
<1>2. \A v \in Worker : run[v].pc = "idle"
  BY IdleConsistent DEF Init
<1>3. ASSUME NEW a \in Agent
      PROVE  Bounded(conv, run, a) /\ Covered(conv, agent, run, a)
  <2>1. Pending(run, a) = {} /\ RoutedTo(conv, a) = {} /\ ~ Searching(run)
    BY <1>2 DEF Init, DeskInit, NewConv, Pending, RoutedTo, OpenOf, Searching
  <2>2. Cardinality(Worker) \in Nat /\ Cardinality(Worker) >= 1 /\ Limit[a] \in Nat
    BY WorkerSets, DeskAssumption
  <2> DEFINE n == Cardinality(Worker)
  <2>3. 0 + 0 <= Limit[a] + n - 1
    <3>1. n \in Nat /\ n >= 1
      BY <2>2
    <3> HIDE DEF n
    <3> QED
      BY <2>2, <3>1
  <2> QED
    BY <2>1, <2>3, FS_EmptySet DEF Bounded, Covered
<1> QED
  BY <1>1, <1>3 DEF IInv

\* However the statements of overlapping executions interleave, routing leaves
\* no agent with more than the limit plus one row for each other execution.
THEOREM OvershootIsBounded == Spec => []OvershootBounded
<1>1. IInv /\ [Next]_vars => IInv'
  <2> SUFFICES ASSUME IInv, [Next]_vars PROVE IInv'
    OBVIOUS
  <2>1. TypeInv'
    BY TypeStep DEF IInv
  <2>2. CASE UNCHANGED vars
    <3>1. AllKept /\ QuietRun /\ UNCHANGED agent
      BY <2>2, UnchangedKept, QuietUnchanged DEF vars
    <3> QED
      BY <2>1, <3>1, KeptQuiet
  <2> QED
    BY <2>1, <2>2, BoundExecute, BoundTrigger, BoundDesktop, BoundRestart DEF Next
<1>2. IInv => OvershootBounded
  <2> SUFFICES ASSUME IInv, NEW a \in Agent
               PROVE  Cardinality(RoutedTo(conv, a)) <= Limit[a] + Cardinality(Worker) - 1
    BY DEF OvershootBounded
  <2> DEFINE routed == Cardinality(RoutedTo(conv, a))
             p == Cardinality(Pending(run, a))
             n == Cardinality(Worker)
  <2>1. routed \in Nat /\ p \in Nat /\ n \in Nat /\ Limit[a] \in Nat
    BY LoadType, WorkerSets, DeskAssumption
  <2>2. routed + p <= Limit[a] + n - 1
    BY DEF IInv, Bounded
  <2> HIDE DEF routed, p, n
  <2>3. routed <= Limit[a] + n - 1
    BY <2>1, <2>2
  <2> QED
    BY <2>3 DEF routed, n
<1> QED
  BY <1>1, <1>2, BoundInit, PTL DEF Spec


-----------------------------------------------------------------------------
(* Who changes the record of an execution.                                 *)

\* Only the statements of the search and of the claim bring an execution into
\* the places where it has candidates, a choice or a row to write down.
LEMMA RecordStep ==
    ASSUME TypeInv, [Next]_vars, NEW v \in Worker
    PROVE  \/ run'[v] = run[v]
           \/ run'[v].pc \notin {"probe", "demote", "claim", "release", "insert"}
           \/ Select(v) \/ Probe(v) \/ Demote(v) \/ Claim(v) \/ Release(v)
<1>0. run \in [Worker -> RunState]
  BY DEF TypeInv, AutoAssignTypeOK
<1> DEFINE far(pc) == pc \notin {"probe", "demote", "claim", "release", "insert"}
<1>1. ASSUME NEW w \in Worker, NEW r, run' = [run EXCEPT ![w] = r], far(r.pc)
      PROVE  run'[v] = run[v] \/ far(run'[v].pc)
  BY <1>0, <1>1
<1>2. ASSUME NEW w \in Worker, w # v, NEW r, run' = [run EXCEPT ![w] = r]
      PROVE  run'[v] = run[v]
  BY <1>0, <1>2
<1>3. far(Idle.pc) /\ \A r : far(Succeeded(r).pc)
  BY DEF Idle, Succeeded, At
<1>4. CASE UNCHANGED run
  BY <1>4
<1>5. CASE Restart
  BY <1>3, <1>5 DEF Restart
<1>6. CASE Desktop
  BY <1>4, <1>6 DEF Desktop, ArriveAtBot, Close, TakeFromQueue, LoseSocket, GraceOver,
                    StartPause, ToggleOff
<1>7. ASSUME NEW w \in Worker, Trigger(w)
      PROVE  run'[v] = run[v] \/ far(run'[v].pc)
  <2>1. ASSUME NEW pc \in {"next", "sync"}, NEW c, NEW a, NEW loop,
               run' = [run EXCEPT ![w] = At(pc, c, a, loop)]
        PROVE  run'[v] = run[v] \/ far(run'[v].pc)
    BY <1>1, <2>1 DEF At
  <2>2. \/ UNCHANGED run
        \/ \E c : Call(w, c)
        \/ \E a, loop : CallNext(w, a, loop)
    BY <1>7 DEF Trigger, PendingQueueJob, ArriveAtQueue, BotChoice, RetryJob, GoOnline,
                EndPause, ToggleOn
  <2> QED
    BY <1>4, <2>1, <2>2 DEF Call, CallNext
<1>8. ASSUME NEW w \in Worker, Execute(w)
      PROVE  \/ run'[v] = run[v]
             \/ far(run'[v].pc)
             \/ Select(v) \/ Probe(v) \/ Demote(v) \/ Claim(v) \/ Release(v)
  <2>1. CASE ReadHead(w)
    <3>1. ASSUME NEW c, run' = [run EXCEPT ![w].pc = "sync", ![w].conv = c]
          PROVE  run'[v] = run[v] \/ far(run'[v].pc)
      BY <1>0, <3>1 DEF RunState
    <3> QED
      BY <1>1, <1>3, <2>1, <3>1 DEF ReadHead
  <2>2. CASE Sync(w)
    <3> DEFINE t == IF run[w].pref = NoAgent THEN 1 ELSE 0
    <3>1. run' = [run EXCEPT ![w].pc = "select", ![w].tier = t]
      BY <2>2 DEF Sync
    <3> HIDE DEF t
    <3> QED
      BY <1>0, <3>1 DEF RunState
  <2>3. CASE Insert(w) \/ Recount(w)
    <3>1. PICK pc \in {"recount", "resync"} : run' = [run EXCEPT ![w].pc = pc]
      BY <2>3 DEF Insert, Recount
    <3> QED
      BY <1>0, <3>1 DEF RunState
  <2>4. CASE Resync(w)
    <3>1. \/ run' = [run EXCEPT ![w] = Succeeded(run[w])]
          \/ run' = [run EXCEPT ![w] = [@ EXCEPT !.pc = "raise"]]
          \/ run' = [run EXCEPT ![w] = [@ EXCEPT !.pc = "lower"]]
      BY <2>4 DEF Resync
    <3>2. ASSUME NEW pc \in {"raise", "lower"}, run' = [run EXCEPT ![w] = [@ EXCEPT !.pc = pc]]
          PROVE  run'[v] = run[v] \/ far(run'[v].pc)
      BY <1>0, <3>2 DEF RunState
    <3> QED
      BY <1>1, <1>3, <3>1, <3>2
  <2>5. CASE SetAvailable(w)
    BY <1>1, <1>3, <2>5 DEF SetAvailable
  <2>6. CASE Select(w) \/ Probe(w) \/ Demote(w) \/ Claim(w) \/ Release(w)
    <3>1. CASE w = v
      BY <2>6, <3>1
    <3>2. CASE w # v
      <4>1. \A u \in Worker : u # w => run'[u] = run[u]
        BY <1>0, <2>6 DEF Select, Probe, Demote, Claim, Release
      <4> QED
        BY <3>2, <4>1
    <3> QED
      BY <3>1, <3>2
  <2> QED
    BY <1>8, <2>1, <2>2, <2>3, <2>4, <2>5, <2>6 DEF Execute
<1> QED
  BY <1>4, <1>5, <1>6, <1>7, <1>8 DEF Next, vars

-----------------------------------------------------------------------------
(* The required skill.                                                     *)

\* An execution for an option that only its qualified agents serve looks at
\* nobody else, but for the agent it was asked on behalf of, and chooses nobody
\* else, that agent included.
Sound(r) ==
    Tiers[r.conv] = <<Qualified[r.conv]>> =>
       /\ r.pc \in {"probe", "demote"} /\ r.tier # 0 => r.cand \subseteq Qualified[r.conv]
       /\ r.pc = "claim" => r.agent \in Qualified[r.conv]

GateInv ==
    /\ TypeInv
    /\ \A w \in Worker : Sound(run[w])
    /\ SkillGate

LEMMA ExhaustedSound ==
    ASSUME NEW r, OneConsistent(r), r.pc \in {"select", "probe", "demote"},
           NEW n \in TierExhausted(r)
    PROVE  Sound(n)
  BY ExhaustedConsistent DEF Sound

LEMMA SelectSound ==
    ASSUME GateInv, NEW w \in Worker, Select(w)
    PROVE  Sound(run'[w])
<1>0. run \in [Worker -> RunState] /\ OneConsistent(run[w])
  BY DEF GateInv, TypeInv, AutoAssignTypeOK, RunConsistent, OneConsistent
<1>1. PICK lapsed \in SUBSET {a \in Agent : ~ agent[a].connected} :
         LET rows == Candidates(TierOf(run[w]), lapsed) IN
         IF rows = {}
         THEN \E r \in TierExhausted(run[w]) : run' = [run EXCEPT ![w] = r]
         ELSE run' = [run EXCEPT ![w].pc = "probe", ![w].cand = rows]
  BY DEF Select
<1> DEFINE rows == Candidates(TierOf(run[w]), lapsed)
<1>2. run[w].pc = "select" /\ run[w].conv \in Conv
  BY <1>0 DEF Select, OneConsistent
<1>3. CASE rows = {}
  BY <1>0, <1>1, <1>2, <1>3, ExhaustedSound
<1>4. CASE rows # {}
  <2>1. run' = [run EXCEPT ![w].pc = "probe", ![w].cand = rows]
    BY <1>1, <1>4
  <2>2. rows \subseteq TierOf(run[w])
    BY DEF Candidates
  <2> HIDE DEF rows
  <2>3. /\ run'[w].pc = "probe" /\ run'[w].cand = rows
        /\ run'[w].conv = run[w].conv /\ run'[w].tier = run[w].tier
    BY <1>0, <2>1 DEF RunState
  <2>4. ASSUME run[w].tier # 0, Tiers[run[w].conv] = <<Qualified[run[w].conv]>>
        PROVE  TierOf(run[w]) = Qualified[run[w].conv]
    <3>1. run[w].tier = 1
      BY <1>0, <1>2, <2>4 DEF OneConsistent, RunState
    <3> QED
      BY <2>4, <3>1 DEF TierOf
  <2> QED
    BY <2>2, <2>3, <2>4 DEF Sound
<1> QED
  BY <1>3, <1>4

LEMMA ProbeSound ==
    ASSUME GateInv, NEW w \in Worker, Probe(w)
    PROVE  Sound(run'[w])
<1>0. /\ run \in [Worker -> RunState] /\ OneConsistent(run[w])
      /\ Sound(run[w]) /\ run[w].pc = "probe"
  BY DEF GateInv, TypeInv, AutoAssignTypeOK, RunConsistent, OneConsistent, Probe
<1>1. PICK a \in run[w].cand :
        IF ~ agent[a].connected
        THEN run' = [run EXCEPT ![w].pc = "demote", ![w].agent = a]
        ELSE IF run[w].tier = 0 /\ a \notin Qualified[run[w].conv]
        THEN \E r \in TierExhausted(run[w]) : run' = [run EXCEPT ![w] = r]
        ELSE run' = [run EXCEPT ![w].pc = "claim", ![w].agent = a]
  BY DEF Probe
<1>2. ASSUME NEW pc \in {"demote", "claim"},
             run' = [run EXCEPT ![w].pc = pc, ![w].agent = a]
      PROVE  /\ run'[w].pc = pc /\ run'[w].agent = a /\ run'[w].cand = run[w].cand
             /\ run'[w].conv = run[w].conv /\ run'[w].tier = run[w].tier
  BY <1>0, <1>2 DEF RunState
<1>3. CASE run' = [run EXCEPT ![w].pc = "demote", ![w].agent = a]
  BY <1>0, <1>2, <1>3 DEF Sound
<1>4. CASE /\ run' = [run EXCEPT ![w].pc = "claim", ![w].agent = a]
           /\ ~ (run[w].tier = 0 /\ a \notin Qualified[run[w].conv])
  BY <1>0, <1>1, <1>2, <1>4 DEF Sound
<1>5. ASSUME NEW r \in TierExhausted(run[w]), run' = [run EXCEPT ![w] = r]
      PROVE  Sound(run'[w])
  BY <1>0, <1>5, ExhaustedSound
<1> QED
  BY <1>1, <1>3, <1>4, <1>5

LEMMA DemoteSound ==
    ASSUME GateInv, NEW w \in Worker, Demote(w)
    PROVE  Sound(run'[w])
<1> DEFINE rest == run[w].cand \ {run[w].agent}
<1>0. /\ run \in [Worker -> RunState] /\ OneConsistent(run[w])
      /\ Sound(run[w]) /\ run[w].pc = "demote"
  BY DEF GateInv, TypeInv, AutoAssignTypeOK, RunConsistent, OneConsistent, Demote
<1>1. CASE rest = {}
  BY <1>0, <1>1, ExhaustedSound DEF Demote
<1>2. CASE rest # {}
  <2>1. run' = [run EXCEPT ![w].pc = "probe", ![w].cand = rest, ![w].agent = NoAgent]
    BY <1>2 DEF Demote
  <2>2. rest \subseteq run[w].cand
    OBVIOUS
  <2> HIDE DEF rest
  <2>3. /\ run'[w].pc = "probe" /\ run'[w].cand = rest
        /\ run'[w].conv = run[w].conv /\ run'[w].tier = run[w].tier
    BY <1>0, <2>1 DEF RunState
  <2> QED
    BY <1>0, <2>2, <2>3 DEF Sound
<1> QED
  BY <1>1, <1>2

LEMMA SoundStep ==
    ASSUME GateInv, [Next]_vars, NEW w \in Worker
    PROVE  Sound(run'[w])
<1>0. run \in [Worker -> RunState] /\ Sound(run[w])
  BY DEF GateInv, TypeInv, AutoAssignTypeOK
<1>1. CASE run'[w] = run[w] \/ run'[w].pc \notin {"probe", "demote", "claim"}
  BY <1>0, <1>1 DEF Sound
<1>2. CASE Claim(w) \/ Release(w)
  <2>1. run'[w].pc \in {"release", "idle", "insert"}
    BY <1>0, <1>2 DEF Claim, Release, RunState, Idle, At
  <2> QED
    BY <1>1, <2>1
<1> QED
  BY <1>1, <1>2, RecordStep, SelectSound, ProbeSound, DemoteSound DEF GateInv

\* The claim gives the row to the choice, and a person's own taking is not
\* routing's doing.
LEMMA GateStep == GateInv /\ [Next]_vars => GateInv'
<1> SUFFICES ASSUME GateInv, [Next]_vars PROVE GateInv'
  OBVIOUS
<1>1. TypeInv /\ TypeInv' /\ \A w \in Worker : Sound(run[w]) /\ Sound(run'[w])
  BY TypeStep, SoundStep DEF GateInv
<1>2. conv \in [Conv -> ConvRow]
  BY <1>1 DEF TypeInv, AutoAssignTypeOK, DeskTypeOK
<1>3. CASE AllKept
  <2>1. SkillGate'
    BY <1>3 DEF AllKept, Kept, GateInv, SkillGate
  <2> QED
    BY <1>1, <2>1 DEF GateInv
<1>4. ASSUME NEW w \in Worker, Claim(w), Eligible(conv[run[w].conv])
      PROVE  GateInv'
  <2> DEFINE c == run[w].conv
             a == run[w].agent
  <2>1. c \in Conv /\ a \in Agent /\ conv' = Given(conv, c, a, "auto")
    BY <1>1, <1>4 DEF Claim, TypeInv, RunConsistent
  <2>2. Tiers[c] = <<Qualified[c]>> => a \in Qualified[c]
    BY <1>1, <1>4 DEF Claim, Sound
  <2>3. /\ conv'[c].owner = a
        /\ \A d \in Conv \ {c} : /\ conv'[d].owner = conv[d].owner
                                 /\ conv'[d].source = conv[d].source
    BY <1>2, <2>1, GivenRow
  <2> HIDE DEF c, a
  <2>4. SkillGate'
    BY <2>1, <2>2, <2>3 DEF GateInv, SkillGate
  <2> QED
    BY <1>1, <2>4 DEF GateInv
<1>5. ASSUME NEW a \in Agent, NEW c \in Conv, TakeFromQueue(a, c)
      PROVE  GateInv'
  <2>1. conv' = Given(conv, c, a, "person")
    BY <1>5 DEF TakeFromQueue
  <2>2. SkillGate'
    BY <1>2, <2>1, GivenRow DEF GateInv, SkillGate
  <2> QED
    BY <1>1, <2>2 DEF GateInv
<1> QED
  BY <1>1, <1>3, <1>4, <1>5, GivenOrKept

\* An option that only its qualified agents serve is never routed to another:
\* neither by the shortcut for the agent who just came online nor by a search
\* whose candidates changed between its query and its claim.
THEOREM SkillIsRequired == Spec => []SkillGate
<1>1. Init => GateInv
  <2> SUFFICES ASSUME Init PROVE GateInv
    OBVIOUS
  <2>1. \A w \in Worker : run[w].pc = "idle"
    BY DEF Init, Idle, At
  <2>2. SkillGate
    BY DEF Init, DeskInit, NewConv, SkillGate
  <2> QED
    BY <2>1, <2>2, TypeInit DEF GateInv, Sound
<1>2. GateInv => SkillGate
  BY DEF GateInv
<1> QED
  BY <1>1, <1>2, GateStep, PTL DEF Spec

-----------------------------------------------------------------------------
(* The ledger of who handled what.                                         *)

\* Executions that gave the row c away and have not written it down yet.
Writing(rs, c) == {w \in Worker : rs[w].pc \in {"release", "insert"} /\ rs[w].conv = c}

\* What the ledger of c has to be while one execution or none is writing it.
Entered(cs, lg, rs, c) ==
    /\ \A v, w \in Writing(rs, c) : v = w
    /\ \A w \in Writing(rs, c) :
          /\ cs[c].owner = rs[w].agent
          /\ rs[w].pc = "insert" /\ cs[c].status = "open" => lg[c] = {}
    /\ cs[c].status = "open" /\ cs[c].owner # NoAgent /\ Writing(rs, c) = {}
          => lg[c] = {cs[c].owner}

\* A restart between the claim and the insert loses the row of the ledger, so
\* what follows is about a process that has not restarted.
LedgerInv ==
    /\ TypeInv
    /\ NoneUnowned
    /\ restarts = 0 => \A c \in Conv : Entered(conv, ledger, run, c)

LEMMA NoneUnownedStep ==
    ASSUME TypeInv, NoneUnowned, [Next]_vars
    PROVE  NoneUnowned'
<1>0. conv \in [Conv -> ConvRow]
  BY DEF TypeInv, AutoAssignTypeOK, DeskTypeOK
<1>1. CASE AllKept
  BY <1>1 DEF AllKept, Kept, NoneUnowned
<1>2. ASSUME NEW c \in Conv, NEW a \in Agent, NEW by \in {"auto", "person"},
             conv' = Given(conv, c, a, by)
      PROVE  NoneUnowned'
  <2>1. /\ conv'[c].status = "open"
        /\ \A d \in Conv \ {c} : /\ conv'[d].owner = conv[d].owner
                                 /\ conv'[d].status = conv[d].status
    BY <1>0, <1>2, GivenRow
  <2> QED
    BY <2>1 DEF NoneUnowned
<1>3. ASSUME NEW w \in Worker, Claim(w), Eligible(conv[run[w].conv])
      PROVE  NoneUnowned'
  <2>1. run[w].conv \in Conv /\ run[w].agent \in Agent
    BY <1>3 DEF Claim, TypeInv, RunConsistent
  <2> QED
    BY <1>2, <1>3, <2>1 DEF Claim
<1>4. ASSUME NEW a \in Agent, NEW c \in Conv, TakeFromQueue(a, c)
      PROVE  NoneUnowned'
  BY <1>2, <1>4 DEF TakeFromQueue
<1> QED
  BY <1>1, <1>3, <1>4, GivenOrKept

\* An execution leaves the writing of the ledger only by its own statements.
LEMMA WritingStep ==
    ASSUME TypeInv, [Next]_vars, NEW v \in Worker, run[v].pc \in {"release", "insert"}
    PROVE  run'[v] = run[v] \/ Release(v) \/ Insert(v) \/ Restart
<1>0. run \in [Worker -> RunState]
  BY DEF TypeInv, AutoAssignTypeOK
<1>1. CASE UNCHANGED run
  BY <1>1
<1>2. CASE Desktop
  BY <1>1, <1>2 DEF Desktop, ArriveAtBot, Close, TakeFromQueue, LoseSocket, GraceOver,
                    StartPause, ToggleOff
<1>3. ASSUME NEW w \in Worker, Trigger(w)
      PROVE  run'[v] = run[v]
  BY <1>0, <1>3 DEF Trigger, PendingQueueJob, ArriveAtQueue, BotChoice, RetryJob, GoOnline,
                    EndPause, ToggleOn, Call, CallNext
<1>4. ASSUME NEW w \in Worker, Execute(w)
      PROVE  run'[v] = run[v] \/ Release(v) \/ Insert(v)
  <2>1. CASE w # v
    BY <1>0, <1>4, <2>1
       DEF Execute, ReadHead, Sync, Select, Probe, Demote, Claim, Release, Insert, Recount,
           Resync, SetAvailable
  <2>2. CASE w = v
    BY <1>4, <2>2
       DEF Execute, ReadHead, Sync, Select, Probe, Demote, Claim, Recount, Resync, SetAvailable
  <2> QED
    BY <2>1, <2>2
<1> QED
  BY <1>1, <1>2, <1>3, <1>4 DEF Next, vars

\* Nobody starts or ends writing the ledger of c.
SameWriting(c) ==
    \A v \in Worker : (\/ run[v].pc \in {"release", "insert"} /\ run[v].conv = c
                       \/ run'[v].pc \in {"release", "insert"} /\ run'[v].conv = c)
                         => run'[v] = run[v]

LEMMA SameWritingSame ==
    ASSUME NEW c, SameWriting(c)
    PROVE  /\ Writing(run', c) = Writing(run, c)
           /\ \A w \in Writing(run', c) : run'[w] = run[w]
  BY DEF SameWriting, Writing

LEMMA OtherRowWriting ==
    ASSUME TypeInv, NEW w \in Worker, NEW r, run' = [run EXCEPT ![w] = r],
           NEW c, r.pc \in {"release", "insert"} => r.conv # c,
           run[w].pc \in {"release", "insert"} => run[w].conv # c
    PROVE  SameWriting(c)
  BY DEF SameWriting, TypeInv, AutoAssignTypeOK

\* The row keeps its owner, and so do its ledger and whoever writes that.
LEMMA EnteredQuiet ==
    ASSUME TypeInv, NoneUnowned, NEW c \in Conv, Entered(conv, ledger, run, c),
           Kept(c), SameWriting(c), ledger'[c] = ledger[c]
    PROVE  Entered(conv', ledger', run', c)
<1>1. /\ Writing(run', c) = Writing(run, c)
      /\ \A w \in Writing(run', c) : run'[w] = run[w]
  BY SameWritingSame
<1>2. conv'[c].status = "open" => conv[c].status = "open" \/ conv[c].owner = NoAgent
  BY DEF Kept, NoneUnowned
<1>3. \A w \in Writing(run, c) : run[w].agent # NoAgent
  BY DeskAssumption DEF Writing, TypeInv, RunConsistent
<1> QED
  BY <1>1, <1>2, <1>3 DEF Entered, Kept

LEMMA UnownedUnwritten ==
    ASSUME TypeInv, NEW c \in Conv, Entered(conv, ledger, run, c), conv[c].owner = NoAgent
    PROVE  Writing(run, c) = {}
<1>1. \A w \in Writing(run, c) : run[w].agent # NoAgent
  BY DeskAssumption DEF Writing, TypeInv, RunConsistent
<1> QED
  BY <1>1 DEF Entered

\* The UPDATE of routing: one execution starts writing, on a row nobody owned.
LEMMA EnteredClaim ==
    ASSUME LedgerInv, NEW w \in Worker, Claim(w), Eligible(conv[run[w].conv]),
           NEW d \in Conv, Entered(conv, ledger, run, d)
    PROVE  Entered(conv', ledger', run', d)
<1> DEFINE c == run[w].conv
           a == run[w].agent
           r == [run[w] EXCEPT !.pc = "release", !.cand = {}]
<1>0. /\ conv \in [Conv -> ConvRow] /\ run \in [Worker -> RunState]
      /\ c \in Conv /\ a \in Agent /\ run[w].pc = "claim"
      /\ conv' = Given(conv, c, a, "auto") /\ ledger' = ledger
      /\ run' = [run EXCEPT ![w].pc = "release", ![w].cand = {}]
      /\ conv[c].owner = NoAgent
  BY DEF LedgerInv, TypeInv, AutoAssignTypeOK, DeskTypeOK, RunConsistent, Claim, Eligible
<1>1. run' = [run EXCEPT ![w] = r] /\ r.pc = "release" /\ r.conv = c /\ r.agent = a
  BY <1>0 DEF RunState
<1> HIDE DEF r
<1>2. CASE d # c
  <2>1. Kept(d)
    BY <1>0, <1>2, GivenRow DEF Kept
  <2>2. SameWriting(d)
    BY <1>0, <1>1, <1>2, OtherRowWriting DEF LedgerInv
  <2> QED
    BY <1>0, <2>1, <2>2, EnteredQuiet DEF LedgerInv
<1>3. CASE d = c
  <2>1. Writing(run, c) = {}
    BY <1>0, <1>3, UnownedUnwritten DEF LedgerInv
  <2>2. Writing(run', c) = {w} /\ run'[w] = r
    BY <1>0, <1>1, <2>1 DEF Writing
  <2>3. conv'[c].owner = a
    BY <1>0, GivenRow
  <2>4. run'[w].pc = "release" /\ run'[w].agent = a
    BY <1>1, <2>2
  <2> HIDE DEF a, c
  <2> QED
    BY <1>3, <2>2, <2>3, <2>4 DEF Entered
<1> QED
  BY <1>2, <1>3

LEMMA EnteredRelease ==
    ASSUME LedgerInv, NEW w \in Worker, Release(w),
           NEW d \in Conv, Entered(conv, ledger, run, d)
    PROVE  Entered(conv', ledger', run', d)
<1> DEFINE c == run[w].conv
           r == [run[w] EXCEPT !.pc = "insert"]
<1>0. /\ run \in [Worker -> RunState] /\ ledger \in [Conv -> SUBSET Agent]
      /\ c \in Conv /\ run[w].pc = "release"
      /\ conv' = conv /\ ledger' = [ledger EXCEPT ![c] = {}]
      /\ run' = [run EXCEPT ![w].pc = "insert"]
  BY DEF LedgerInv, TypeInv, AutoAssignTypeOK, DeskTypeOK, RunConsistent, Release
<1>1. run' = [run EXCEPT ![w] = r] /\ r.pc = "insert" /\ r.conv = c /\ r.agent = run[w].agent
  BY <1>0 DEF RunState
<1> HIDE DEF r
<1>2. CASE d # c
  <2>1. Kept(d) /\ ledger'[d] = ledger[d]
    BY <1>0, <1>2, UnchangedKept DEF AllKept
  <2>2. SameWriting(d)
    BY <1>0, <1>1, <1>2, OtherRowWriting DEF LedgerInv
  <2> QED
    BY <2>1, <2>2, EnteredQuiet DEF LedgerInv
<1>3. CASE d = c
  <2>1. Writing(run, c) = {w}
    BY <1>0, <1>3 DEF Writing, Entered
  <2>2. Writing(run', c) = {w} /\ run'[w] = r
    BY <1>0, <1>1, <2>1 DEF Writing
  <2> QED
    BY <1>0, <1>1, <1>3, <2>1, <2>2 DEF Entered
<1> QED
  BY <1>2, <1>3

LEMMA EnteredInsert ==
    ASSUME LedgerInv, NEW w \in Worker, Insert(w),
           NEW d \in Conv, Entered(conv, ledger, run, d)
    PROVE  Entered(conv', ledger', run', d)
<1> DEFINE c == run[w].conv
           a == run[w].agent
           r == [run[w] EXCEPT !.pc = "recount"]
<1>0. /\ run \in [Worker -> RunState] /\ ledger \in [Conv -> SUBSET Agent]
      /\ c \in Conv /\ run[w].pc = "insert"
      /\ conv' = conv /\ ledger' = [ledger EXCEPT ![c] = @ \cup {a}]
      /\ run' = [run EXCEPT ![w].pc = "recount"]
  BY DEF LedgerInv, TypeInv, AutoAssignTypeOK, DeskTypeOK, RunConsistent, Insert
<1>1. run' = [run EXCEPT ![w] = r] /\ r.pc = "recount"
  BY <1>0 DEF RunState
<1> HIDE DEF r
<1>2. CASE d # c
  <2>1. Kept(d) /\ ledger'[d] = ledger[d]
    BY <1>0, <1>2, UnchangedKept DEF AllKept
  <2>2. SameWriting(d)
    BY <1>0, <1>1, <1>2, OtherRowWriting DEF LedgerInv
  <2> QED
    BY <2>1, <2>2, EnteredQuiet DEF LedgerInv
<1>3. CASE d = c
  <2>1. Writing(run, c) = {w}
    BY <1>0, <1>3 DEF Writing, Entered
  <2>2. Writing(run', c) = {}
    BY <1>0, <1>1, <2>1 DEF Writing
  <2>3. conv[c].owner = a /\ (conv[c].status = "open" => ledger[c] = {})
    BY <1>0, <1>3, <2>1 DEF Entered
  <2>4. conv'[c].status = "open" => ledger'[c] = {conv'[c].owner}
    BY <1>0, <2>3
  <2> QED
    BY <1>3, <2>2, <2>4 DEF Entered
<1> QED
  BY <1>2, <1>3

LEMMA EnteredDesktop ==
    ASSUME LedgerInv, Desktop, NEW d \in Conv, Entered(conv, ledger, run, d)
    PROVE  Entered(conv', ledger', run', d)
<1>0. /\ conv \in [Conv -> ConvRow] /\ ledger \in [Conv -> SUBSET Agent]
      /\ run' = run /\ SameWriting(d)
  BY DEF LedgerInv, TypeInv, AutoAssignTypeOK, DeskTypeOK, SameWriting, Desktop, ArriveAtBot,
         Close, TakeFromQueue, LoseSocket, GraceOver, StartPause, ToggleOff
<1>1. ASSUME NEW a \in Agent, NEW c \in Conv, TakeFromQueue(a, c)
      PROVE  Entered(conv', ledger', run', d)
  <2>1. /\ conv[c].owner = NoAgent /\ conv' = Given(conv, c, a, "person")
        /\ ledger' = [ledger EXCEPT ![c] = {a}]
    BY <1>1 DEF TakeFromQueue, Eligible
  <2>2. CASE d # c
    <3>1. Kept(d) /\ ledger'[d] = ledger[d]
      BY <1>0, <2>1, <2>2, GivenRow DEF Kept
    <3> QED
      BY <1>0, <3>1, EnteredQuiet DEF LedgerInv
  <2>3. CASE d = c
    <3>1. Writing(run, c) = {}
      BY <2>1, <2>3, UnownedUnwritten DEF LedgerInv
    <3>2. conv'[c].owner = a /\ ledger'[c] = {a}
      BY <1>0, <2>1, GivenRow
    <3> QED
      BY <1>0, <2>3, <3>1, <3>2 DEF Entered
  <2> QED
    BY <2>2, <2>3
<1>2. ASSUME NEW c \in Conv, Close(c), ~ \E a \in Agent, e \in Conv : TakeFromQueue(a, e)
      PROVE  Entered(conv', ledger', run', d)
  <2>1. AllKept
    BY <1>2, DesktopKept DEF LedgerInv
  <2>2. CASE d # c
    <3>1. ledger'[d] = ledger[d]
      BY <1>0, <1>2, <2>2 DEF Close
    <3> QED
      BY <1>0, <2>1, <3>1, EnteredQuiet DEF LedgerInv, AllKept
  <2>3. CASE d = c
    <3> DEFINE closed == [conv EXCEPT ![c].status = "closed"]
    <3>1. closed \in [Conv -> ConvRow] /\ closed[c].status = "closed"
      BY <1>0 DEF ConvRow, Status
    <3>2. conv' = Dequeued(closed, c)
      BY <1>2 DEF Close
    <3> HIDE DEF closed
    <3>3. conv'[c].status = "closed"
      BY <3>1, <3>2, DequeuedRow
    <3> QED
      BY <1>0, <2>1, <2>3, <3>3 DEF Entered, AllKept, Kept
  <2> QED
    BY <2>2, <2>3
<1>3. CASE UNCHANGED ledger /\ ~ \E a \in Agent, e \in Conv : TakeFromQueue(a, e)
  <2>1. Kept(d)
    BY <1>3, DesktopKept DEF LedgerInv, AllKept
  <2> QED
    BY <1>0, <1>3, <2>1, EnteredQuiet DEF LedgerInv
<1> QED
  BY <1>1, <1>2, <1>3 DEF Desktop, ArriveAtBot, LoseSocket, GraceOver, StartPause, ToggleOff

\* A search that goes on, fails or finds, and a claim that comes too late.
LEMMA SearchPlaces ==
    ASSUME TypeInv, NEW w \in Worker,
           \/ Select(w) \/ Probe(w) \/ Demote(w)
           \/ Claim(w) /\ ~ Eligible(conv[run[w].conv])
    PROVE  run'[w].pc \notin {"release", "insert"}
<1>0. run \in [Worker -> RunState] /\ OneConsistent(run[w])
  BY DEF TypeInv, AutoAssignTypeOK, RunConsistent, OneConsistent
<1>1. ASSUME run[w].pc \in {"select", "probe", "demote"},
             NEW r \in TierExhausted(run[w]), run' = [run EXCEPT ![w] = r]
      PROVE  run'[w].pc \notin {"release", "insert"}
  BY <1>0, <1>1, ExhaustedConsistent
<1>2. CASE Select(w)
  <2>1. PICK rows : \/ \E r \in TierExhausted(run[w]) : run' = [run EXCEPT ![w] = r]
                    \/ run' = [run EXCEPT ![w].pc = "probe", ![w].cand = rows]
    BY <1>2 DEF Select
  <2> QED
    BY <1>0, <1>1, <1>2, <2>1 DEF Select, RunState
<1>3. CASE Probe(w)
  <2>1. PICK a : \/ run' = [run EXCEPT ![w].pc = "demote", ![w].agent = a]
                 \/ \E r \in TierExhausted(run[w]) : run' = [run EXCEPT ![w] = r]
                 \/ run' = [run EXCEPT ![w].pc = "claim", ![w].agent = a]
    BY <1>3 DEF Probe
  <2> QED
    BY <1>0, <1>1, <1>3, <2>1 DEF Probe, RunState
<1>4. CASE Demote(w)
  <2>1. PICK rest : \/ \E r \in TierExhausted(run[w]) : run' = [run EXCEPT ![w] = r]
                    \/ run' = [run EXCEPT ![w].pc = "probe", ![w].cand = rest,
                                          ![w].agent = NoAgent]
    BY <1>4 DEF Demote
  <2> QED
    BY <1>0, <1>1, <1>4, <2>1 DEF Demote, RunState
<1>5. CASE Claim(w) /\ ~ Eligible(conv[run[w].conv])
  BY <1>0, <1>5, IdleConsistent DEF Claim
<1> QED
  BY <1>2, <1>3, <1>4, <1>5

LEMMA ClaimHandsOver ==
    ASSUME TypeInv, NEW w \in Worker, Claim(w), Eligible(conv[run[w].conv])
    PROVE  ~ AllKept
<1>1. /\ conv \in [Conv -> ConvRow] /\ run[w].conv \in Conv /\ run[w].agent \in Agent
      /\ conv' = Given(conv, run[w].conv, run[w].agent, "auto")
      /\ conv[run[w].conv].owner = NoAgent
  BY DEF TypeInv, AutoAssignTypeOK, DeskTypeOK, RunConsistent, Claim, Eligible
<1>2. conv'[run[w].conv].owner = run[w].agent
  BY <1>1, GivenRow
<1> QED
  BY <1>1, <1>2, DeskAssumption DEF AllKept, Kept

\* What neither gives a row away nor writes the ledger.
LEMMA EnteredElse ==
    ASSUME LedgerInv, [Next]_vars, AllKept, UNCHANGED ledger, ~ Restart,
           \A w \in Worker : ~ Release(w) /\ ~ Insert(w),
           NEW d \in Conv, Entered(conv, ledger, run, d)
    PROVE  Entered(conv', ledger', run', d)
<1>1. ASSUME NEW v \in Worker, run[v].pc \in {"release", "insert"}
      PROVE  run'[v] = run[v]
  BY <1>1, WritingStep DEF LedgerInv
<1>2. ASSUME NEW v \in Worker, run'[v].pc \in {"release", "insert"}, run'[v] # run[v]
      PROVE  FALSE
  <2>1. Select(v) \/ Probe(v) \/ Demote(v) \/ Claim(v)
    BY <1>2, RecordStep DEF LedgerInv
  <2>2. ~ (Claim(v) /\ Eligible(conv[run[v].conv]))
    BY ClaimHandsOver DEF LedgerInv
  <2> QED
    BY <1>2, <2>1, <2>2, SearchPlaces DEF LedgerInv
<1>3. SameWriting(d)
  BY <1>1, <1>2 DEF SameWriting
<1> QED
  BY <1>3, EnteredQuiet DEF LedgerInv, AllKept

LEMMA LedgerStep == LedgerInv /\ [Next]_vars => LedgerInv'
<1> SUFFICES ASSUME LedgerInv, [Next]_vars PROVE LedgerInv'
  OBVIOUS
<1>1. TypeInv /\ NoneUnowned /\ TypeInv' /\ NoneUnowned'
  BY TypeStep, NoneUnownedStep DEF LedgerInv
<1>2. ASSUME restarts' = 0, NEW d \in Conv
      PROVE  Entered(conv', ledger', run', d)
  <2>1. ~ Restart /\ restarts = 0
    <3>1. restarts \in Nat
      BY <1>1, AutoAssignAssumption DEF TypeInv, AutoAssignTypeOK
    <3>2. ~ Restart
      BY <1>2, <3>1 DEF Restart
    <3> QED
      BY <1>2, <3>2
         DEF Next, vars, Execute, ReadHead, Sync, Select, Probe, Demote, Claim, Release,
             Insert, Recount, Resync, SetAvailable, Trigger, PendingQueueJob, ArriveAtQueue,
             BotChoice, RetryJob, GoOnline, EndPause, ToggleOn, Desktop, ArriveAtBot, Close,
             TakeFromQueue, LoseSocket, GraceOver, StartPause, ToggleOff
  <2>2. Entered(conv, ledger, run, d)
    BY <2>1 DEF LedgerInv
  <2>3. CASE Desktop
    BY <2>2, <2>3, EnteredDesktop
  <2>4. ASSUME NEW w \in Worker, Release(w) \/ Insert(w)
        PROVE  Entered(conv', ledger', run', d)
    BY <2>2, <2>4, EnteredRelease, EnteredInsert
  <2>5. ASSUME NEW w \in Worker, Claim(w), Eligible(conv[run[w].conv])
        PROVE  Entered(conv', ledger', run', d)
    BY <2>2, <2>5, EnteredClaim
  <2>6. CASE /\ ~ Desktop /\ \A w \in Worker : ~ Release(w) /\ ~ Insert(w)
             /\ ~ \E w \in Worker : Claim(w) /\ Eligible(conv[run[w].conv])
    <3>1. ASSUME NEW w \in Worker, Claim(w), ~ Eligible(conv[run[w].conv])
          PROVE  AllKept
      BY <3>1, UnchangedKept DEF Claim
    <3>2. UNCHANGED ledger
      BY <2>1, <2>6
         DEF Next, vars, Execute, ReadHead, Sync, Select, Probe, Demote, Claim,
             Recount, Resync, SetAvailable, Trigger, PendingQueueJob, ArriveAtQueue,
             BotChoice, RetryJob, GoOnline, EndPause, ToggleOn
    <3>3. AllKept
      BY <1>1, <2>1, <2>6, <3>1, UnchangedKept, ExecuteKept, TriggerKept DEF Next, vars
    <3> QED
      BY <2>1, <2>2, <2>6, <3>2, <3>3, EnteredElse
  <2> QED
    BY <2>3, <2>4, <2>5, <2>6
<1> QED
  BY <1>1, <1>2 DEF LedgerInv

\* As long as the process does not restart, an open, owned conversation that no
\* execution is writing down has exactly its owner in conversation_assignments.
\* A restart between the UPDATE and the INSERT of persistAutoAssignment leaves
\* the ledger behind for good, and no job repairs it.
THEOREM LedgerIsTheOwners == Spec => [](restarts = 0 => LedgerFollowsOwner)
<1>1. Init => LedgerInv
  <2> SUFFICES ASSUME Init PROVE LedgerInv
    OBVIOUS
  <2>1. \A w \in Worker : run[w].pc = "idle"
    BY DEF Init, Idle, At
  <2>2. NoneUnowned /\ \A c \in Conv : conv[c].owner = NoAgent /\ Writing(run, c) = {}
    BY <2>1 DEF Init, DeskInit, NewConv, NoneUnowned, Writing
  <2> QED
    BY <2>2, TypeInit DEF LedgerInv, Entered
<1>2. LedgerInv => (restarts = 0 => LedgerFollowsOwner)
  <2> SUFFICES ASSUME LedgerInv, restarts = 0, NEW c \in Conv,
                      conv[c].status = "open", conv[c].owner # NoAgent,
                      \A w \in Worker : run[w].conv = c => run[w].pc \notin {"release", "insert"}
               PROVE  ledger[c] = {conv[c].owner}
    BY DEF LedgerFollowsOwner
  <2>1. Writing(run, c) = {}
    BY DEF Writing
  <2> QED
    BY <2>1 DEF LedgerInv, Entered
<1> QED
  BY <1>1, <1>2, LedgerStep, PTL DEF Spec
=============================================================================
