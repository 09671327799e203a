-------------------------- MODULE RoundRobinProofs --------------------------
(***************************************************************************)
(* Theorems about RoundRobin.tla and LoadBalancer.tla, for any callers,    *)
(* numbers of nodes, services and changes of the cluster.                  *)
(***************************************************************************)
EXTENDS LoadBalancer, FiniteSetTheorems, TLAPS

LEMMA RemainderInRange ==
    ASSUME NEW x \in Nat, NEW n \in Nat \ {0}
    PROVE  x % n \in 0..(n - 1)
OBVIOUS

LEMMA RemainderOfNext ==
    ASSUME NEW n \in Nat \ {0}, NEW x \in 0..(n - 1)
    PROVE  (x + 1) % n = IF x = n - 1 THEN 0 ELSE x + 1
<1>1. CASE x = n - 1
    BY <1>1
<1>2. CASE x # n - 1
    <2>1. x + 1 \in 0..(n - 1)
        BY <1>2
    <2>2. QED
        BY <1>2, <2>1
<1>3. QED
    BY <1>1, <1>2

(* The inductive invariant: PickInRange is what keeps next typed. *)
IInv == TypeOK /\ PickInRange /\ CounterBounded

LEMMA AddingFinite == IsFiniteSet(Adding) /\ Cardinality(Adding) \in Nat
BY RoundRobinAssumption, FS_Subset, FS_CardinalityType DEF Adding

(* The numbers CounterBounded adds. *)
LEMMA Numbers ==
    ASSUME TypeOK
    PROVE  /\ current \in Nat /\ panics \in Nat /\ MaxNodes \in Nat \ {0}
           /\ Cardinality(Adding) \in Nat
BY RoundRobinAssumption, AddingFinite DEF TypeOK

LEMMA InitIInv == Init => IInv
<1> SUFFICES ASSUME Init PROVE IInv
    OBVIOUS
<1>1. TypeOK /\ PickInRange
    BY RoundRobinAssumption DEF Init, TypeOK, PickInRange
<1>2. CounterBounded
    BY RoundRobinAssumption, AddingFinite DEF Init, CounterBounded
<1>3. QED
    BY <1>1, <1>2 DEF IInv

LEMMA DiscoverIInv ==
    ASSUME IInv, NEW c \in Caller, NEW n \in Sizes, Discover(c, n)
    PROVE  IInv'
<1>1. TypeOK' /\ PickInRange'
    BY RoundRobinAssumption DEF IInv, TypeOK, PickInRange, Discover
<1>2. Adding' = Adding
    BY DEF IInv, TypeOK, Adding, Discover
<1>3. QED
    BY <1>1, <1>2 DEF IInv, CounterBounded, Discover

LEMMA AddIInv ==
    ASSUME IInv, NEW c \in Caller, Add(c)
    PROVE  IInv'
<1>1. CASE size[c] = 0
    <2>1. TypeOK' /\ PickInRange'
        BY <1>1 DEF IInv, TypeOK, PickInRange, Add
    <2>2. Adding' = Adding
        BY <1>1 DEF IInv, TypeOK, Adding, Add
    <2>3. current' = current + 1 /\ panics' = panics + 1
        BY <1>1 DEF Add
    <2>4. CounterBounded'
        BY <2>2, <2>3, Numbers DEF IInv, CounterBounded
    <2>5. QED
        BY <2>1, <2>4 DEF IInv
<1>2. CASE size[c] # 0
    <2>1. size[c] \in 1..MaxNodes
        BY <1>2, RoundRobinAssumption DEF IInv, TypeOK
    <2>2. (current + 1) % size[c] \in 0..(size[c] - 1)
        <3>1. current + 1 \in Nat /\ size[c] \in Nat \ {0}
            BY <2>1, Numbers DEF IInv
        <3>2. QED
            BY <3>1, RemainderInRange
    <2>3. /\ next' = [next EXCEPT ![c] = (current + 1) % size[c]]
          /\ (current + 1) % size[c] < size[c]
          /\ (current + 1) % size[c] \in 0..(MaxNodes - 1)
          /\ current' = current + 1 /\ current' \in Nat
        BY <1>2, <2>1, <2>2, Numbers DEF IInv, Add
    <2>4. TypeOK' /\ PickInRange'
        <3> DEFINE r == (current + 1) % size[c]
        <3>1. r < size[c] /\ r \in 0..(MaxNodes - 1) /\ next' = [next EXCEPT ![c] = r]
            BY <2>3
        <3> HIDE DEF r
        <3>2. QED
            BY <1>2, <2>3, <3>1 DEF IInv, TypeOK, PickInRange, Add
    <2>5. Adding' = Adding \cup {c} /\ c \notin Adding
        BY <1>2 DEF IInv, TypeOK, Adding, Add
    <2>6. Cardinality(Adding') = Cardinality(Adding) + 1
        BY <2>5, AddingFinite, FS_AddElement
    <2>7. current' = current + 1 /\ panics' = panics
        BY <1>2 DEF Add
    <2>8. CounterBounded'
        BY <2>6, <2>7, Numbers DEF IInv, CounterBounded
    <2>9. QED
        BY <2>4, <2>8 DEF IInv
<1>3. QED
    BY <1>1, <1>2

LEMMA StoreIInv ==
    ASSUME IInv, NEW c \in Caller, Store(c)
    PROVE  IInv'
<1>1. TypeOK' /\ PickInRange'
    BY RoundRobinAssumption DEF IInv, TypeOK, PickInRange, Store
<1>2. Adding' \subseteq Adding
    BY DEF IInv, TypeOK, Adding, Store
<1>3. Cardinality(Adding') \in Nat
    BY <1>2, AddingFinite, FS_Subset, FS_CardinalityType
<1>4. current' \in 0..(MaxNodes - 1) /\ panics' = panics
    BY DEF IInv, TypeOK, Store
<1>5. CounterBounded'
    BY <1>3, <1>4, Numbers DEF IInv, CounterBounded
<1>6. QED
    BY <1>1, <1>5 DEF IInv

LEMMA PickIInv ==
    ASSUME IInv, NEW c \in Caller, Pick(c)
    PROVE  IInv'
<1>1. TypeOK' /\ PickInRange'
    BY RoundRobinAssumption DEF IInv, TypeOK, PickInRange, Pick
<1>2. Adding' = Adding
    BY DEF IInv, TypeOK, Adding, Pick
<1>3. QED
    BY <1>1, <1>2 DEF IInv, CounterBounded, Pick

LEMMA StepIInv == IInv /\ [Next]_vars => IInv'
<1> SUFFICES ASSUME IInv, [Next]_vars PROVE IInv'
    OBVIOUS
<1>1. CASE UNCHANGED vars
    BY <1>1 DEF vars, IInv, TypeOK, PickInRange, CounterBounded, Adding
<1>2. QED
    BY <1>1, DiscoverIInv, AddIInv, StoreIInv, PickIInv DEF Next, Step

LEMMA Invariance == Spec => []IInv
BY InitIInv, StepIInv, PTL DEF Spec

(* The selection of client.go:100-102 never indexes out of range, however  *)
(* many callers race on the counter.                                       *)
THEOREM PickIsInRange == Spec => []PickInRange
<1>1. IInv => PickInRange
    BY DEF IInv
<1>2. QED
    BY <1>1, Invariance, PTL

(* The counter of client.go:100-101 stays bounded by the nodes, the calls  *)
(* under way and the selections that panicked, for any callers.            *)
THEOREM CounterIsBounded == Spec => []CounterBounded
<1>1. IInv => CounterBounded
    BY DEF IInv
<1>2. QED
    BY <1>1, Invariance, PTL

-----------------------------------------------------------------------------
(* Fairness of selections that do not overlap, over a stable set of nodes. *)
(* Last is the index of the latest completed selection (0 before the       *)
(* first).  Since the last time index 0 was selected, exactly 1..Last were. *)
Last(c) == IF pc[c] \in {"store", "pick"}
           THEN IF next[c] = 0 THEN MaxNodes - 1 ELSE next[c] - 1
           ELSE current

Balanced(l) == \A i \in 0..(MaxNodes - 1) :
                   turns[i] = turns[0] + IF i \in 1..l THEN 1 ELSE 0

(* What holds of the one selection under way.                              *)
Turn(c) == /\ Last(c) \in 0..(MaxNodes - 1)
           /\ Balanced(Last(c))
           /\ pc[c] = "pick" => current = next[c]
           /\ pc[c] = "add" => size[c] = MaxNodes

Rest == current \in 0..(MaxNodes - 1) /\ Balanced(current)

SerialInv == serial => /\ \A c, d \in Caller : pc[c] # "idle" /\ pc[d] # "idle" => c = d
                       /\ \A c \in Caller : pc[c] # "idle" => Turn(c)
                       /\ Quiet => Rest

LEMMA SerialInit == Init => SerialInv
BY RoundRobinAssumption DEF Init, SerialInv, Turn, Rest, Last, Balanced

LEMMA SerialDiscover ==
    ASSUME IInv, SerialInv, NEW c \in Caller, NEW n \in Sizes, Discover(c, n)
    PROVE  SerialInv'
<1> USE RoundRobinAssumption DEF IInv, TypeOK
<1>1. SUFFICES ASSUME serial, Quiet, n = MaxNodes
               PROVE  SerialInv'
    BY DEF Discover, SerialInv
<1>2. /\ pc' = [pc EXCEPT ![c] = "add"] /\ size'[c] = MaxNodes
      /\ current' = current /\ turns' = turns /\ Rest
    BY <1>1 DEF Discover, SerialInv
<1>3. Turn(c)'
    BY <1>2 DEF Turn, Rest, Last, Balanced
<1>4. QED
    BY <1>1, <1>2, <1>3 DEF SerialInv, Quiet

LEMMA SerialAdd ==
    ASSUME IInv, SerialInv, NEW c \in Caller, Add(c)
    PROVE  SerialInv'
<1> USE RoundRobinAssumption DEF IInv, TypeOK
<1>1. SUFFICES ASSUME serial PROVE SerialInv'
    BY DEF Add, SerialInv
<1>2. size[c] = MaxNodes /\ current \in 0..(MaxNodes - 1) /\ pc[c] = "add" /\ Balanced(current)
    BY <1>1 DEF SerialInv, Turn, Last, Add
<1>3. (current + 1) % MaxNodes = IF current = MaxNodes - 1 THEN 0 ELSE current + 1
    BY <1>2, RemainderOfNext
<1>4. /\ pc' = [pc EXCEPT ![c] = "store"] /\ next'[c] = (current + 1) % MaxNodes
      /\ turns' = turns
    BY <1>2 DEF Add
<1>5. Last(c)' = current
    BY <1>2, <1>3, <1>4 DEF Last
<1>6. Turn(c)'
    BY <1>2, <1>4, <1>5 DEF Turn, Balanced
<1>7. QED
    BY <1>1, <1>2, <1>4, <1>6 DEF SerialInv, Quiet

LEMMA SerialStore ==
    ASSUME IInv, SerialInv, NEW c \in Caller, Store(c)
    PROVE  SerialInv'
<1> USE RoundRobinAssumption DEF IInv, TypeOK
<1>1. SUFFICES ASSUME serial PROVE SerialInv'
    BY DEF Store, SerialInv
<1>2. /\ pc[c] = "store" /\ pc' = [pc EXCEPT ![c] = "pick"] /\ Turn(c)
      /\ current' = next[c] /\ next' = next /\ turns' = turns
    BY <1>1 DEF Store, SerialInv
<1>3. Turn(c)'
    BY <1>2 DEF Turn, Last, Balanced
<1>4. QED
    BY <1>1, <1>2, <1>3 DEF SerialInv, Quiet

LEMMA SerialPick ==
    ASSUME IInv, SerialInv, NEW c \in Caller, Pick(c)
    PROVE  SerialInv'
<1> USE RoundRobinAssumption DEF IInv, TypeOK
<1>1. SUFFICES ASSUME serial PROVE SerialInv'
    BY DEF Pick, SerialInv
<1>2. /\ pc[c] = "pick" /\ pc' = [pc EXCEPT ![c] = "idle"]
      /\ current' = next[c] /\ next[c] \in 0..(MaxNodes - 1)
      /\ turns' = [turns EXCEPT ![next[c]] = @ + 1] /\ Balanced(Last(c))
    BY <1>1 DEF Pick, SerialInv, Turn
<1>3. Balanced(next[c])'
    <2>1. CASE next[c] = 0
        <3>1. Last(c) = MaxNodes - 1
            BY <1>2, <2>1 DEF Last
        <3>2. \A i \in 0..(MaxNodes - 1) : turns'[i] = turns[0] + 1
            BY <1>2, <2>1, <3>1 DEF Balanced
        <3>3. next' = next
            BY DEF Pick
        <3>4. QED
            BY <2>1, <3>2, <3>3 DEF Balanced
    <2>2. CASE next[c] # 0
        <3>1. Last(c) = next[c] - 1
            BY <1>2, <2>2 DEF Last
        <3>2. ASSUME NEW i \in 0..(MaxNodes - 1)
              PROVE  turns'[i] = turns[0] + IF i \in 1..next[c] THEN 1 ELSE 0
            <4>1. turns[i] = turns[0] + IF i \in 1..(next[c] - 1) THEN 1 ELSE 0
                BY <1>2, <3>1 DEF Balanced
            <4>2. CASE i = next[c]
                BY <1>2, <2>2, <4>1, <4>2
            <4>3. CASE i # next[c]
                BY <1>2, <2>2, <4>1, <4>3
            <4>4. QED
                BY <4>2, <4>3
        <3>3. turns'[0] = turns[0] /\ next' = next
            BY <1>2, <2>2 DEF Pick
        <3>4. QED
            BY <3>2, <3>3 DEF Balanced
    <2>3. QED
        BY <2>1, <2>2
<1>4. next' = next /\ Rest'
    BY <1>2, <1>3 DEF Pick, Rest, Balanced
<1>5. \A d \in Caller : pc'[d] = "idle"
    BY <1>1, <1>2 DEF SerialInv
<1>6. QED
    BY <1>4, <1>5 DEF SerialInv

LEMMA SerialStep == IInv /\ SerialInv /\ [Next]_vars => SerialInv'
<1> SUFFICES ASSUME IInv, SerialInv, [Next]_vars PROVE SerialInv'
    OBVIOUS
<1>1. CASE UNCHANGED vars
    BY <1>1 DEF vars, SerialInv, Turn, Rest, Last, Balanced, Quiet
<1>2. QED
    BY <1>1, SerialDiscover, SerialAdd, SerialStore, SerialPick DEF Next, Step

(* Selections that do not overlap take the nodes of a stable cluster in    *)
(* turn, whichever goroutines make them: the strategy README.md calls      *)
(* round robin (client.go:95-104) needs nothing but that.                  *)
THEOREM SerialRoundRobin == Spec => []SerialFairTurns
<1>1. IInv /\ SerialInv => SerialFairTurns
    <2>1. ASSUME IInv, SerialInv, serial, Quiet,
                 NEW i \in 0..(MaxNodes - 1), NEW j \in 0..(MaxNodes - 1)
          PROVE  turns[i] <= turns[j] + 1
        <3>1. turns[0] \in Nat /\ turns[j] \in Nat
            BY <2>1, RoundRobinAssumption DEF IInv, TypeOK
        <3>2. turns[i] \in {turns[0], turns[0] + 1} /\ turns[j] \in {turns[0], turns[0] + 1}
            BY <2>1, <3>1 DEF SerialInv, Rest, Balanced
        <3>3. QED
            BY <3>1, <3>2
    <2>2. QED
        BY <2>1 DEF SerialFairTurns, FairTurns
<1>2. QED
    BY <1>1, SerialInit, SerialStep, Invariance, PTL DEF Spec

-----------------------------------------------------------------------------
(* The selection together with the registry, LoadBalancer.tla.              *)

RP == INSTANCE RegistryProofs WITH MaxMembers <- MaxNodes

\* The registry is in one of its reachable states.
RegInv == RP!IInv /\ Len(members) <= MaxNodes

(* The constants are as RegistryProofs.tla wants them. *)
LEMMA RegAssumptions == RP!RegistryAssumption
BY LoadBalancerAssumption, RoundRobinAssumption DEF RP!RegistryAssumption

(* The registry keeps its invariant under the selections. *)
LEMMA RegInit == Reg!Init => RegInv
<1>1. Reg!Init => RP!Init
    BY DEF Reg!Init, RP!Init
<1>2. RP!Init => RP!IInv
    BY RegAssumptions, RP!InitIInv
<1>3. Reg!Init => Len(members) <= MaxNodes
    BY RoundRobinAssumption DEF Reg!Init
<1>4. QED
    BY <1>1, <1>2, <1>3 DEF RegInv

LEMMA RegStep ==
    ASSUME RegInv, [LBNext]_lbvars
    PROVE  RegInv'
<1>1. [RP!Next]_(RP!vars)
    <2>1. CASE UNCHANGED registry
        BY <2>1 DEF registry, RP!vars
    <2>2. CASE Change
        BY <2>2 DEF Change,
           Reg!Next, Reg!Join, Reg!Update, Reg!Leave, Reg!Probe, Reg!Announce,
           Reg!NotifyJoin, Reg!NotifyUpdate, Reg!NotifyLeave, Reg!Live, Reg!Parsable,
           Reg!IndexOfAny, Reg!Without,
           RP!Next, RP!vars, RP!Join, RP!Update, RP!Leave, RP!Probe, RP!Announce,
           RP!NotifyJoin, RP!NotifyUpdate, RP!NotifyLeave, RP!Live, RP!Parsable,
           RP!IndexOfAny, RP!Without
    <2>3. QED
        BY <2>1, <2>2 DEF LBNext, Ask, Answer, AskFails, Crash, Return, Reduce, Use, Land,
                          registry, lbvars
<1>2. RP!IInv /\ Len(members) <= MaxNodes
    BY DEF RegInv
<1>3. RP!IInv'
    BY <1>1, <1>2, RegAssumptions, RP!StepIInv
<1>4. Len(members') <= MaxNodes
    BY <1>1, <1>2, RegAssumptions, RP!StepBounded
<1>5. QED
    BY <1>3, <1>4 DEF RegInv

(* Every live node of Svc is listed. *)
LEMMA LiveIsListed ==
    ASSUME RegInv, process = "running"
    PROVE  LiveForSvc \subseteq ListedForSvc
BY LoadBalancerAssumption
DEF RegInv, RP!IInv, RP!LiveListed, RP!Live, RP!Listed, RP!Parsable,
    LiveForSvc, ListedForSvc, Reg!Live, Reg!Listed

(* Discover answers no more nodes than the bound allows, and some if a node *)
(* of Svc is live.                                                          *)
LEMMA ServingBounds ==
    ASSUME RegInv
    PROVE  /\ Len(Serving) \in 0..MaxNodes /\ DOMAIN Serving = 1..Len(Serving)
           /\ process = "running" /\ Len(Serving) = 0 => LiveForSvc = {}
<1> DEFINE K == {k \in DOMAIN members : RP!IsAlive(k) /\ meta[members[k]] = Svc}
<1>1. Serving = RP!Filter(members, K)
    BY DEF Serving, Reg!Discover, Reg!Filter, RP!Filter, Reg!IsAlive, RP!IsAlive,
           Reg!State, RP!State
<1>2. /\ members \in Seq(Node) /\ K \in SUBSET DOMAIN members
      /\ status \in [Node -> {"alive", "suspect", "dead"}]
    BY DEF RegInv, RP!IInv, RP!TypeOK
<1>3. /\ Serving \in Seq(Node) /\ Len(Serving) <= Len(members)
      /\ {Serving[j] : j \in DOMAIN Serving} = {members[k] : k \in K}
    <2> HIDE DEF K
    <2>1. /\ RP!Filter(members, K) \in Seq(Node)
          /\ Len(RP!Filter(members, K)) <= Len(members)
          /\ {RP!Filter(members, K)[j] : j \in DOMAIN RP!Filter(members, K)}
                 = {members[k] : k \in K}
        BY <1>2, RegAssumptions, RP!FilterEntries, Zenon
    <2>2. QED
        BY <1>1, <2>1, Zenon
<1>4. Len(Serving) \in 0..MaxNodes /\ DOMAIN Serving = 1..Len(Serving)
    BY <1>2, <1>3, RoundRobinAssumption DEF RegInv
<1>5. ASSUME process = "running", NEW n \in LiveForSvc
      PROVE  Len(Serving) # 0
    <2>1. n \in ListedForSvc
        BY <1>5, LiveIsListed
    <2>2. PICK k \in DOMAIN members : members[k] = n /\ meta[n] = Svc
        BY <2>1 DEF ListedForSvc, Reg!Listed
    <2>3. k \in K
        BY <2>2 DEF RP!IsAlive, RP!State
    <2>4. n \in {Serving[j] : j \in DOMAIN Serving}
        BY <1>3, <2>2, <2>3
    <2>5. QED
        BY <1>4, <2>4
<1>6. QED
    BY <1>4, <1>5

(* An answer that callbacks overtook is as long as the bound allows. *)
LEMMA OvertakenBounds ==
    ASSUME NEW w, NEW s \in Overtaken(w)
    PROVE  Len(s) \in 0..MaxNodes /\ DOMAIN s = 1..Len(s)
<1>1. PICK k \in 0..MaxNodes : s \in [1..k -> Node]
    BY DEF Overtaken
<1>2. s \in Seq(Node) /\ DOMAIN s = 1..k /\ k \in Nat
    BY <1>1, RoundRobinAssumption
<1>3. Len(s) = k
    BY <1>2
<1>4. QED
    BY <1>1, <1>2, <1>3

\* Whatever the cluster does, the selections are those of RoundRobin.tla: each
\* theorem above holds of a client that asks the registry.
THEOREM SelectsInTurn == LBSpec => Spec
<1>1. LBInit => Init /\ RegInv
    BY RegInit DEF LBInit
<1>2. RegInv /\ [LBNext]_lbvars => [Next]_vars /\ RegInv'
    <2>1. SUFFICES ASSUME RegInv, [LBNext]_lbvars PROVE [Next]_vars
        BY RegStep
    <2>2. ASSUME NEW c \in Caller, Answer(c) PROVE Next
        <3>1. PICK nodes \in IF c \in fresh THEN {Serving} ELSE Overtaken(window[c]) :
                  Discover(c, Len(nodes))
            BY <2>2 DEF Answer
        <3>2. Len(nodes) \in Sizes
            BY <2>1, <3>1, ServingBounds, OvertakenBounds, LoadBalancerAssumption
        <3>3. QED
            BY <3>1, <3>2 DEF Next, Step
    <2>3. ASSUME NEW c \in Caller, Reduce(c) \/ Use(c) PROVE Next
        BY <2>3 DEF Reduce, Use, Next, Step
    <2>4. CASE UNCHANGED selection
        BY <2>4 DEF selection, vars
    <2>5. QED
        BY <2>1, <2>2, <2>3, <2>4
        DEF LBNext, Ask, AskFails, Crash, Change, Land, selection, lbvars
<1>3. QED
    BY <1>1, <1>2, PTL DEF LBSpec, Spec

-----------------------------------------------------------------------------
(* A division by zero. *)

LBTypeOK == /\ landing \in {"none", "join", "leave"} \X SUBSET Node
            /\ asking \in SUBSET Caller /\ fresh \in SUBSET Caller
            /\ window \in [Caller -> [kept : SUBSET Node, seen : SUBSET Node,
                                      ran : SUBSET {"none", "join", "leave"},
                                      steady : SUBSET Node]]
            /\ \A c \in asking : pc[c] = "idle"

\* The nodes live and of Svc throughout a call of Discover are listed and of
\* Svc throughout, and are so still.
SteadyKept == process = "running" =>
    \A c \in asking : window[c].steady \subseteq window[c].kept \cap LiveForSvc

\* A call that got no nodes had none of those, or a leave overtook it.
EmptyUnserved == \A c \in Caller :
    pc[c] = "add" /\ size[c] = 0 => window[c].steady = {} \/ "leave" \in window[c].ran

LBInv == LBTypeOK /\ SteadyKept /\ EmptyUnserved

LEMMA LBInitInv == LBInit => LBInv
BY DEF LBInit, Init, LBInv, LBTypeOK, SteadyKept, EmptyUnserved, Landed, Closed

LEMMA AskInv ==
    ASSUME IInv, RegInv, LBInv, process = "running", NEW c \in Caller, Ask(c)
    PROVE  LBInv'
<1> USE DEF LBInv
<1>1. /\ asking' = asking \cup {c} /\ pc[c] = "idle" /\ pc' = pc /\ size' = size
      /\ window' = [window EXCEPT ![c] =
                     [kept   |-> ListedForSvc \ landing[2],
                      seen   |-> Reg!Listed \cup landing[2],
                      ran    |-> {landing[1]} \ {"none"},
                      steady |-> LiveForSvc \ landing[2]]]
      /\ landing' = landing /\ fresh' \in SUBSET Caller
      /\ process' = process /\ LiveForSvc' = LiveForSvc
    BY DEF Ask, selection, registry, LBTypeOK, LiveForSvc, Reg!Live
<1>2. LiveForSvc \subseteq ListedForSvc /\ ListedForSvc \subseteq Node /\ Reg!Listed \subseteq Node
    BY LiveIsListed DEF ListedForSvc, Reg!Listed, RegInv, RP!IInv, RP!TypeOK
<1>3. LBTypeOK'
    <2>1. [kept   |-> ListedForSvc \ landing[2], seen   |-> Reg!Listed \cup landing[2],
           ran    |-> {landing[1]} \ {"none"},   steady |-> LiveForSvc \ landing[2]]
              \in [kept : SUBSET Node, seen : SUBSET Node,
                   ran : SUBSET {"none", "join", "leave"}, steady : SUBSET Node]
        BY <1>2 DEF LBTypeOK
    <2>2. QED
        BY <1>1, <2>1 DEF LBTypeOK
<1>4. SteadyKept'
    BY <1>1, <1>2 DEF SteadyKept, LBTypeOK
<1>5. EmptyUnserved'
    BY <1>1 DEF EmptyUnserved, LBTypeOK
<1>6. QED
    BY <1>3, <1>4, <1>5

LEMMA AnswerInv ==
    ASSUME IInv, RegInv, LBInv, process = "running", NEW c \in Caller, Answer(c)
    PROVE  LBInv'
<1> USE DEF LBInv
<1>1. PICK nodes \in IF c \in fresh THEN {Serving} ELSE Overtaken(window[c]) :
          Discover(c, Len(nodes))
    BY DEF Answer
<1>2. /\ c \in asking /\ asking' = asking \ {c} /\ pc' = [pc EXCEPT ![c] = "add"]
      /\ size' = [size EXCEPT ![c] = Len(nodes)]
      /\ window' = [window EXCEPT ![c] = [Closed EXCEPT !.ran = window[c].ran,
                                                         !.steady = window[c].steady]]
      /\ landing' = landing /\ fresh' = fresh /\ process' = process /\ LiveForSvc' = LiveForSvc
    BY <1>1 DEF Answer, Return, Discover, registry, LiveForSvc, Reg!Live
<1>3. /\ \A d \in Caller \ {c} : window'[d] = window[d] /\ pc'[d] = pc[d] /\ size'[d] = size[d]
      /\ size'[c] = Len(nodes)
      /\ window'[c].steady = window[c].steady /\ window'[c].ran = window[c].ran
    BY <1>2 DEF LBTypeOK, IInv, TypeOK, Closed
<1>4. LBTypeOK'
    <2>1. [Closed EXCEPT !.ran = window[c].ran, !.steady = window[c].steady]
              \in [kept : SUBSET Node, seen : SUBSET Node,
                   ran : SUBSET {"none", "join", "leave"}, steady : SUBSET Node]
        BY DEF LBTypeOK, Closed
    <2>3. \A d \in asking' : pc'[d] = "idle"
        BY <1>2 DEF LBTypeOK, IInv, TypeOK
    <2>4. QED
        BY <1>2, <2>1, <2>3 DEF LBTypeOK
<1>5. SteadyKept'
    BY <1>2, <1>3 DEF SteadyKept, LBTypeOK
<1>6. ASSUME Len(nodes) = 0
      PROVE  window[c].steady = {} \/ "leave" \in window[c].ran
    <2>1. window[c].steady \subseteq window[c].kept \cap LiveForSvc
        BY <1>2 DEF SteadyKept
    <2>2. CASE c \in fresh
        BY <1>1, <1>6, <2>1, <2>2, ServingBounds
    <2>3. CASE c \notin fresh
        <3>1. nodes \in Overtaken(window[c]) /\ DOMAIN nodes = {}
            BY <1>1, <1>6, <2>3, OvertakenBounds
        <3>2. "leave" \in window[c].ran \/ window[c].kept \subseteq {}
            BY <3>1 DEF Overtaken
        <3>3. QED
            BY <2>1, <3>2
    <2>4. QED
        BY <2>2, <2>3
<1>7. EmptyUnserved'
    BY <1>3, <1>6 DEF EmptyUnserved
<1>8. QED
    BY <1>4, <1>5, <1>7

(* What ends a call, or goes on with it, only closes its window. *)
LEMMA LeaveInv ==
    ASSUME IInv, RegInv, LBInv, NEW c \in Caller, AskFails(c) \/ Crash(c) \/ Reduce(c) \/ Use(c)
    PROVE  LBInv'
<1> USE DEF LBInv
<1>1. /\ asking' \subseteq asking /\ landing' = landing /\ fresh' = fresh
      /\ process' = process /\ LiveForSvc' = LiveForSvc
      /\ window' = window \/ window' = [window EXCEPT ![c] = Closed]
    BY DEF AskFails, Crash, Reduce, Use, Return, Forget, registry, LiveForSvc, Reg!Live
<1>2. /\ pc' \in [Caller -> {"idle", "add", "store", "pick"}] /\ size' = size
      /\ \A d \in Caller \ {c} : pc'[d] = pc[d]
      /\ pc'[c] # "add"
      /\ pc[c] = "idle" => pc'[c] = "idle"
    <2>1. CASE AskFails(c) \/ Crash(c)
        BY <2>1 DEF AskFails, Crash, Return, selection, LBTypeOK, IInv, TypeOK
    <2>2. CASE Reduce(c)
        BY <2>2 DEF Reduce, Add, Store, IInv, TypeOK
    <2>3. CASE Use(c)
        BY <2>3 DEF Use, Pick, IInv, TypeOK
    <2>4. QED
        BY <2>1, <2>2, <2>3
<1>3. LBTypeOK'
    BY <1>1, <1>2 DEF LBTypeOK, Closed
<1>4. SteadyKept'
    BY <1>1 DEF SteadyKept, LBTypeOK, Closed
<1>5. \A d \in Caller \ {c} : window'[d] = window[d]
    BY <1>1 DEF LBTypeOK
<1>6. EmptyUnserved'
    BY <1>2, <1>5 DEF EmptyUnserved
<1>7. QED
    BY <1>3, <1>4, <1>6

LEMMA ChangeInv ==
    ASSUME IInv, RegInv, RegInv', LBInv, Change
    PROVE  LBInv'
<1> USE DEF LBInv
<1> DEFINE kind == IF Len(members') > Len(members) THEN "join"
                   ELSE IF Len(members') < Len(members) THEN "leave" ELSE "none"
<1>1. /\ landing' = IF kind = "none" THEN Landed
                    ELSE <<kind, {n \in Node : status'[n] # status[n]}>>
      /\ window' = [c \in Caller |->
             IF c \notin asking THEN window[c]
             ELSE [kept   |-> window[c].kept \cap ListedForSvc',
                   seen   |-> window[c].seen \cup Reg!Listed',
                   ran    |-> window[c].ran \cup ({kind} \ {"none"}),
                   steady |-> window[c].steady \cap LiveForSvc']]
      /\ asking' = asking /\ pc' = pc /\ size' = size
      /\ fresh' \in SUBSET Caller /\ process = "running"
    BY DEF Change, selection, LBTypeOK, Reg!Next
<1>2. kind \in {"none", "join", "leave"}
    OBVIOUS
<1> HIDE DEF kind
<1>3. LBTypeOK'
    <2>1. landing' \in {"none", "join", "leave"} \X SUBSET Node
        BY <1>1, <1>2 DEF Landed
    <2>2. Reg!Listed' \subseteq Node
        BY DEF Reg!Listed, RegInv, RP!IInv, RP!TypeOK
    <2>3. ASSUME NEW c \in Caller
          PROVE  window'[c] \in [kept : SUBSET Node, seen : SUBSET Node,
                                 ran : SUBSET {"none", "join", "leave"}, steady : SUBSET Node]
        BY <1>1, <1>2, <2>2 DEF LBTypeOK
    <2>4. QED
        BY <1>1, <2>1, <2>3 DEF LBTypeOK
<1>4. ASSUME NEW c \in asking, process' = "running"
      PROVE  window'[c].steady \subseteq window'[c].kept \cap LiveForSvc'
    <2>1. window[c].steady \subseteq window[c].kept
        BY <1>1 DEF SteadyKept
    <2>2. LiveForSvc' \subseteq ListedForSvc'
        BY <1>4, LoadBalancerAssumption
        DEF RegInv, RP!IInv, RP!LiveListed, RP!Live, RP!Listed, RP!Parsable,
            LiveForSvc, ListedForSvc, Reg!Live, Reg!Listed
    <2>3. /\ window'[c].steady = window[c].steady \cap LiveForSvc'
          /\ window'[c].kept = window[c].kept \cap ListedForSvc'
        BY <1>1 DEF LBTypeOK
    <2>4. QED
        BY <2>1, <2>2, <2>3
<1>5. SteadyKept'
    BY <1>1, <1>4 DEF SteadyKept
<1>6. EmptyUnserved'
    BY <1>1 DEF EmptyUnserved, LBTypeOK
<1>7. QED
    BY <1>3, <1>5, <1>6

LEMMA LBStepInv == IInv /\ RegInv /\ LBInv /\ [LBNext]_lbvars => LBInv'
<1> SUFFICES ASSUME IInv, RegInv, LBInv, [LBNext]_lbvars PROVE LBInv'
    OBVIOUS
<1>1. CASE Land \/ UNCHANGED lbvars
    BY <1>1 DEF Land, Landed, selection, registry, lbvars, LBInv, LBTypeOK, SteadyKept,
                EmptyUnserved, LiveForSvc, Reg!Live
<1>2. QED
    BY <1>1, RegStep, AskInv, AnswerInv, LeaveInv, ChangeInv DEF LBNext

LEMMA LBInvariance == LBSpec => [](IInv /\ RegInv /\ LBInv)
<1>1. LBInit => RegInv /\ LBInv
    BY RegInit, LBInitInv DEF LBInit
<1>2. IInv /\ RegInv /\ LBInv /\ [LBNext]_lbvars => RegInv' /\ LBInv'
    BY RegStep, LBStepInv
<1>3. QED
    BY <1>1, <1>2, SelectsInTurn, Invariance, PTL DEF LBSpec

\* However many goroutines select while nodes join, leave and fail, and however
\* their unlocked Discover meets the callbacks: a selection divides by zero only
\* if no node was live and announced Svc throughout its Discover, or if the
\* removal of a node ran meanwhile.
THEOREM DivisionNeedsUnserved == LBSpec => PanicOnlyUnserved
<1> DEFINE Excused(c) == window[c].steady = {} \/ "leave" \in window[c].ran
           Blamed == \A c \in Caller : pc[c] = "add" /\ panics' > panics /\ pc'[c] = "idle"
                                          => Excused(c)
<1>1. IInv /\ LBInv /\ [LBNext]_lbvars => [Blamed]_lbvars
    <2>1. SUFFICES ASSUME IInv, LBInv, LBNext, NEW c \in Caller,
                          pc[c] = "add", panics' > panics, pc'[c] = "idle"
                   PROVE  Excused(c)
        BY DEF lbvars
    <2>2. panics \in Nat /\ panics' # panics
        BY <2>1 DEF IInv, TypeOK
    <2>3. PICK d \in Caller : Add(d)
        BY <2>1, <2>2 DEF LBNext, Ask, Answer, AskFails, Crash, Reduce, Use, Change, Land,
                          Discover, Store, Pick, selection, lbvars
    <2>4. size[d] = 0 /\ pc[d] = "add" /\ pc' = [pc EXCEPT ![d] = "idle"]
        BY <2>2, <2>3 DEF Add
    <2>5. d = c
        BY <2>1, <2>4 DEF IInv, TypeOK
    <2>6. QED
        BY <2>1, <2>4, <2>5 DEF LBInv, EmptyUnserved
<1>2. QED
    BY <1>1, LBInvariance, PTL DEF LBSpec, PanicOnlyUnserved

-----------------------------------------------------------------------------
(* Fairness of a single caller since the answer of Discover last changed.   *)

\* How many selections the element at i is away, when the next one is at n.
Ahead(n, i, len) == IF i >= n THEN i - n ELSE i - n + len

\* The elements that come sooner were selected less often, by one at most.
Turns(n) == \A i, j \in 0..(Len(Serving) - 1) :
    /\ since[i + 1] <= since[j + 1] + 1
    /\ Ahead(n, i, Len(Serving)) <= Ahead(n, j, Len(Serving)) => since[i + 1] <= since[j + 1]

Following == IF current = Len(Serving) - 1 THEN 0 ELSE current + 1

\* A counter that is out of the range of the present answer was left by another.
Even == since = Unselected
Resting == Even \/ (current \in 0..(Len(Serving) - 1) /\ Turns(Following))

\* Where the one call stands; one that a change overtook counts for nothing.
OneCaller(c) ==
    /\ since \in [1..MaxNodes -> Nat]
    /\ landing # Landed => Even /\ fresh = {}
    /\ pc[c] = "idle" => Resting
    /\ (pc[c] # "idle" \/ c \in asking) /\ c \notin fresh => Even
    /\ pc[c] # "idle" /\ c \in fresh =>
           /\ size[c] = Len(Serving)
           /\ pc[c] = "add" => Resting
           /\ pc[c] \in {"store", "pick"} => Even \/ Turns(next[c])
           /\ pc[c] = "pick" => current = next[c]

(* Discover answers the same as long as the registry does not change. *)
LEMMA ServingKept ==
    ASSUME UNCHANGED <<members, meta>>
    PROVE  Serving' = Serving
BY DEF Serving, Reg!Discover, Reg!Filter, Reg!IsAlive, Reg!State

(* Before the first selection the turns are anybody's. *)
LEMMA EvenTurns ==
    ASSUME RegInv, Even, NEW n
    PROVE  Turns(n)
<1>1. \A i \in 0..(Len(Serving) - 1) : i + 1 \in 1..MaxNodes
    BY ServingBounds, RoundRobinAssumption
<1>2. QED
    BY <1>1 DEF Even, Unselected, Turns

(* The element whose turn it is is selected, and comes last from then on. *)
LEMMA TurnsAdvance ==
    ASSUME RegInv, since \in [1..MaxNodes -> Nat],
           NEW n \in 0..(Len(Serving) - 1), Turns(n), Serving' = Serving,
           since' = [since EXCEPT ![n + 1] = @ + 1],
           NEW m, m = IF n = Len(Serving) - 1 THEN 0 ELSE n + 1
    PROVE  Turns(m)'
<1> DEFINE K == Len(Serving)
           Index == 0..(K - 1)
<1>1. K \in 1..MaxNodes /\ MaxNodes \in Nat
    <2>1. K \in 0..MaxNodes /\ MaxNodes \in Nat
        BY ServingBounds, RoundRobinAssumption
    <2>2. n \in 0..(K - 1)
        OBVIOUS
    <2> HIDE DEF K
    <2>3. QED
        BY <2>1, <2>2
<1> HIDE DEF K
<1>2. /\ \A i \in Index : i + 1 \in 1..MaxNodes /\ since[i + 1] \in Nat
      /\ n \in Index
    BY <1>1 DEF K
<1>3. /\ since'[n + 1] = since[n + 1] + 1
      /\ \A i \in Index \ {n} : since'[i + 1] = since[i + 1]
    BY <1>1, <1>2
<1>4. \A i \in Index : Ahead(n, i, K) \in Index
    BY <1>1, <1>2 DEF Ahead
<1>5. Ahead(n, n, K) = 0 /\ Ahead(m, n, K) = K - 1
    <2>1. n \in 0..(K - 1) /\ ((n = K - 1 /\ m = 0) \/ (n # K - 1 /\ m = n + 1))
        BY DEF K
    <2>2. CASE n = K - 1 /\ m = 0
        BY <1>1, <2>1, <2>2 DEF Ahead
    <2>3. CASE n # K - 1 /\ m = n + 1
        BY <1>1, <2>1, <2>3 DEF Ahead
    <2>4. QED
        BY <2>1, <2>2, <2>3
<1>6. ASSUME NEW i \in Index \ {n} PROVE Ahead(m, i, K) = Ahead(n, i, K) - 1
    <2>1. n \in 0..(K - 1) /\ ((n = K - 1 /\ m = 0) \/ (n # K - 1 /\ m = n + 1))
        BY DEF K
    <2>2. CASE n = K - 1 /\ m = 0
        BY <1>1, <2>1, <2>2 DEF Ahead
    <2>3. CASE n # K - 1 /\ m = n + 1
        BY <1>1, <2>1, <2>3 DEF Ahead
    <2>4. QED
        BY <2>1, <2>2, <2>3
<1>7. \A i, j \in Index : /\ since[i + 1] <= since[j + 1] + 1
                          /\ Ahead(n, i, K) <= Ahead(n, j, K) => since[i + 1] <= since[j + 1]
    BY DEF Turns, K
<1>8. ASSUME NEW i \in Index PROVE since[n + 1] <= since[i + 1]
    <2>1. Ahead(n, i, K) \in 0..(K - 1)
        BY <1>4
    <2>2. Ahead(n, n, K) <= Ahead(n, i, K)
        BY <1>1, <1>5, <2>1
    <2>3. QED
        BY <1>2, <1>7, <2>2
<1>9. ASSUME NEW i \in Index, NEW j \in Index
      PROVE  /\ since'[i + 1] <= since'[j + 1] + 1
             /\ Ahead(m, i, K) <= Ahead(m, j, K) => since'[i + 1] <= since'[j + 1]
    <2> HIDE DEF Index
    <2>1. since[i + 1] \in Nat /\ since[j + 1] \in Nat /\ since[n + 1] \in Nat
        BY <1>2
    <2>2. CASE i = n /\ j = n
        BY <1>3, <2>1, <2>2
    <2>3. CASE i = n /\ j # n
        <3>1. Ahead(n, j, K) \in 0..(K - 1) /\ Ahead(m, j, K) = Ahead(n, j, K) - 1
            BY <1>4, <1>6, <2>3 DEF Index
        <3>2. Ahead(m, i, K) = K - 1
            BY <1>5, <2>3
        <3>3. ~(Ahead(m, i, K) <= Ahead(m, j, K))
            BY <1>1, <3>1, <3>2
        <3>4. since[i + 1] <= since[j + 1]
            BY <1>8, <2>3
        <3>5. QED
            BY <1>3, <2>1, <2>3, <3>3, <3>4
    <2>4. CASE i # n /\ j = n
        BY <1>3, <1>7, <2>1, <2>4
    <2>5. CASE i # n /\ j # n
        <3>1. Ahead(n, i, K) \in Int /\ Ahead(n, j, K) \in Int
            BY <1>1, <1>4 DEF Index
        <3>2. Ahead(m, i, K) <= Ahead(m, j, K) => Ahead(n, i, K) <= Ahead(n, j, K)
            BY <1>6, <2>5, <3>1
        <3>3. QED
            BY <1>3, <1>7, <2>1, <2>5, <3>2
    <2>6. QED
        BY <2>2, <2>3, <2>4, <2>5
<1>10. QED
    BY <1>9 DEF Turns, K

(* The invariant of a single caller. *)
LEMMA OneCallerStep ==
    ASSUME NEW c, Caller = {c}, IInv, RegInv, LBInv, OneCaller(c), [LBNext]_lbvars
    PROVE  OneCaller(c)'
<1> USE DEF IInv, TypeOK
<1>1. CASE Land \/ AskFails(c) \/ Crash(c) \/ UNCHANGED lbvars
    <2>1. Serving' = Serving /\ UNCHANGED <<selection, since, fresh>>
        BY <1>1, ServingKept DEF Land, AskFails, Crash, Return, registry, lbvars, selection
    <2>2. asking' \subseteq asking /\ (landing' = landing \/ landing' = Landed)
        BY <1>1 DEF Land, AskFails, Crash, Return, lbvars
    <2>3. QED
        BY <2>1, <2>2 DEF selection, OneCaller, Resting, Even, Unselected, Turns, Following
<1>2. CASE Change
    <2>1. /\ UNCHANGED <<selection, asking>>
          /\ (UNCHANGED <<members, meta>> /\ UNCHANGED <<since, fresh>>)
                 \/ (since' = Unselected /\ fresh' = {})
          /\ UNCHANGED members => landing' = Landed
        BY <1>2 DEF Change
    <2>2. CASE since' = Unselected /\ fresh' = {}
        <3>1. Even' /\ since' \in [1..MaxNodes -> Nat]
            BY <2>2 DEF Even, Unselected
        <3>2. QED
            BY <2>2, <3>1 DEF OneCaller, Resting
    <2>3. CASE UNCHANGED <<members, meta>> /\ UNCHANGED <<since, fresh>>
        BY <2>1, <2>3, ServingKept
        DEF selection, OneCaller, Resting, Even, Unselected, Turns, Following
    <2>4. QED
        BY <2>1, <2>2, <2>3
<1>3. CASE Ask(c)
    <2>1. /\ Serving' = Serving /\ pc[c] = "idle"
          /\ UNCHANGED <<selection, since, landing>>
          /\ fresh' = IF landing = Landed THEN fresh \cup {c} ELSE fresh \ {c}
        BY <1>3, ServingKept DEF Ask, registry
    <2>2. Resting' /\ since' \in [1..MaxNodes -> Nat] /\ (Even' <=> Even)
        BY <2>1 DEF selection, OneCaller, Resting, Even, Unselected, Turns, Following
    <2>3. pc'[c] = "idle"
        BY <2>1 DEF selection
    <2>4. QED
        BY <2>1, <2>2, <2>3 DEF OneCaller
<1>4. CASE Answer(c)
    <2>1. PICK nodes \in IF c \in fresh THEN {Serving} ELSE Overtaken(window[c]) :
              Discover(c, Len(nodes))
        BY <1>4 DEF Answer
    <2>2. /\ Serving' = Serving /\ pc[c] = "idle" /\ pc' = [pc EXCEPT ![c] = "add"]
          /\ size' = [size EXCEPT ![c] = Len(nodes)] /\ c \in asking
          /\ UNCHANGED <<current, since, fresh, landing>>
        BY <1>4, <2>1, ServingKept DEF Answer, Return, Discover, registry
    <2>3. Resting' /\ since' \in [1..MaxNodes -> Nat] /\ (Even' <=> Even)
        BY <2>2 DEF OneCaller, Resting, Even, Unselected, Turns, Following
    <2>4. c \in fresh => size'[c] = Len(Serving')
        BY <2>1, <2>2
    <2>5. QED
        BY <2>2, <2>3, <2>4 DEF OneCaller
<1>5. CASE Reduce(c)
    <2>1. /\ Serving' = Serving /\ UNCHANGED <<since, fresh, asking, landing>>
          /\ since' \in [1..MaxNodes -> Nat]
        BY <1>5, ServingKept DEF Reduce, registry, OneCaller
    <2>2. /\ Even' <=> Even
          /\ \A n : Turns(n)' <=> Turns(n)
        BY <2>1 DEF Even, Unselected, Turns
    <2>3. CASE Add(c)
        <3>1. CASE size[c] = 0
            <4>1. pc[c] = "add" /\ pc' = [pc EXCEPT ![c] = "idle"]
                BY <2>3, <3>1 DEF Add
            <4>2. Even
                BY <3>1, <4>1, ServingBounds DEF OneCaller, Resting
            <4>3. QED
                BY <2>1, <2>2, <4>1, <4>2 DEF OneCaller, Resting
        <3>2. CASE size[c] # 0
            <4>1. /\ pc[c] = "add" /\ pc' = [pc EXCEPT ![c] = "store"]
                  /\ next' = [next EXCEPT ![c] = (current + 1) % size[c]] /\ size' = size
                BY <2>3, <3>2 DEF Add
            <4>2. CASE c \notin fresh
                BY <2>1, <2>2, <4>1, <4>2 DEF OneCaller
            <4>3. CASE c \in fresh /\ Even
                BY <2>1, <2>2, <4>1, <4>3 DEF OneCaller
            <4>4. CASE c \in fresh /\ ~Even
                <5>1. size[c] = Len(Serving) /\ current \in 0..(size[c] - 1) /\ Turns(Following)
                    BY <4>1, <4>4 DEF OneCaller, Resting
                <5>2. size[c] \in Nat \ {0}
                    BY <3>2, <5>1, ServingBounds
                <5>3. (current + 1) % size[c] = Following
                    BY <5>1, <5>2, RemainderOfNext DEF Following
                <5>4. next'[c] = Following
                    BY <4>1, <5>3
                <5>5. Turns(next'[c])
                    BY <5>1, <5>4
                <5>6. Turns(next[c])'
                    BY <5>5, <2>1 DEF Turns
                <5>7. size'[c] = Len(Serving') /\ c \in fresh' /\ pc'[c] = "store"
                    BY <2>1, <4>1, <4>4, <5>1
                <5>8. QED
                    BY <2>1, <5>6, <5>7 DEF OneCaller
            <4>5. QED
                BY <4>2, <4>3, <4>4
        <3>3. QED
            BY <3>1, <3>2
    <2>4. CASE Store(c)
        <3>1. /\ pc[c] = "store" /\ pc' = [pc EXCEPT ![c] = "pick"]
              /\ current' = next[c] /\ UNCHANGED <<size, next>>
            BY <2>4 DEF Store
        <3>2. Turns(next[c])' <=> Turns(next[c])
            BY <2>1, <3>1 DEF Turns
        <3>3. QED
            BY <2>1, <2>2, <3>1, <3>2 DEF OneCaller
    <2>5. QED
        BY <1>5, <2>3, <2>4 DEF Reduce
<1>6. CASE Use(c)
    <2>1. /\ pc[c] = "pick" /\ pc' = [pc EXCEPT ![c] = "idle"] /\ Serving' = Serving
          /\ since' = IF c \in fresh THEN [since EXCEPT ![next[c] + 1] = @ + 1] ELSE since
          /\ UNCHANGED <<current, next, fresh, asking, landing>>
        BY <1>6, ServingKept DEF Use, Pick, registry
    <2>2. CASE c \notin fresh
        <3>1. Even
            BY <2>1, <2>2 DEF OneCaller
        <3>2. Even' /\ since' \in [1..MaxNodes -> Nat]
            BY <2>1, <2>2, <3>1 DEF Even, Unselected
        <3>3. QED
            BY <2>1, <3>2 DEF OneCaller, Resting
    <2>3. CASE c \in fresh
        <3>1. /\ size[c] = Len(Serving) /\ current = next[c]
              /\ next[c] \in 0..(Len(Serving) - 1) /\ since \in [1..MaxNodes -> Nat]
            BY <2>1, <2>3, ServingBounds DEF OneCaller, PickInRange
        <3>2. Turns(next[c])
            BY <2>1, <2>3, EvenTurns DEF OneCaller
        <3>3. since' = [since EXCEPT ![next[c] + 1] = @ + 1]
            BY <2>1, <2>3
        <3>4. Following' = IF next[c] = Len(Serving) - 1 THEN 0 ELSE next[c] + 1
            BY <2>1, <3>1 DEF Following
        <3>5. Turns(IF next[c] = Len(Serving) - 1 THEN 0 ELSE next[c] + 1)'
            BY <2>1, <3>1, <3>2, <3>3, TurnsAdvance
        <3>6. Turns(Following)'
            BY <2>1, <3>4, <3>5 DEF Turns
        <3>7. current' \in 0..(Len(Serving)' - 1)
            BY <2>1, <3>1
        <3>8. since' \in [1..MaxNodes -> Nat]
            <4>1. next[c] + 1 \in 1..MaxNodes
                BY <3>1, ServingBounds, RoundRobinAssumption
            <4>2. QED
                BY <3>1, <3>3, <4>1
        <3>9. landing' = Landed /\ pc'[c] = "idle" /\ c \in fresh'
            BY <2>1, <2>3 DEF OneCaller
        <3>10. Resting'
            BY <3>6, <3>7 DEF Resting
        <3>11. QED
            BY <3>8, <3>9, <3>10 DEF OneCaller
    <2>4. QED
        BY <2>2, <2>3
<1>7. QED
    BY <1>1, <1>2, <1>3, <1>4, <1>5, <1>6 DEF LBNext

\* A single caller selects the nodes in turn from the moment the answer of
\* Discover last changed, whatever value the counter was left with by a longer or
\* a shorter answer and whatever call the change overtook.
THEOREM OneCallerInTurn ==
    ASSUME NEW c, Caller = {c}
    PROVE  LBSpec => []FairSinceChange
<1>1. LBInit => OneCaller(c)
    BY DEF LBInit, Init, OneCaller, Resting, Even, Unselected
<1>2. IInv /\ RegInv /\ LBInv /\ OneCaller(c) /\ [LBNext]_lbvars => OneCaller(c)'
    BY OneCallerStep
<1>3. IInv /\ RegInv /\ OneCaller(c) => FairSinceChange
    <2>1. SUFFICES ASSUME IInv, RegInv, OneCaller(c),
                          NEW i \in DOMAIN Serving, NEW j \in DOMAIN Serving
                   PROVE  since[i] <= since[j] + 1
        BY DEF FairSinceChange
    <2>2. \E n : Turns(n)
        BY <2>1, EvenTurns DEF OneCaller, Resting, IInv, TypeOK
    <2>3. i - 1 \in 0..(Len(Serving) - 1) /\ j - 1 \in 0..(Len(Serving) - 1)
          /\ (i - 1) + 1 = i /\ (j - 1) + 1 = j
        BY <2>1, ServingBounds
    <2>4. QED
        BY <2>2, <2>3 DEF Turns
<1>4. QED
    BY <1>1, <1>2, <1>3, LBInvariance, PTL DEF LBSpec
=============================================================================
