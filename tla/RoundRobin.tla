---------------------------- MODULE RoundRobin ----------------------------
(***************************************************************************)
(* MemberlistServiceProvider.SelectServer, svc/http/client.go:95-104:      *)
(*                                                                         *)
(*   nodes, err := m.registry.Discover(m.name)                             *)
(*   next := int(atomic.AddUint64(&m.current, 1) % uint64(len(nodes)))     *)
(*   m.current = uint64(next)                                              *)
(*   return nodes[next].BaseUrl()                                          *)
(*                                                                         *)
(* One provider is shared by the goroutines that call a generated client.  *)
(* The addition is atomic, the store after it is not part of it.  How many *)
(* nodes Discover answers is left open (any number in Sizes);              *)
(* LoadBalancer.tla supplies the registry.                                 *)
(***************************************************************************)
EXTENDS Integers, FiniteSets

CONSTANTS
    Caller,    \* the goroutines that call SelectServer
    Sizes,     \* how many nodes Discover may answer
    MaxNodes,  \* the largest of them
    MaxCalls   \* bound of the model on the number of selections

ASSUME RoundRobinAssumption == /\ IsFiniteSet(Caller)
                               /\ MaxNodes \in Nat \ {0}
                               /\ Sizes \subseteq 0..MaxNodes
                               /\ MaxCalls \in Nat

VARIABLES
    current,   \* m.current
    pc,        \* where each call stands
    size,      \* len(nodes) of each call
    next,      \* next of each call
    calls,     \* history: the number of selections begun
    panics,    \* history: the number of selections that panicked
    turns,     \* history: how often each index was selected
    serial     \* history: no two selections overlapped so far, and each got
               \* the same MaxNodes nodes

vars == <<current, pc, size, next, calls, panics, turns, serial>>

Init == /\ current = 0
        /\ pc = [c \in Caller |-> "idle"]
        /\ size = [c \in Caller |-> 0]
        /\ next = [c \in Caller |-> 0]
        /\ calls = 0
        /\ panics = 0
        /\ turns = [i \in 0..(MaxNodes - 1) |-> 0]
        /\ serial = TRUE

Quiet == \A c \in Caller : pc[c] = "idle"

\* Discover answers; an error from it ends the call before it begins here.
Discover(c, n) ==
    /\ pc[c] = "idle" /\ calls < MaxCalls
    /\ size' = [size EXCEPT ![c] = n]
    /\ pc' = [pc EXCEPT ![c] = "add"]
    /\ calls' = calls + 1
    /\ serial' = (serial /\ Quiet /\ n = MaxNodes)
    /\ UNCHANGED <<current, next, panics, turns>>

\* Mutants, which no run uses: plausible mistakes in the code they precede.
MutAddBy(c, n, after) ==
    /\ pc[c] = "add" /\ size[c] # 0
    /\ current' = current + 1
    /\ pc' = [pc EXCEPT ![c] = "store"]
    /\ next' = [next EXCEPT ![c] = after % n]
    /\ UNCHANGED <<size, calls, panics, turns, serial>>
MutAddOld(c) == MutAddBy(c, size[c], current)            \* the value before
MutAddWide(c) == MutAddBy(c, MaxNodes, current + 1)      \* another length
MutStoreNot(c) ==                                        \* no store
    /\ pc[c] = "store"
    /\ pc' = [pc EXCEPT ![c] = "pick"]
    /\ UNCHANGED <<current, size, next, calls, panics, turns, serial>>

\* The atomic addition, and the remainder of its result: by 0 it panics,
\* which ends the goroutine or, recovered by net/http, the request it serves.
Add(c) ==
    /\ pc[c] = "add"
    /\ current' = current + 1
    /\ \/ /\ size[c] = 0
          /\ pc' = [pc EXCEPT ![c] = "idle"]
          /\ panics' = panics + 1
          /\ UNCHANGED next
       \/ /\ size[c] # 0
          /\ pc' = [pc EXCEPT ![c] = "store"]
          /\ next' = [next EXCEPT ![c] = (current + 1) % size[c]]
          /\ UNCHANGED panics
    /\ UNCHANGED <<size, calls, turns, serial>>

\* m.current = uint64(next)
Store(c) ==
    /\ pc[c] = "store"
    /\ current' = next[c]
    /\ pc' = [pc EXCEPT ![c] = "pick"]
    /\ UNCHANGED <<size, next, calls, panics, turns, serial>>

\* nodes[next]
Pick(c) ==
    /\ pc[c] = "pick"
    /\ turns' = [turns EXCEPT ![next[c]] = @ + 1]
    /\ pc' = [pc EXCEPT ![c] = "idle"]
    /\ UNCHANGED <<current, size, next, calls, panics, serial>>

Step(c) == \/ \E n \in Sizes : Discover(c, n)
           \/ Add(c)
           \/ Store(c)
           \/ Pick(c)

Next == \E c \in Caller : Step(c)

Spec == Init /\ [][Next]_vars

-----------------------------------------------------------------------------
(* Properties *)

TypeOK == /\ current \in Nat
          /\ pc \in [Caller -> {"idle", "add", "store", "pick"}]
          /\ size \in [Caller -> 0..MaxNodes]
          /\ next \in [Caller -> 0..(MaxNodes - 1)]
          /\ calls \in Nat /\ panics \in Nat
          /\ turns \in [0..(MaxNodes - 1) -> Nat]
          /\ serial \in BOOLEAN

\* nodes[next] is never out of range, whatever the other calls do to the
\* counter in between: next was reduced by the length of this call's nodes.
PickInRange == \A c \in Caller : pc[c] \in {"store", "pick"} => next[c] < size[c]

\* A call owns at most one of the counter between its addition and its store,
\* and forever if it panicked: current stays below the number of nodes plus
\* the number of such calls, so that only as many selections from no nodes
\* could bring it near the end of its 64 bits or make the int negative.
Adding == {c \in Caller : pc[c] = "store"}
CounterBounded == current < MaxNodes + Cardinality(Adding) + panics

\* Round robin: whenever no selection is under way, no node has been selected
\* more than once more often than another.
FairTurns == Quiet => \A i, j \in 0..(MaxNodes - 1) : turns[i] <= turns[j] + 1

\* The store after the addition is harmless as long as selections do not
\* overlap: whichever goroutines make them, the nodes get their turns.
SerialFairTurns == serial => FairTurns
============================================================================
