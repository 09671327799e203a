----------------------------- MODULE Registry -----------------------------
(***************************************************************************)
(* The service registry of one process: svc/registry, node.go and          *)
(* eventdelegate.go.  The gossip library (hashicorp/memberlist, external)  *)
(* keeps one record per known node and, holding its own lock, tells the    *)
(* registry of every change through NotifyJoin, NotifyLeave and            *)
(* NotifyUpdate.  The registry keeps the slice `members' of pointers to    *)
(* those records, and Discover walks it.  Here the callbacks and Discover  *)
(* are atomic; MemberSlice.tla takes them apart into memory accesses.      *)
(***************************************************************************)
EXTENDS Naturals, Sequences

CONSTANTS
    Node,       \* addresses of memberlist.Node records
    Service,    \* service names
    Meta,       \* what a node may announce as its meta data: a service name
                \* stands for JSON naming that service, anything else for
                \* bytes json.Unmarshal rejects
    MaxMembers  \* bound of the model on len(members)

ASSUME RegistryAssumption == /\ Service \subseteq Meta
                             /\ Meta # {}
                             /\ MaxMembers \in Nat

VARIABLES
    status,   \* the state the library acts on: "dead" also when there is no record
    meta,     \* member.Meta of every record
    members,  \* registry.members
    process,  \* "running", or "panicked" once a callback indexed with -1
    tainted   \* history: the nodes that ever announced unparsable meta data

vars == <<status, meta, members, process, tainted>>

Parsable(m) == m \in Service
Live == {n \in Node : status[n] \in {"alive", "suspect"}}
Listed == {members[i] : i \in DOMAIN members}

Init == /\ status = [n \in Node |-> "dead"]
        /\ meta = [n \in Node |-> CHOOSE m \in Meta : TRUE]  \* no record, never read
        /\ members = << >>
        /\ process = "running"
        /\ tainted = {}

-----------------------------------------------------------------------------
(* Mutants, which no run uses: plausible mistakes in the code they precede. *)
MutIndexOfAny(n, s) ==      \* the search starts at the second element
    IF \E i \in 2..Len(s) : s[i] = n THEN CHOOSE i \in 2..Len(s) : s[i] = n ELSE 0
MutWithoutBlank(s, i) == [s EXCEPT ![i] = 0]          \* nil instead of removed
MutWithoutNext(s, i) ==                              \* off by one
    [j \in 1..(Len(s) - 1) |-> IF j <= i THEN s[j] ELSE s[j + 1]]
MutIsAlive(k) == status[members[k]] = "alive"        \* a library that fills Node.State in

(* sliceutils.IndexOfAny: the first position of a pointer; 0 stands for the *)
(* code's -1, TLA+ sequences starting at 1.                                 *)
IndexOfAny(n, s) ==
    IF \E i \in DOMAIN s : s[i] = n
    THEN CHOOSE i \in DOMAIN s : s[i] = n /\ \A j \in 1..(i - 1) : s[j] # n
    ELSE 0

(* append(s[:i], s[i+1:]...) *)
Without(s, i) == [j \in 1..(Len(s) - 1) |-> IF j < i THEN s[j] ELSE s[j + 1]]

(* The callbacks: m is the meta data in the record when they run. *)
NotifyJoin(n, m) ==
    /\ members' = IF Parsable(m) THEN Append(members, n) ELSE members
    /\ UNCHANGED process

NotifyLeave(n, m) ==
    LET i == IndexOfAny(n, members) IN
    \/ /\ ~Parsable(m)
       /\ UNCHANGED <<members, process>>
    \/ /\ Parsable(m) /\ i = 0          \* members[:-1] panics
       /\ process' = "panicked"
       /\ UNCHANGED members
    \/ /\ Parsable(m) /\ i # 0
       /\ members' = Without(members, i)
       /\ UNCHANGED process

NotifyUpdate(n, m) ==
    LET i == IndexOfAny(n, members) IN
    \/ /\ ~Parsable(m)
       /\ UNCHANGED <<members, process>>
    \/ /\ Parsable(m) /\ i = 0          \* members[-1] = node panics
       /\ process' = "panicked"
       /\ UNCHANGED members
    \/ /\ Parsable(m) /\ i # 0
       /\ members' = [members EXCEPT ![i] = n]
       /\ UNCHANGED process

-----------------------------------------------------------------------------
(* What the library does to a record, and which callback it makes.          *)

Announce(n, m) ==
    /\ status' = [status EXCEPT ![n] = "alive"]
    /\ meta' = [meta EXCEPT ![n] = m]
    /\ tainted' = IF Parsable(m) THEN tainted ELSE tainted \cup {n}

\* An unknown or dead node is heard of: alive, with the meta data it sent.
Join(n, m) ==
    /\ n \notin Live
    /\ Len(members) < MaxMembers
    /\ Announce(n, m)
    /\ NotifyJoin(n, m)

\* A live node announces other meta data (it restarted under its name).
Update(n, m) ==
    /\ n \in Live
    /\ m # meta[n]
    /\ Announce(n, m)
    /\ NotifyUpdate(n, m)

\* A live node leaves or is declared dead; its meta data is kept.
Leave(n) ==
    /\ n \in Live
    /\ status' = [status EXCEPT ![n] = "dead"]
    /\ NotifyLeave(n, meta[n])
    /\ UNCHANGED <<meta, tainted>>

\* A probe fails, or a suspicion is refuted: no callback is made.
Probe(n) ==
    /\ n \in Live
    /\ status' = [status EXCEPT ![n] = IF @ = "alive" THEN "suspect" ELSE "alive"]
    /\ UNCHANGED <<meta, members, process, tainted>>

Next == /\ process = "running"
        /\ \E n \in Node : \/ \E m \in Meta : Join(n, m) \/ Update(n, m)
                           \/ Leave(n)
                           \/ Probe(n)

Spec == Init /\ [][Next]_vars

-----------------------------------------------------------------------------
(* registry.Discover.  It walks the slice in order, fails as a whole on the *)
(* first member it cannot parse whose State is StateAlive, and else returns *)
(* the members of the service with that State.  State is the field of       *)
(* memberlist.Node, and memberlist (v0.2.4) never writes it: it keeps its   *)
(* `status' in the record around the Node.  The field stays at its zero     *)
(* value, which is StateAlive, and the check passes for every member.       *)
State(n) == "alive"
IsAlive(k) == State(members[k]) = "alive"
DiscoverFails == \E k \in DOMAIN members : IsAlive(k) /\ ~Parsable(meta[members[k]])

\* if ... { nodes = append(nodes, s[k]) }, for the positions K, in order.
Filter(s, K) == LET nodes[k \in 0..Len(s)] == IF k = 0 THEN << >>
                                              ELSE IF k \in K THEN Append(nodes[k - 1], s[k])
                                              ELSE nodes[k - 1]
                IN nodes[Len(s)]
Discover(svc) ==
    Filter(members, {k \in DOMAIN members : IsAlive(k) /\ meta[members[k]] = svc})

-----------------------------------------------------------------------------
(* Properties *)

TypeOK == /\ status \in [Node -> {"alive", "suspect", "dead"}]
          /\ meta \in [Node -> Meta]
          /\ members \in Seq(Node)
          /\ process \in {"running", "panicked"}
          /\ tainted \in SUBSET Node

\* A node that always announced parsable meta data is in members exactly
\* once while it is live and not at all otherwise, whatever the other nodes
\* announced: the callbacks of eventdelegate.go keep, for each such node,
\* one entry per join and remove that very entry.
MembersExact ==
    \A n \in Node \ tainted :
        /\ n \in Listed <=> n \in Live
        /\ \A i, j \in DOMAIN members :
               members[i] = n /\ members[j] = n => i = j

\* The unguarded index of NotifyLeave and NotifyUpdate is -1 only after some
\* node announced meta data that NotifyJoin or NotifyUpdate had to ignore.
PanicNeedsTaint == process = "panicked" => tainted # {}

\* Discover answers exactly the live nodes of the service, each once, when no
\* node of the cluster ever announced unparsable meta data: the alive ones and,
\* since its check of State filters nothing, also those the library suspects
\* and has not given up.  It fails only because of a listed node that did.
DiscoverExact ==
    process = "running" =>
        /\ DiscoverFails => Listed \cap tainted # {}
        /\ tainted = {} => \A svc \in Service :
              LET found == Discover(svc)
                  Found == {found[i] : i \in DOMAIN found}
              IN /\ Found = {n \in Live : meta[n] = svc}
                 /\ \A i, j \in DOMAIN found : found[i] = found[j] => i = j

\* The slice of the code implements the abstract directory of the nodes that
\* only ever announced meta data that can be parsed, whatever the others
\* announce: announcing such meta data for the first time withdraws a node
\* from the directory, since the callbacks promise nothing about it any more.
Dir == INSTANCE Directory WITH live <- Live \ tainted, listed <- Listed \ tainted
DirSpec == Dir!Spec
============================================================================
