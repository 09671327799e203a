---------------------------- MODULE MemberSlice ----------------------------
(***************************************************************************)
(* The registry of Registry.tla at the grain of memory accesses.           *)
(* registry.members is a Go slice, a pointer and a length over a backing   *)
(* array.  memberlist runs the callbacks one at a time, but Discover takes *)
(* no lock (svc/registry/node.go:47-70), so its loads interleave with the  *)
(* stores of a callback.  That is a data race: the stores of a callback    *)
(* may become visible in any order.                                        *)
(*                                                                         *)
(* Nothing ever shrinks the slice: each growslice allocates an array larger*)
(* than the last, so the pointer can be modelled by the number k of the    *)
(* array, 0 being the nil slice.  How much larger is growslice's choice    *)
(* (it doubles at first, then adds a quarter and rounds to a size class):  *)
(* Cap says it.                                                            *)
(***************************************************************************)
EXTENDS Naturals, Sequences

CONSTANTS
    Node, Service, Meta,  \* as in Registry.tla
    Svc,                  \* the service Discover is asked for
    Nil,                  \* what an unused slot of a backing array holds
    MaxArrays,            \* bound of the model on the number of backing arrays
    Cap,                  \* the capacity of each of them
    MaxOverlap            \* bound of the model on the callbacks during a Discover

ASSUME MemberSliceAssumption == /\ Svc \in Service /\ Service \subseteq Meta
                                /\ Nil \notin Node
                                /\ MaxArrays \in Nat \ {0}
                                /\ Cap \in [0..MaxArrays -> Nat] /\ Cap[0] = 0
                                /\ \A k \in 1..MaxArrays : Cap[k - 1] < Cap[k]
                                /\ MaxOverlap \in Nat

VARIABLES
    status, meta, process, tainted,  \* as in Registry.tla
    mem,      \* the memory: header words and slots
    running,  \* the callback that is running, <<kind, node>>
    stores,   \* what it has still to store, word |-> value
    pc,       \* where Discover stands
    header,   \* the header words Discover has loaded, word |-> value
    at,       \* the slot Discover loads next
    member,   \* the pointer Discover has loaded from a slot
    found,    \* the nodes Discover has appended to its answer
    outcome,  \* how Discover ended
    overlap,  \* history: the kinds of the callbacks that ran during Discover
    seen,     \* history: the nodes listed at some moment of Discover
    kept      \* history: the nodes listed and of Svc throughout

writer == <<status, meta, process, tainted, mem, running, stores>>
reader == <<pc, header, at, member, found, outcome>>
vars == <<status, meta, process, tainted, mem, running, stores,
          pc, header, at, member, found, outcome, overlap, seen, kept>>

-----------------------------------------------------------------------------
(* Memory.  Slot i of backing array k is the word <<k, i>>.                 *)
PtrWord == <<0, 1>>
LenWord == <<0, 2>>
Slots == UNION {{k} \X (1..Cap[k]) : k \in 1..MaxArrays}

None == <<"none", Nil>>
Idle == running = None      \* memberlist's lock is free

\* The list the slice stands for once the running callback has finished.
Settled == [w \in DOMAIN mem |-> IF w \in DOMAIN stores THEN stores[w] ELSE mem[w]]
List == [i \in 1..Settled[LenWord] |-> Settled[<<Settled[PtrWord], i>>]]

R == INSTANCE Registry WITH members <- List, MaxMembers <- Cap[MaxArrays]

Init == /\ status = [n \in Node |-> "dead"]
        /\ meta = [n \in Node |-> CHOOSE m \in Meta : TRUE]
        /\ process = "running" /\ tainted = {}
        /\ mem = [w \in Slots \cup {PtrWord, LenWord} |-> IF w \in Slots THEN Nil ELSE 0]
        /\ running = None /\ stores = << >>
        /\ pc = "idle" /\ header = << >> /\ at = 0 /\ member = Nil
        /\ found = << >> /\ outcome = "none"
        /\ overlap = << >> /\ seen = {} /\ kept = {}

-----------------------------------------------------------------------------
(* The callbacks of eventdelegate.go.  Each fixes its stores when it starts *)
(* and holds memberlist's lock until the last of them is made.              *)

\* Mutants, which no run uses: plausible mistakes in the code they precede.
MutStoreAppend(n) ==                 \* the new array is not filled
    LET k == mem[PtrWord]
        l == mem[LenWord]
        g == IF l < Cap[k] THEN k ELSE k + 1
    IN /\ stores' = [w \in {PtrWord, LenWord, <<g, l + 1>>} |->
                         IF w = PtrWord THEN g ELSE IF w = LenWord THEN l + 1 ELSE n]
       /\ running' = <<"append", n>>
       /\ UNCHANGED mem
MutStoreRemove(n, i) ==              \* the slot left over is cleared
    LET k == mem[PtrWord]
        l == mem[LenWord]
    IN /\ stores' = [w \in {LenWord} \cup ({k} \X (i..l)) |->
                         IF w = LenWord THEN l - 1
                         ELSE IF w[2] = l THEN Nil ELSE mem[<<k, w[2] + 1>>]]
       /\ running' = <<"leave", n>>
       /\ UNCHANGED mem

\* members = append(members, n): in place while the capacity lasts, else in
\* a new array that holds a copy before the header points to it.
StoreAppend(n) ==
    LET k == mem[PtrWord]
        l == mem[LenWord]
    IN IF l < Cap[k]
       THEN /\ stores' = [w \in {LenWord, <<k, l + 1>>} |->
                              IF w = LenWord THEN l + 1 ELSE n]
            /\ running' = <<"append", n>>
            /\ UNCHANGED mem
       ELSE /\ stores' = [w \in {PtrWord, LenWord, <<k + 1, l + 1>>} |->
                              IF w = PtrWord THEN k + 1
                              ELSE IF w = LenWord THEN l + 1 ELSE n]
            /\ running' = <<"grow", n>>
            /\ mem' = [w \in DOMAIN mem |-> IF w \in {k + 1} \X (1..l)
                                            THEN mem[<<k, w[2]>>] ELSE mem[w]]

\* members = append(members[:i], members[i+1:]...): the rest of the slice
\* moves down one slot of the same array; the slot it leaves keeps its value.
StoreRemove(n, i) ==
    LET k == mem[PtrWord]
        l == mem[LenWord]
    IN /\ stores' = [w \in {LenWord} \cup ({k} \X (i..(l - 1))) |->
                         IF w = LenWord THEN l - 1 ELSE mem[<<k, w[2] + 1>>]]
       /\ running' = <<"leave", n>>
       /\ UNCHANGED mem

NoStore == UNCHANGED <<mem, running, stores>>

Join(n, m) ==
    /\ Idle /\ n \notin R!Live /\ mem[LenWord] < Cap[MaxArrays]
    /\ R!Announce(n, m)
    /\ IF R!Parsable(m) THEN StoreAppend(n) ELSE NoStore
    /\ UNCHANGED process

Leave(n) ==
    LET i == R!IndexOfAny(n, List) IN
    /\ Idle /\ n \in R!Live
    /\ status' = [status EXCEPT ![n] = "dead"]
    /\ \/ ~R!Parsable(meta[n]) /\ NoStore /\ UNCHANGED process
       \/ R!Parsable(meta[n]) /\ i = 0 /\ NoStore /\ process' = "panicked"
       \/ R!Parsable(meta[n]) /\ i # 0 /\ StoreRemove(n, i) /\ UNCHANGED process
    /\ UNCHANGED <<meta, tainted>>

\* members[index] = node stores the pointer that the slot already holds.
Update(n, m) ==
    /\ Idle /\ n \in R!Live /\ m # meta[n]
    /\ R!Announce(n, m)
    /\ process' = IF R!Parsable(m) /\ R!IndexOfAny(n, List) = 0 THEN "panicked"
                                                              ELSE process
    /\ NoStore

Probe(n) ==
    /\ Idle /\ n \in R!Live
    /\ status' = [status EXCEPT ![n] = IF @ = "alive" THEN "suspect" ELSE "alive"]
    /\ NoStore
    /\ UNCHANGED <<meta, process, tainted>>

\* One store of the running callback becomes visible; the last one ends it.
Store(w) ==
    /\ mem' = [mem EXCEPT ![w] = stores[w]]
    /\ stores' = [v \in DOMAIN stores \ {w} |-> stores[v]]
    /\ running' = IF DOMAIN stores = {w} THEN None ELSE running
    /\ UNCHANGED <<status, meta, process, tainted>>

Callback ==
    /\ \/ \E n \in Node : \/ \E m \in Meta : Join(n, m) \/ Update(n, m)
                          \/ Leave(n)
                          \/ Probe(n)
       \/ \E w \in DOMAIN stores : Store(w)
    /\ UNCHANGED reader

-----------------------------------------------------------------------------
(* One Discover(Svc), started at any moment.                                *)

Start ==
    /\ pc = "idle"
    /\ pc' = "header"
    /\ UNCHANGED <<header, at, member, found, outcome>>

\* range copies the slice header: two loads, in an order the compiler chose.
LoadHeader(w) ==
    /\ pc = "header"
    /\ w \in {PtrWord, LenWord} \ DOMAIN header
    /\ header' = [v \in DOMAIN header \cup {w} |-> IF v = w THEN mem[w] ELSE header[v]]
    /\ IF DOMAIN header = {} THEN UNCHANGED <<pc, at>> ELSE pc' = "slot" /\ at' = 1
    /\ UNCHANGED <<member, found, outcome>>

End(o) == /\ pc' = "done"
          /\ outcome' = o
          /\ header' = << >> /\ at' = 0 /\ member' = Nil
          /\ UNCHANGED found

\* Mutants of the two loads below.
MutLoadSlot ==                       \* the last element is left out
    /\ pc = "slot"
    /\ IF at >= header[LenWord] THEN End("ok")
       ELSE IF at > Cap[header[PtrWord]] THEN End("wild")
       ELSE /\ member' = mem[<<header[PtrWord], at>>]
            /\ pc' = "member"
            /\ UNCHANGED <<header, at, found, outcome>>
MutLoadSlotAll ==                    \* the array is walked to its capacity
    /\ pc = "slot"
    /\ IF at > Cap[header[PtrWord]] THEN End("ok")
       ELSE /\ member' = mem[<<header[PtrWord], at>>]
            /\ pc' = "member"
            /\ UNCHANGED <<header, at, found, outcome>>
MutLoadMemberOnce ==                 \* break after the first match
    /\ pc = "member"
    /\ IF member = Nil THEN End("nil")
       ELSE IF found # << >> THEN End("ok")
       ELSE /\ found' = Append(found, member)
            /\ pc' = "slot" /\ at' = at + 1
            /\ UNCHANGED <<header, member, outcome>>

\* The next element, by the header that was copied: beyond the capacity of
\* the array it points to, the load reads memory of something else.
LoadSlot ==
    /\ pc = "slot"
    /\ IF at > header[LenWord] THEN End("ok")
       ELSE IF at > Cap[header[PtrWord]] THEN End("wild")
       ELSE /\ member' = mem[<<header[PtrWord], at>>]
            /\ pc' = "member"
            /\ UNCHANGED <<header, at, found, outcome>>

\* The element's State and Meta, read through the pointer.  State is the
\* field that memberlist never writes (R!State), so only Meta decides.
LoadMember ==
    /\ pc = "member"
    /\ IF member = Nil THEN End("nil")
       ELSE IF ~R!Parsable(meta[member]) THEN End("error")
       ELSE /\ found' = IF meta[member] = Svc THEN Append(found, member) ELSE found
            /\ pc' = "slot" /\ at' = at + 1
            /\ UNCHANGED <<header, member, outcome>>

Discover == /\ \/ Start
               \/ \E w \in {PtrWord, LenWord} : LoadHeader(w)
               \/ LoadSlot
               \/ LoadMember
            /\ UNCHANGED writer

-----------------------------------------------------------------------------
\* The history: what the cluster and the callbacks did while Discover ran.
Serving == {n \in R!Listed : meta[n] = Svc}

Observe ==
    \/ /\ pc' = "idle"
       /\ UNCHANGED <<overlap, seen, kept>>
    \/ /\ pc = "idle" /\ pc' = "header"
       /\ overlap' = IF Idle THEN << >> ELSE <<running[1]>>
       /\ seen' = R!Listed \cup ({running[2]} \ {Nil})
       /\ kept' = Serving \ {running[2]}
    \/ /\ pc # "idle"
       /\ overlap' = IF Idle /\ running' # None THEN Append(overlap, running'[1])
                                               ELSE overlap
       /\ Len(overlap') <= MaxOverlap
       /\ seen' = seen \cup R!Listed'
       /\ kept' = kept \cap Serving'

\* A panic in a callback or in Discover ends the process.
Next == /\ process = "running" /\ pc # "done"
        /\ Callback \/ Discover
        /\ Observe

Spec == Init /\ [][Next]_vars

\* The callbacks alone, without a reader.
WriterNext == /\ process = "running"
              /\ Callback
              /\ UNCHANGED <<overlap, seen, kept>>
WriterSpec == Init /\ [][WriterNext]_vars

-----------------------------------------------------------------------------
(* Properties *)

\* The slice with its in-place shifts, its reused slots and its growth
\* behaves, callback by callback, as the list of Registry.tla.
SliceIsList == R!Spec

Found == {found[i] : i \in DOMAIN found}
Overlap == {overlap[i] : i \in DOMAIN overlap}

\* A Discover during which no callback stored anything answers every node
\* that was listed and of the service throughout, only nodes that were listed,
\* and each of those that always announced parsable meta data once.
CalmDiscoverExact ==
    outcome = "ok" /\ overlap = << >> =>
        /\ kept \subseteq Found /\ Found \subseteq seen
        /\ \A i, j \in DOMAIN found :
               found[i] = found[j] /\ found[i] \notin tainted => i = j

\* A Discover during which only joins ran misses no node that was listed and
\* of the service throughout: only a leave can hide another node.
JoinsHideNothing ==
    outcome = "ok" /\ "leave" \notin Overlap => kept \subseteq Found

\* Discover dereferences a nil pointer only if an append ran meanwhile, and
\* reads beyond the backing array only if the slice was reallocated.
CrashNeedsJoin ==
    /\ outcome = "nil" => Overlap \cap {"append", "grow"} # {}
    /\ outcome = "wild" => "grow" \in Overlap

\* Discover answers a node that was not listed at any moment of the call only
\* if an append in place ran meanwhile.  Such an append may show the length
\* before the slot it fills, and the slot still points to a node that left
\* long ago: nothing in that node's record tells Discover so.  Leaves, which
\* keep the last pointer beyond the length, and growths, whose new array has
\* unfilled slots, bring no node back.
GhostNeedsAppend == "append" \notin Overlap => Found \subseteq seen
============================================================================
