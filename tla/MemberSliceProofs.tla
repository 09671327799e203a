------------------------- MODULE MemberSliceProofs -------------------------
(***************************************************************************)
(* Theorems about MemberSlice.tla, for every set of nodes, services and    *)
(* meta data, whatever capacities growslice chooses, however many arrays   *)
(* it allocates and however many callbacks run during a Discover.          *)
(***************************************************************************)
EXTENDS MemberSlice, TLAPS

\* What RegistryProofs.tla proves of the list holds of the settled slice.
RP == INSTANCE RegistryProofs WITH members <- List, MaxMembers <- Cap[MaxArrays]

(* The inductive invariant of the callbacks. *)

Ptr == Settled[PtrWord]     \* the header once the running callback has
Length == Settled[LenWord]  \* finished

Words == Slots \cup {PtrWord, LenWord}
Kind == running[1]

\* Memory keeps its shape.
Shape ==
    /\ DOMAIN mem = Words /\ DOMAIN stores \subseteq Words
    /\ \A w \in Slots : mem[w] \in Node \cup {Nil}
    /\ \A w \in Slots \cap DOMAIN stores : stores[w] \in Node \cup {Nil}
    /\ mem[PtrWord] \in 0..MaxArrays /\ mem[LenWord] \in Nat
    /\ Ptr \in 0..MaxArrays /\ Length \in 0..Cap[Ptr]

\* The lock is held until the last store is made.
Lock == \/ Idle /\ DOMAIN stores = {}
        \/ Kind \in {"append", "grow", "leave"}

\* Only growth moves the slice to another array or beyond its capacity.
InPlace == Kind # "grow" => Ptr = mem[PtrWord] /\ mem[LenWord] <= Cap[Ptr]

\* An append or a growth changes no element but the last.
Adding ==
    Kind \in {"append", "grow"} =>
        /\ Length >= 1 /\ mem[LenWord] >= Length - 1
        /\ mem[PtrWord] <= Ptr /\ Length - 1 <= Cap[mem[PtrWord]]
        /\ DOMAIN stores \subseteq {PtrWord, LenWord, <<Ptr, Length>>}
        /\ Settled[<<Ptr, Length>>] = running[2]
        /\ \A i \in 1..(Length - 1) : mem[<<mem[PtrWord], i>>] = mem[<<Ptr, i>>]

\* A leave clears no slot; without an append, no slot of the slice is empty.
Filled ==
    Kind \notin {"append", "grow"} =>
        /\ Length <= mem[LenWord]
        /\ \A i \in 1..mem[LenWord] : mem[<<Ptr, i>>] \in Node
        /\ \A w \in Slots \cap DOMAIN stores : stores[w] \in Node

WInv == Shape /\ Lock /\ InPlace /\ Adding /\ Filled

-----------------------------------------------------------------------------
(* The words of the header are not slots, and a word names one slot.        *)
LEMMA WordFacts ==
    /\ PtrWord # LenWord /\ PtrWord \notin Slots /\ LenWord \notin Slots
    /\ \A k, i : <<k, i>> \in Slots <=> k \in 1..MaxArrays /\ i \in 1..Cap[k]
    /\ \A k, i, l, j : <<k, i>> = <<l, j>> <=> k = l /\ i = j
    /\ \A k, i : i \in 1..Cap[k] /\ k \in 0..MaxArrays => <<k, i>> \in Slots
    /\ \A k \in 0..MaxArrays : Cap[k] \in Nat
<1>1. PtrWord # LenWord
    BY DEF PtrWord, LenWord
<1>2. ASSUME NEW k, NEW i
      PROVE  <<k, i>> \in Slots <=> k \in 1..MaxArrays /\ i \in 1..Cap[k]
    <2>1. <<k, i>> \in Slots
              <=> \E l \in 1..MaxArrays : <<k, i>> \in {l} \X (1..Cap[l])
        BY Zenon DEF Slots
    <2>2. \A l, S : <<k, i>> \in {l} \X S <=> k = l /\ i \in S
        OBVIOUS
    <2>3. QED
        BY <2>1, <2>2, Zenon
<1>3. \A k, i, l, j : <<k, i>> = <<l, j>> <=> k = l /\ i = j
    OBVIOUS
<1>4. PtrWord \notin Slots /\ LenWord \notin Slots
    BY <1>2 DEF PtrWord, LenWord
<1>5. ASSUME NEW k \in 0..MaxArrays, NEW i \in 1..Cap[k] PROVE <<k, i>> \in Slots
    <2>1. k # 0
        BY <1>5, MemberSliceAssumption
    <2>2. k \in 1..MaxArrays
        BY <2>1, MemberSliceAssumption
    <2>3. QED
        BY <1>2, <2>2
<1>6. \A k \in 0..MaxArrays : Cap[k] \in Nat
    BY MemberSliceAssumption
<1>7. QED
    BY <1>1, <1>2, <1>3, <1>4, <1>5, <1>6

(* What the invariant of the registry says of the settled list. *)
LEMMA RegistryFacts ==
    ASSUME RP!IInv
    PROVE  /\ List \in Seq(Node)
           /\ status \in [Node -> {"alive", "suspect", "dead"}]
           /\ meta \in [Node -> Meta] /\ tainted \in SUBSET Node
           /\ process = "running" =>
                  \A n \in R!Live : R!Parsable(meta[n]) => n \in R!Listed
           /\ \A n \in Node \ tainted : \A i, j \in DOMAIN List :
                  List[i] = n /\ List[j] = n => i = j
BY DEF RP!IInv, RP!TypeOK, RP!LiveListed, RP!MembersExact, RP!Live, RP!Listed,
       RP!Parsable, R!Live, R!Listed, R!Parsable

LEMMA RegistryStep ==
    ASSUME RP!IInv, [R!Next]_<<status, meta, List, process, tainted>>
    PROVE  RP!IInv'
<1>1. RP!RegistryAssumption
    BY MemberSliceAssumption DEF RP!RegistryAssumption
<1>2. [RP!Next]_(RP!vars)
    BY DEF R!Next, R!vars, R!Join, R!Update, R!Leave, R!Probe, R!Announce,
           R!NotifyJoin, R!NotifyUpdate, R!NotifyLeave, R!Live, R!Parsable,
           R!IndexOfAny, R!Without,
           RP!Next, RP!vars, RP!Join, RP!Update, RP!Leave, RP!Probe, RP!Announce,
           RP!NotifyJoin, RP!NotifyUpdate, RP!NotifyLeave, RP!Live, RP!Parsable,
           RP!IndexOfAny, RP!Without
<1>3. QED
    BY <1>1, <1>2, RP!StepIInv

LEMMA InitWInv == Init => WInv
<1> SUFFICES ASSUME Init PROVE WInv
    OBVIOUS
<1>1. /\ DOMAIN mem = Words /\ DOMAIN stores = {} /\ Settled = mem
      /\ \A w \in Slots : mem[w] = Nil
      /\ mem[PtrWord] = 0 /\ mem[LenWord] = 0
    BY WordFacts DEF Init, Words, Settled
<1>2. QED
    BY <1>1, MemberSliceAssumption, WordFacts
    DEF Init, WInv, Shape, Lock, InPlace, Adding, Filled, Ptr, Length, Kind, Idle, None

(* The list is read from the settled memory. *)
LEMMA SettledFacts ==
    ASSUME Shape
    PROVE  /\ \A w \in DOMAIN stores : Settled[w] = stores[w]
           /\ \A w \in Words \ DOMAIN stores : Settled[w] = mem[w]
           /\ \A w \in Slots : Settled[w] \in Node \cup {Nil}
           /\ List = [i \in 1..Length |-> Settled[<<Ptr, i>>]]
           /\ Length \in Nat /\ Cap[Ptr] \in Nat
           /\ \A i \in 1..Length : <<Ptr, i>> \in Slots
<1>1. /\ \A w \in DOMAIN stores : Settled[w] = stores[w]
      /\ \A w \in Words \ DOMAIN stores : Settled[w] = mem[w]
    BY DEF Shape, Settled
<1>2. \A w \in Slots : Settled[w] \in Node \cup {Nil}
    <2>1. Slots \subseteq Words
        BY DEF Words
    <2>2. QED
        BY <1>1, <2>1, Zenon DEF Shape
<1>3. List = [i \in 1..Length |-> Settled[<<Ptr, i>>]]
    BY Zenon DEF List, Length, Ptr
<1>4. Ptr \in 0..MaxArrays /\ Cap[Ptr] \in Nat /\ Length \in 0..Cap[Ptr]
    BY WordFacts, Zenon DEF Shape
<1>5. \A i \in 1..Length : <<Ptr, i>> \in Slots
    <2>1. \A i \in 1..Length : i \in 1..Cap[Ptr]
        BY <1>4
    <2>2. QED
        BY <1>4, <2>1, WordFacts, Zenon
<1>6. Length \in Nat
    BY <1>4
<1>7. QED
    BY <1>1, <1>2, <1>3, <1>4, <1>5, <1>6, Zenon

(* A callback that stores nothing leaves the list. *)
LEMMA QuietStep ==
    ASSUME WInv, NoStore PROVE WInv' /\ List' = List
<1>1. mem' = mem /\ running' = running /\ stores' = stores
    BY DEF NoStore
<1>2. Settled' = Settled
    BY <1>1 DEF Settled
<1>3. Ptr' = Ptr /\ Length' = Length /\ Kind' = Kind /\ List' = List
    BY <1>1, <1>2 DEF Ptr, Length, Kind, List
<1>4. Shape' /\ Lock' /\ InPlace'
    BY <1>1, <1>2, <1>3 DEF WInv, Shape, Lock, InPlace, Idle
<1>5. Adding' /\ Filled'
    BY <1>1, <1>2, <1>3 DEF WInv, Adding, Filled
<1>6. QED
    BY <1>3, <1>4, <1>5 DEF WInv

(* Between two callbacks memory is settled. *)
LEMMA IdleFacts ==
    ASSUME WInv, Idle
    PROVE  /\ DOMAIN stores = {} /\ Kind = "none"
           /\ Ptr = mem[PtrWord] /\ Length = mem[LenWord]
           /\ List = [i \in 1..mem[LenWord] |-> mem[<<mem[PtrWord], i>>]]
           /\ Len(List) = mem[LenWord]
           /\ List \in Seq(Node)
<1>1. DOMAIN stores = {} /\ Kind = "none"
    <2>1. Kind = "none"
        BY DEF Idle, None, Kind
    <2>2. QED
        BY <2>1 DEF WInv, Lock
<1>2. \A w \in Words : Settled[w] = mem[w]
    BY <1>1, SettledFacts DEF WInv
<1>3. Ptr = mem[PtrWord] /\ Length = mem[LenWord]
    BY <1>2 DEF Ptr, Length, Words
<1>4. List = [i \in 1..mem[LenWord] |-> mem[<<mem[PtrWord], i>>]]
    BY <1>2, <1>3, SettledFacts DEF WInv, Words
<1>5. /\ mem[LenWord] \in Nat
      /\ \A i \in 1..mem[LenWord] : mem[<<mem[PtrWord], i>>] \in Node
    BY <1>1, <1>3 DEF WInv, Filled, Shape
<1>6. List \in Seq(Node) /\ Len(List) = mem[LenWord]
    <2>1. List \in [1..mem[LenWord] -> Node]
        BY <1>4, <1>5
    <2>2. \A l \in Nat : \A s \in [1..l -> Node] : s \in Seq(Node) /\ Len(s) = l
        OBVIOUS
    <2>3. QED
        BY <1>5, <2>1, <2>2
<1>7. QED
    BY <1>1, <1>3, <1>4, <1>6

(* The stores of an append settle as the list with the node at its end,    *)
(* in the same array or in the next one.                                   *)
LEMMA AppendStep ==
    ASSUME WInv, Idle, NEW n \in Node, mem[LenWord] < Cap[MaxArrays], StoreAppend(n)
    PROVE  WInv' /\ List' = Append(List, n)
<1> DEFINE k == mem[PtrWord]
           l == mem[LenWord]
<1>1. /\ k \in 0..MaxArrays /\ l \in Nat /\ l <= Cap[k]
      /\ DOMAIN mem = Words /\ DOMAIN stores = {}
      /\ \A w \in Slots : mem[w] \in Node \cup {Nil}
      /\ List = [i \in 1..l |-> mem[<<k, i>>]]
      /\ \A i \in 1..l : <<k, i>> \in Slots
    BY IdleFacts, SettledFacts DEF WInv, Shape, InPlace
<1>2. CASE l < Cap[k]
    <2>1. /\ stores' = [w \in {LenWord, <<k, l + 1>>} |-> IF w = LenWord THEN l + 1 ELSE n]
          /\ running' = <<"append", n>>
          /\ mem' = mem
        BY <1>2 DEF StoreAppend
    <2>2. <<k, l + 1>> \in Slots
        BY <1>1, <1>2, WordFacts
    <2>3. /\ DOMAIN stores' = {LenWord, <<k, l + 1>>}
          /\ stores'[LenWord] = l + 1 /\ stores'[<<k, l + 1>>] = n
        BY <2>1, <2>2, WordFacts
    <2>4. /\ Settled'[PtrWord] = k /\ Settled'[LenWord] = l + 1
          /\ Settled'[<<k, l + 1>>] = n
          /\ \A i \in 1..l : Settled'[<<k, i>>] = mem[<<k, i>>]
        BY <1>1, <2>1, <2>2, <2>3, WordFacts DEF Settled, Words
    <2>5. Ptr' = k /\ Length' = l + 1 /\ Kind' = "append" /\ ~Idle'
        BY <2>1, <2>4 DEF Ptr, Length, Kind, Idle, None
    <2>6. List' = [i \in 1..(l + 1) |-> Settled'[<<k, i>>]]
        BY <2>4 DEF List
    <2>7. List' = Append(List, n)
        BY <1>1, <2>4, <2>6
    <2>8. Shape' /\ Lock' /\ InPlace' /\ Filled'
        BY <1>1, <1>2, <2>1, <2>2, <2>3, <2>5, WordFacts DEF Shape, Lock, InPlace, Filled, Words
    <2>9. Adding'
        BY <1>1, <2>1, <2>3, <2>4, <2>5 DEF Adding
    <2>10. QED
        BY <2>7, <2>8, <2>9 DEF WInv
<1>3. CASE l >= Cap[k]
    <2>1. /\ stores' = [w \in {PtrWord, LenWord, <<k + 1, l + 1>>} |->
                             IF w = PtrWord THEN k + 1
                             ELSE IF w = LenWord THEN l + 1 ELSE n]
          /\ running' = <<"grow", n>>
          /\ mem' = [w \in DOMAIN mem |-> IF w \in {k + 1} \X (1..l)
                                          THEN mem[<<k, w[2]>>] ELSE mem[w]]
        BY <1>1, <1>3, WordFacts DEF StoreAppend
    <2>2. k + 1 \in 1..MaxArrays /\ l + 1 \in 1..Cap[k + 1]
        <3>1. l = Cap[k] /\ k # MaxArrays
            BY <1>1, <1>3, WordFacts
        <3>2. k + 1 \in 1..MaxArrays /\ (k + 1) - 1 = k
            BY <1>1, <3>1, MemberSliceAssumption
        <3>3. Cap[k] < Cap[k + 1] /\ Cap[k] \in Nat /\ Cap[k + 1] \in Nat
            BY <1>1, <3>2, MemberSliceAssumption
        <3>4. QED
            BY <1>1, <3>1, <3>2, <3>3
    <2>3. <<k + 1, l + 1>> \in Slots /\ \A i \in 1..l : <<k + 1, i>> \in Slots
        BY <1>1, <2>2, WordFacts, SMTT(30)
    <2>4. /\ DOMAIN stores' = {PtrWord, LenWord, <<k + 1, l + 1>>}
          /\ stores'[PtrWord] = k + 1 /\ stores'[LenWord] = l + 1
          /\ stores'[<<k + 1, l + 1>>] = n
        BY <2>1, <2>3, WordFacts
    <2>5. /\ DOMAIN mem' = Words
          /\ mem'[PtrWord] = k /\ mem'[LenWord] = l
          /\ \A i \in 1..l : mem'[<<k + 1, i>>] = mem[<<k, i>>]
          /\ \A j, i : j # k + 1 /\ <<j, i>> \in Slots => mem'[<<j, i>>] = mem[<<j, i>>]
          /\ \A w \in Slots : mem'[w] \in Node \cup {Nil}
        <3>1. \A w : w \in {k + 1} \X (1..l) => w \in Slots /\ w[2] \in 1..l
            BY <2>3
        <3>2. DOMAIN mem' = Words /\ \A w \in Words :
                 mem'[w] = IF w \in {k + 1} \X (1..l) THEN mem[<<k, w[2]>>] ELSE mem[w]
            BY <1>1, <2>1
        <3>3. mem'[PtrWord] = k /\ mem'[LenWord] = l
            BY <3>1, <3>2, WordFacts DEF Words
        <3>4. \A i \in 1..l : mem'[<<k + 1, i>>] = mem[<<k, i>>]
            BY <2>3, <3>2 DEF Words
        <3>5. \A j, i : j # k + 1 /\ <<j, i>> \in Slots => mem'[<<j, i>>] = mem[<<j, i>>]
            BY <3>2 DEF Words
        <3>6. \A w \in Slots : mem'[w] \in Node \cup {Nil}
            BY <1>1, <3>1, <3>2 DEF Words
        <3>7. QED
            BY <3>2, <3>3, <3>4, <3>5, <3>6
    <2>6. /\ Settled'[PtrWord] = k + 1 /\ Settled'[LenWord] = l + 1
          /\ Settled'[<<k + 1, l + 1>>] = n
          /\ \A i \in 1..l : Settled'[<<k + 1, i>>] = mem[<<k, i>>]
        BY <1>1, <2>3, <2>4, <2>5, WordFacts DEF Settled, Words
    <2>7. Ptr' = k + 1 /\ Length' = l + 1 /\ Kind' = "grow" /\ ~Idle'
        BY <2>1, <2>6 DEF Ptr, Length, Kind, Idle, None
    <2>8. List' = [i \in 1..(l + 1) |-> Settled'[<<k + 1, i>>]]
        BY <2>6 DEF List
    <2>9. List' = Append(List, n)
        BY <1>1, <2>6, <2>8
    <2>10. Shape' /\ Lock' /\ InPlace' /\ Filled'
        BY <1>1, <2>2, <2>3, <2>4, <2>5, <2>7, WordFacts
        DEF Shape, Lock, InPlace, Filled, Words
    <2>11. Adding'
        <3>1. running'[2] = n /\ <<Ptr', Length'>> = <<k + 1, l + 1>>
            BY <2>1, <2>7
        <3>2. \A i \in 1..(Length' - 1) : mem'[<<mem'[PtrWord], i>>] = mem'[<<Ptr', i>>]
            BY <1>1, <2>5, <2>7
        <3>3. QED
            BY <1>1, <2>4, <2>5, <2>6, <2>7, <3>1, <3>2 DEF Adding
    <2>12. QED
        BY <2>9, <2>10, <2>11 DEF WInv
<1>4. Cap[k] \in Nat
    BY <1>1, WordFacts
<1>5. l < Cap[k] \/ l >= Cap[k]
    BY <1>1, <1>4
<1>6. QED
    BY <1>2, <1>3, <1>5, Zenon

(* The stores of a removal settle as the list without the entry. *)
LEMMA RemoveStep ==
    ASSUME WInv, Idle, NEW n, NEW j \in 1..mem[LenWord], StoreRemove(n, j)
    PROVE  WInv' /\ List' = R!Without(List, j)
<1> DEFINE k == mem[PtrWord]
           l == mem[LenWord]
<1>1. /\ k \in 0..MaxArrays /\ l \in Nat /\ l <= Cap[k]
      /\ DOMAIN mem = Words /\ DOMAIN stores = {}
      /\ \A w \in Slots : mem[w] \in Node \cup {Nil}
      /\ List = [i \in 1..l |-> mem[<<k, i>>]] /\ Len(List) = l
      /\ \A i \in 1..l : <<k, i>> \in Slots /\ mem[<<k, i>>] \in Node
      /\ Ptr = k
    BY IdleFacts, SettledFacts DEF WInv, Shape, InPlace, Filled
<1>2. /\ stores' = [w \in {LenWord} \cup ({k} \X (j..(l - 1))) |->
                         IF w = LenWord THEN l - 1 ELSE mem[<<k, w[2] + 1>>]]
      /\ running' = <<"leave", n>> /\ mem' = mem
    BY DEF StoreRemove
<1>3. /\ DOMAIN stores' = {LenWord} \cup ({k} \X (j..(l - 1)))
      /\ stores'[LenWord] = l - 1
      /\ \A i \in j..(l - 1) : stores'[<<k, i>>] = mem[<<k, i + 1>>]
    <2>1. \A i \in j..(l - 1) : <<k, i>> # LenWord /\ <<k, i>>[2] = i
        BY <1>1, WordFacts
    <2>2. QED
        BY <1>2, <2>1
<1>4. \A w \in {k} \X (j..(l - 1)) : w \in Slots /\ stores'[w] \in Node
    <2>1. ASSUME NEW i \in j..(l - 1)
          PROVE  <<k, i>> \in Slots /\ stores'[<<k, i>>] \in Node
        <3>1. i \in 1..l /\ i + 1 \in 1..l
            BY <1>1
        <3>2. QED
            BY <1>1, <1>3, <3>1
    <2>2. QED
        BY <2>1
<1>5. /\ Settled'[PtrWord] = k /\ Settled'[LenWord] = l - 1
      /\ \A i \in 1..(j - 1) : Settled'[<<k, i>>] = mem[<<k, i>>]
      /\ \A i \in j..(l - 1) : Settled'[<<k, i>>] = mem[<<k, i + 1>>]
    <2>1. PtrWord \notin DOMAIN stores' /\ \A i \in 1..(j - 1) : <<k, i>> \notin DOMAIN stores'
        BY <1>1, <1>3, <1>4, WordFacts
    <2>2. \A i \in 1..l : <<k, i>> \in Words /\ <<k, i>> # LenWord
        BY <1>1, WordFacts DEF Words
    <2>3. Settled' = [w \in Words |-> IF w \in DOMAIN stores' THEN stores'[w] ELSE mem[w]]
        BY <1>1, <1>2 DEF Settled
    <2>4. Settled'[PtrWord] = k /\ Settled'[LenWord] = l - 1
        BY <1>3, <2>1, <2>3 DEF Words
    <2>5. ASSUME NEW i \in 1..(j - 1) PROVE Settled'[<<k, i>>] = mem[<<k, i>>]
        <3>1. i \in 1..l
            BY <1>1
        <3>2. QED
            BY <2>1, <2>2, <2>3, <3>1
    <2>6. ASSUME NEW i \in j..(l - 1) PROVE Settled'[<<k, i>>] = mem[<<k, i + 1>>]
        <3>1. i \in 1..l /\ <<k, i>> \in DOMAIN stores'
            BY <1>1, <1>3
        <3>2. QED
            BY <1>3, <2>2, <2>3, <3>1
    <2>7. QED
        BY <2>4, <2>5, <2>6
<1>6. Ptr' = k /\ Length' = l - 1 /\ Kind' = "leave" /\ ~Idle'
    BY <1>2, <1>5 DEF Ptr, Length, Kind, Idle, None
<1>7. List' = [i \in 1..(l - 1) |-> Settled'[<<k, i>>]]
    BY <1>5 DEF List
<1>8. List' = R!Without(List, j)
    <2>1. \A i \in 1..(l - 1) :
             Settled'[<<k, i>>] = IF i < j THEN List[i] ELSE List[i + 1]
        BY <1>1, <1>5
    <2>2. QED
        BY <1>1, <1>7, <2>1 DEF R!Without
<1>9. Shape' /\ Lock' /\ InPlace' /\ Filled' /\ Adding'
    BY <1>1, <1>2, <1>3, <1>4, <1>6, WordFacts
    DEF Shape, Lock, InPlace, Filled, Adding, Words
<1>10. QED
    BY <1>8, <1>9 DEF WInv

(* A store changes nothing of what memory settles to. *)
LEMMA StoreStep ==
    ASSUME WInv, RP!IInv, NEW w \in DOMAIN stores, Store(w)
    PROVE  WInv' /\ List' = List /\ Ptr' = Ptr /\ Length' = Length
<1>1. /\ mem' = [mem EXCEPT ![w] = stores[w]]
      /\ stores' = [v \in DOMAIN stores \ {w} |-> stores[v]]
      /\ running' = IF DOMAIN stores = {w} THEN None ELSE running
    BY DEF Store
<1>2. DOMAIN mem = Words /\ DOMAIN stores \subseteq Words
    BY DEF WInv, Shape
<1>3. /\ DOMAIN mem' = Words /\ DOMAIN stores' = DOMAIN stores \ {w}
      /\ mem'[w] = stores[w] /\ \A v \in Words \ {w} : mem'[v] = mem[v]
      /\ \A v \in DOMAIN stores' : stores'[v] = stores[v]
    BY <1>1, <1>2
<1>4. Settled' = Settled
    BY <1>2, <1>3 DEF Settled
<1>5. Ptr' = Ptr /\ Length' = Length /\ List' = List
    BY <1>4 DEF Ptr, Length, List
<1>6. /\ mem[w] # mem'[w] => mem'[w] = Settled[w]
      /\ mem'[PtrWord] \in {mem[PtrWord], Ptr}
      /\ mem'[LenWord] \in {mem[LenWord], Length}
    BY <1>2, <1>3, SettledFacts DEF WInv, Ptr, Length, Words
<1>7. Shape'
    BY <1>2, <1>3, <1>5, <1>6 DEF WInv, Shape, Words
<1>8. ~Idle
    BY IdleFacts
<1>9. Lock'
    BY <1>1, <1>3 DEF WInv, Lock, Idle, Kind
<1>10. CASE DOMAIN stores = {w}
    <2>1. Idle' /\ Kind' = "none" /\ DOMAIN stores' = {}
        BY <1>1, <1>3, <1>10 DEF Idle, Kind, None
    <2>2. \A v \in Words : mem'[v] = Settled'[v]
        BY <1>3, <2>1 DEF Settled
    <2>3. mem'[PtrWord] = Ptr' /\ mem'[LenWord] = Length'
        BY <2>2 DEF Ptr, Length, Words
    <2>4. \A i \in 1..Length' : mem'[<<Ptr', i>>] \in Node
        BY <1>4, <1>5, <2>2, RegistryFacts, SettledFacts DEF WInv, Words
    <2>5. QED
        BY <1>5, <1>7, <1>9, <2>1, <2>3, <2>4
        DEF WInv, Shape, InPlace, Adding, Filled
<1>11. CASE DOMAIN stores # {w}
    <2>1. running' = running /\ Kind' = Kind
        BY <1>1, <1>11 DEF Kind
    <2>2. InPlace'
        BY <1>5, <1>6, <2>1 DEF WInv, InPlace, Shape
    <2>3. Adding'
        <3>1. SUFFICES ASSUME Kind \in {"append", "grow"} PROVE Adding'
            BY <2>1 DEF Adding
        <3>2. /\ Length >= 1 /\ mem[LenWord] >= Length - 1 /\ mem[PtrWord] <= Ptr
              /\ DOMAIN stores \subseteq {PtrWord, LenWord, <<Ptr, Length>>}
              /\ Length - 1 <= Cap[mem[PtrWord]]
              /\ Settled[<<Ptr, Length>>] = running[2]
              /\ \A i \in 1..(Length - 1) : mem[<<mem[PtrWord], i>>] = mem[<<Ptr, i>>]
            BY <3>1 DEF WInv, Adding
        <3>3. /\ mem'[LenWord] >= Length - 1 /\ mem'[PtrWord] <= Ptr
              /\ Length - 1 <= Cap[mem'[PtrWord]]
            BY <1>6, <3>2, WordFacts DEF WInv, Shape
        <3>4. ASSUME NEW i \in 1..(Length - 1)
              PROVE  mem'[<<mem'[PtrWord], i>>] = mem'[<<Ptr, i>>]
            <4>1. <<Ptr, i>> \in Slots /\ i # Length
                BY SettledFacts DEF WInv
            <4>2. CASE w = PtrWord
                BY <1>3, <1>6, <4>1, <4>2, WordFacts, SettledFacts DEF WInv, Ptr, Words
            <4>3. CASE w # PtrWord
                <5>1. mem'[PtrWord] = mem[PtrWord]
                    BY <1>3, <4>3 DEF Words
                <5>2. CASE mem[PtrWord] = Ptr
                    BY <5>1, <5>2
                <5>3. CASE mem[PtrWord] # Ptr
                    <6>0. <<mem[PtrWord], i>> \in Slots
                        <7>1. i \in 1..Cap[mem[PtrWord]] /\ mem[PtrWord] \in 0..MaxArrays
                            BY <3>2, SettledFacts, WordFacts DEF WInv, Shape
                        <7>2. QED
                            BY <7>1, WordFacts
                    <6>1. w # <<Ptr, i>> /\ w # <<mem[PtrWord], i>>
                        BY <3>2, <4>1, <4>3, <6>0, WordFacts
                    <6>2. QED
                        BY <1>3, <3>2, <4>1, <5>1, <6>0, <6>1 DEF Words
                <5>4. QED
                    BY <5>2, <5>3
            <4>4. QED
                BY <4>2, <4>3
        <3>5. QED
            BY <1>3, <1>4, <1>5, <2>1, <3>2, <3>3, <3>4 DEF Adding
    <2>4. Filled'
        <3>1. SUFFICES ASSUME Kind \notin {"append", "grow"} PROVE Filled'
            BY <2>1 DEF Filled
        <3>2. /\ Length <= mem[LenWord]
              /\ \A i \in 1..mem[LenWord] : mem[<<Ptr, i>>] \in Node
              /\ \A v \in Slots \cap DOMAIN stores : stores[v] \in Node
            BY <3>1 DEF WInv, Filled
        <3>3. Length <= mem'[LenWord] /\ mem'[LenWord] <= mem[LenWord] /\ mem'[LenWord] \in Nat
            BY <1>6, <3>2, SettledFacts DEF WInv, Shape
        <3>4. \A i \in 1..mem'[LenWord] : mem'[<<Ptr, i>>] \in Node
            <4>1. mem[LenWord] <= Cap[Ptr] /\ Ptr \in 0..MaxArrays /\ mem[LenWord] \in Nat
                BY <3>1 DEF WInv, InPlace, Shape
            <4>2. \A i \in 1..mem'[LenWord] : i \in 1..mem[LenWord] /\ <<Ptr, i>> \in Slots
                BY <3>3, <4>1, WordFacts
            <4>3. QED
                BY <1>3, <3>2, <4>2 DEF Words
        <3>5. QED
            BY <1>3, <1>5, <3>2, <3>3, <3>4 DEF Filled
    <2>5. QED
        BY <1>5, <1>7, <1>9, <2>2, <2>3, <2>4 DEF WInv
<1>12. QED
    BY <1>5, <1>10, <1>11

-----------------------------------------------------------------------------
(* Each callback takes the step of Registry.tla it stands for when it      *)
(* starts, and none while its stores become visible.                       *)
LEMMA IndexFound ==
    ASSUME NEW n, NEW s \in Seq(Node), R!IndexOfAny(n, s) # 0
    PROVE  R!IndexOfAny(n, s) \in 1..Len(s) /\ s[R!IndexOfAny(n, s)] = n
<1>1. RP!RegistryAssumption
    BY MemberSliceAssumption DEF RP!RegistryAssumption
<1>2. PICK k \in DOMAIN s : s[k] = n
    BY DEF R!IndexOfAny
<1>3. RP!IndexOfAny(n, s) \in 1..Len(s) /\ s[RP!IndexOfAny(n, s)] = n
    BY <1>1, <1>2, RP!IndexOfAnyFound
<1>4. QED
    BY <1>3 DEF R!IndexOfAny, RP!IndexOfAny

LEMMA JoinStep ==
    ASSUME WInv, NEW n \in Node, NEW m \in Meta, Join(n, m)
    PROVE  WInv' /\ R!Join(n, m)
<1>1. /\ Idle /\ n \notin R!Live /\ mem[LenWord] < Cap[MaxArrays]
      /\ R!Announce(n, m) /\ UNCHANGED process
      /\ IF R!Parsable(m) THEN StoreAppend(n) ELSE NoStore
    BY DEF Join
<1>2. Len(List) < Cap[MaxArrays]
    BY <1>1, IdleFacts
<1>3. WInv' /\ List' = IF R!Parsable(m) THEN Append(List, n) ELSE List
    BY <1>1, AppendStep, QuietStep
<1>4. QED
    BY <1>1, <1>2, <1>3 DEF R!Join, R!NotifyJoin

LEMMA LeaveStep ==
    ASSUME WInv, NEW n \in Node, Leave(n)
    PROVE  WInv' /\ R!Leave(n)
<1> DEFINE i == R!IndexOfAny(n, List)
<1>1. /\ Idle /\ n \in R!Live
      /\ status' = [status EXCEPT ![n] = "dead"]
      /\ UNCHANGED <<meta, tainted>>
      /\ \/ ~R!Parsable(meta[n]) /\ NoStore /\ UNCHANGED process
         \/ R!Parsable(meta[n]) /\ i = 0 /\ NoStore /\ process' = "panicked"
         \/ R!Parsable(meta[n]) /\ i # 0 /\ StoreRemove(n, i) /\ UNCHANGED process
    BY DEF Leave
<1>2. List \in Seq(Node) /\ Len(List) = mem[LenWord]
    BY <1>1, IdleFacts
<1>3. i # 0 => i \in 1..mem[LenWord]
    BY <1>2, IndexFound
<1>4. NoStore => WInv' /\ List' = List
    BY QuietStep
<1>5. i # 0 /\ StoreRemove(n, i) => WInv' /\ List' = R!Without(List, i)
    BY <1>1, <1>3, RemoveStep
<1>6. WInv' /\ R!NotifyLeave(n, meta[n])
    BY <1>1, <1>4, <1>5 DEF R!NotifyLeave
<1>7. QED
    BY <1>1, <1>6 DEF R!Leave

LEMMA UpdateStep ==
    ASSUME WInv, NEW n \in Node, NEW m \in Meta, Update(n, m)
    PROVE  WInv' /\ R!Update(n, m)
<1> DEFINE i == R!IndexOfAny(n, List)
<1>1. /\ Idle /\ n \in R!Live /\ m # meta[n] /\ R!Announce(n, m) /\ NoStore
      /\ process' = IF R!Parsable(m) /\ i = 0 THEN "panicked" ELSE process
    BY DEF Update
<1>2. WInv' /\ List' = List
    BY <1>1, QuietStep
<1>3. List \in Seq(Node)
    BY <1>1, IdleFacts
<1>4. i # 0 => i \in 1..Len(List) /\ List[i] = n
    BY <1>3, IndexFound
<1>5. i # 0 => [List EXCEPT ![i] = n] = List
    BY <1>3, <1>4
<1>6. R!NotifyUpdate(n, m)
    BY <1>1, <1>2, <1>5 DEF R!NotifyUpdate
<1>7. QED
    BY <1>1, <1>2, <1>6 DEF R!Update

LEMMA ProbeStep ==
    ASSUME WInv, NEW n \in Node, Probe(n)
    PROVE  WInv' /\ R!Probe(n)
BY QuietStep DEF Probe, R!Probe

LEMMA CallbackStep ==
    ASSUME WInv, RP!IInv, process = "running", Callback
    PROVE  WInv' /\ RP!IInv' /\ [R!Next]_(R!vars)
<1>1. WInv' /\ [R!Next]_(R!vars)
    <2>1. ASSUME NEW n \in Node, NEW m \in Meta, Join(n, m)
          PROVE  WInv' /\ R!Next
        BY <2>1, JoinStep DEF R!Next
    <2>2. ASSUME NEW n \in Node, NEW m \in Meta, Update(n, m)
          PROVE  WInv' /\ R!Next
        BY <2>2, UpdateStep DEF R!Next
    <2>3. ASSUME NEW n \in Node, Leave(n)
          PROVE  WInv' /\ R!Next
        BY <2>3, LeaveStep DEF R!Next
    <2>4. ASSUME NEW n \in Node, Probe(n)
          PROVE  WInv' /\ R!Next
        BY <2>4, ProbeStep DEF R!Next
    <2>5. ASSUME NEW w \in DOMAIN stores, Store(w)
          PROVE  WInv' /\ UNCHANGED R!vars
        BY <2>5, StoreStep DEF R!vars, Store
    <2>6. QED
        BY <2>1, <2>2, <2>3, <2>4, <2>5 DEF Callback
<1>2. RP!IInv'
    BY <1>1, RegistryStep DEF R!vars
<1>3. QED
    BY <1>1, <1>2

LEMMA WriterUnchanged ==
    ASSUME WInv, RP!IInv, UNCHANGED writer
    PROVE  WInv' /\ RP!IInv' /\ UNCHANGED R!vars
<1>1. WInv' /\ List' = List
    BY QuietStep DEF writer, NoStore
<1>2. UNCHANGED R!vars
    BY <1>1 DEF writer, R!vars
<1>3. RP!IInv'
    BY <1>2, RegistryStep DEF R!vars
<1>4. QED
    BY <1>1, <1>2, <1>3

LEMMA InitRegistry == Init => R!Init /\ RP!IInv
<1> SUFFICES ASSUME Init PROVE R!Init /\ RP!IInv
    OBVIOUS
<1>1. Idle /\ WInv /\ mem[LenWord] = 0
    BY InitWInv, WordFacts DEF Init, Idle
<1>2. List = << >>
    BY <1>1, IdleFacts
<1>3. R!Init /\ RP!Init
    BY <1>2 DEF Init, R!Init, RP!Init
<1>4. RP!RegistryAssumption
    BY MemberSliceAssumption DEF RP!RegistryAssumption
<1>5. QED
    BY <1>3, <1>4, RP!InitIInv

(* The slice with its in-place shifts, its reused slots and its growth     *)
(* behaves as the list of Registry.tla, callback by callback               *)
(* (eventdelegate.go:14-70).                                               *)
THEOREM WriterImplements == WriterSpec => SliceIsList
<1>1. Init => WInv /\ RP!IInv /\ R!Init
    BY InitWInv, InitRegistry
<1>2. WInv /\ RP!IInv /\ [WriterNext]_vars
          => WInv' /\ RP!IInv' /\ [R!Next]_(R!vars)
    BY CallbackStep, WriterUnchanged DEF WriterNext, vars, writer
<1>3. QED
    BY <1>1, <1>2, PTL DEF WriterSpec, SliceIsList, R!Spec

-----------------------------------------------------------------------------
(* The inductive invariant of Discover: what it knows of the slice while   *)
(* callbacks of some kinds have not run yet.                               *)

Reading == pc \in {"header", "slot", "member"}
Loaded(w) == w \in DOMAIN header

Stages ==
    /\ pc \in {"idle", "header", "slot", "member", "done"}
    /\ pc # "done" => outcome = "none"
    /\ pc = "idle" => found = << >> /\ DOMAIN header = {}
    /\ DOMAIN header \subseteq {PtrWord, LenWord}
    /\ Loaded(PtrWord) => header[PtrWord] \in 0..MaxArrays
    /\ Loaded(LenWord) => header[LenWord] \in Nat
    /\ pc \in {"slot", "member"} =>
           Loaded(PtrWord) /\ Loaded(LenWord) /\ at \in Nat \ {0}
    /\ pc = "member" => at <= header[LenWord] /\ at <= Cap[header[PtrWord]]
    /\ pc = "header" => found = << >>
    /\ member \in Node \cup {Nil}
    /\ found \in Seq(Node)

\* What the history records.
Observed ==
    /\ overlap \in Seq({"append", "grow", "leave"})
    /\ pc # "idle" => /\ R!Listed \subseteq seen
                      /\ kept \subseteq Serving
                      /\ Idle \/ Kind \in Overlap

\* Without a growth the header that was copied is one of the current array.
SameArray ==
    Reading /\ "grow" \notin Overlap =>
        /\ Loaded(PtrWord) => header[PtrWord] = mem[PtrWord]
        /\ Loaded(LenWord) => header[LenWord] <= Cap[mem[PtrWord]]

\* Without an append either, it covers no empty slot.
NoEmptySlot ==
    Reading /\ Overlap \cap {"append", "grow"} = {} =>
        /\ Loaded(LenWord) =>
               \A i \in 1..header[LenWord] : mem[<<mem[PtrWord], i>>] \in Node
        /\ pc = "member" => member \in Node

\* Position i holds n in every array Discover may read, and stays there while
\* nothing leaves.
Place(n, i) ==
    /\ i \in 1..mem[LenWord] /\ i <= Cap[mem[PtrWord]]
    /\ mem[<<mem[PtrWord], i>>] = n
    /\ Idle \/ i < Length
    /\ Loaded(LenWord) => i <= header[LenWord]
    /\ Loaded(PtrWord) => /\ i <= Cap[header[PtrWord]]
                          /\ mem[<<header[PtrWord], i>>] = n
    /\ pc = "slot" => i >= at \/ n \in Found
    /\ pc = "member" => i > at \/ (i = at /\ member = n) \/ n \in Found

NothingHidden ==
    Reading /\ "leave" \notin Overlap =>
        /\ Loaded(PtrWord) => header[PtrWord] <= mem[PtrWord]
        /\ \A n \in kept : \E i \in Nat : Place(n, i)

\* Without any store Discover reads the list itself.
CalmReading ==
    overlap = << >> =>
        /\ Reading =>
             /\ Idle
             /\ Loaded(LenWord) => header[LenWord] = mem[LenWord]
             /\ pc = "member" => member = List[at]
             /\ \A j \in DOMAIN found : \E q \in 1..(at - 1) : List[q] = found[j]
        /\ \A i, j \in DOMAIN found :
               found[i] = found[j] /\ found[i] \notin tainted => i = j

RInv == /\ Stages /\ Observed /\ SameArray /\ NoEmptySlot /\ NothingHidden /\ CalmReading
        /\ JoinsHideNothing /\ CrashNeedsJoin

LEMMA InitRInv == Init => RInv
<1> SUFFICES ASSUME Init PROVE RInv
    OBVIOUS
<1>1. /\ pc = "idle" /\ found = << >> /\ overlap = << >> /\ outcome = "none"
      /\ DOMAIN header = {} /\ member = Nil
    BY DEF Init
<1>2. Found = {} /\ ~Reading
    BY <1>1 DEF Found, Reading
<1>3. Stages /\ Observed
    BY <1>1, <1>2 DEF Stages, Observed, Loaded
<1>4. QED
    BY <1>1, <1>2, <1>3
    DEF RInv, SameArray, NoEmptySlot, NothingHidden, CalmReading, JoinsHideNothing,
        CrashNeedsJoin

(* What one step of a callback does to memory. *)
LEMMA CallbackEffect ==
    ASSUME WInv, RP!IInv, Callback
    PROVE  /\ tainted \subseteq tainted' /\ UNCHANGED reader
           /\ \/ NoStore
              \/ /\ Idle /\ ~Idle' /\ Kind' \in {"append", "leave"}
                 /\ mem' = mem
                 /\ Kind' = "append" => Length' = mem[LenWord] + 1
              \/ /\ Idle /\ ~Idle' /\ Kind' = "grow"
                 /\ mem'[PtrWord] = mem[PtrWord] /\ mem'[LenWord] = mem[LenWord]
                 /\ Length' = mem[LenWord] + 1
                 /\ \A k, i : k <= mem[PtrWord] /\ <<k, i>> \in Slots
                               => mem'[<<k, i>>] = mem[<<k, i>>]
              \/ \E w \in DOMAIN stores : Store(w)
<1>1. UNCHANGED reader
    BY DEF Callback
<1>2. ASSUME NEW n \in Node, StoreAppend(n), Idle
      PROVE  \/ /\ Idle /\ ~Idle' /\ Kind' \in {"append", "leave"}
                /\ mem' = mem
                /\ Kind' = "append" => Length' = mem[LenWord] + 1
             \/ /\ Idle /\ ~Idle' /\ Kind' = "grow"
                /\ mem'[PtrWord] = mem[PtrWord] /\ mem'[LenWord] = mem[LenWord]
                /\ Length' = mem[LenWord] + 1
                /\ \A k, i : k <= mem[PtrWord] /\ <<k, i>> \in Slots
                              => mem'[<<k, i>>] = mem[<<k, i>>]
    <2> DEFINE k == mem[PtrWord]
               l == mem[LenWord]
    <2>1. /\ DOMAIN mem = Words /\ k \in 0..MaxArrays /\ l \in Nat
          /\ DOMAIN mem' = DOMAIN mem
        BY <1>2 DEF WInv, Shape, StoreAppend
    <2>2. Settled' = [w \in Words |-> IF w \in DOMAIN stores' THEN stores'[w] ELSE mem'[w]]
        BY <2>1 DEF Settled
    <2>3. LenWord \in DOMAIN stores' /\ stores'[LenWord] = l + 1
        BY <1>2, WordFacts DEF StoreAppend
    <2>4. Length' = l + 1
        BY <2>2, <2>3 DEF Length, Words
    <2>5. CASE l < Cap[k]
        BY <1>2, <2>4, <2>5 DEF StoreAppend, Kind, Idle, None
    <2>6. CASE ~(l < Cap[k])
        <3>1. /\ running' = <<"grow", n>>
              /\ mem' = [w \in Words |-> IF w \in {k + 1} \X (1..l)
                                         THEN mem[<<k, w[2]>>] ELSE mem[w]]
            BY <1>2, <2>1, <2>6 DEF StoreAppend
        <3>2. PtrWord \notin {k + 1} \X (1..l) /\ LenWord \notin {k + 1} \X (1..l)
            BY <2>1 DEF PtrWord, LenWord
        <3>3. mem'[PtrWord] = k /\ mem'[LenWord] = l
            BY <3>1, <3>2 DEF Words
        <3>4. ASSUME NEW j, NEW i, j <= k, <<j, i>> \in Slots
              PROVE  mem'[<<j, i>>] = mem[<<j, i>>]
            <4>1. j \in Nat /\ j # k + 1
                BY <2>1, <3>4, WordFacts
            <4>2. <<j, i>> \notin {k + 1} \X (1..l) /\ <<j, i>> \in Words
                BY <3>4, <4>1 DEF Words
            <4>3. QED
                BY <3>1, <4>2
        <3>5. Kind' = "grow" /\ ~Idle'
            BY <3>1 DEF Kind, Idle, None
        <3>6. QED
            BY <1>2, <2>4, <3>3, <3>4, <3>5
    <2>7. QED
        BY <2>5, <2>6
<1>3. ASSUME NEW n, NEW i, StoreRemove(n, i), Idle
      PROVE  /\ ~Idle' /\ Kind' = "leave" /\ mem' = mem
    BY <1>3 DEF StoreRemove, Idle, Kind, None
<1>4. ASSUME NEW n \in Node, NEW m \in Meta, R!Announce(n, m)
      PROVE  tainted \subseteq tainted'
    BY <1>4 DEF R!Announce
<1>5. tainted \subseteq tainted'
    BY <1>4 DEF Callback, Join, Update, Leave, Probe, Store
<1>6. ASSUME NEW n \in Node, NEW m \in Meta, Join(n, m)
      PROVE  NoStore \/ (Idle /\ StoreAppend(n))
    BY <1>6 DEF Join
<1>7. ASSUME NEW n \in Node, Leave(n)
      PROVE  NoStore \/ (Idle /\ \E i : StoreRemove(n, i))
    BY <1>7 DEF Leave
<1>8. QED
    BY <1>1, <1>2, <1>3, <1>5, <1>6, <1>7 DEF Callback, Update, Probe

-----------------------------------------------------------------------------
(* The slice stays in its array while nothing grows. *)
LEMMA StaysInArray ==
    ASSUME WInv, WInv', RP!IInv, Callback, Kind # "grow", Kind' # "grow"
    PROVE  mem'[PtrWord] = mem[PtrWord]
<1>1. CASE \E w \in DOMAIN stores : Store(w)
    <2>1. Ptr' = Ptr
        BY <1>1, StoreStep
    <2>2. QED
        BY <2>1 DEF WInv, InPlace
<1>2. QED
    BY <1>1, CallbackEffect DEF NoStore

(* A full slot stays full while nothing is appended. *)
LEMMA StaysFilled ==
    ASSUME WInv, WInv', RP!IInv, Callback,
           Kind \notin {"append", "grow"}, Kind' \notin {"append", "grow"},
           NEW i \in 1..Cap[mem[PtrWord]], mem[<<mem[PtrWord], i>>] \in Node
    PROVE  mem'[<<mem'[PtrWord], i>>] \in Node
<1>1. mem'[PtrWord] = mem[PtrWord] /\ <<mem[PtrWord], i>> \in Slots
    BY StaysInArray, WordFacts DEF WInv, Shape
<1>2. CASE \E w \in DOMAIN stores : Store(w)
    <2>1. PICK w \in DOMAIN stores : mem' = [mem EXCEPT ![w] = stores[w]]
        BY <1>2 DEF Store
    <2>2. w \in Slots => stores[w] \in Node
        BY DEF WInv, Filled
    <2>3. QED
        BY <1>1, <2>1, <2>2 DEF WInv, Shape, Words
<1>3. QED
    BY <1>1, <1>2, CallbackEffect DEF NoStore

(* An element stays at its position while nothing leaves. *)
LEMMA StaysInPlace ==
    ASSUME WInv, WInv', RP!IInv, RInv, Callback, Idle \/ Kind # "leave", Kind' # "leave",
           Loaded(PtrWord) => header[PtrWord] <= mem[PtrWord],
           NEW n \in Node, NEW i \in Nat, Place(n, i)
    PROVE  /\ Place(n, i)'
           /\ Loaded(PtrWord) => header[PtrWord] <= mem'[PtrWord]
<1>1. /\ i \in 1..mem[LenWord] /\ i <= Cap[mem[PtrWord]]
      /\ mem[<<mem[PtrWord], i>>] = n
      /\ Idle \/ i < Length
      /\ Loaded(LenWord) => i <= header[LenWord]
      /\ Loaded(PtrWord) => /\ i <= Cap[header[PtrWord]]
                            /\ mem[<<header[PtrWord], i>>] = n
      /\ pc = "slot" => i >= at \/ n \in Found
      /\ pc = "member" => i > at \/ (i = at /\ member = n) \/ n \in Found
    BY DEF Place
<1>2. /\ UNCHANGED reader /\ Found' = Found
      /\ \A w : Loaded(w)' = Loaded(w)
    BY CallbackEffect DEF Found, Loaded, reader
<1>3. SUFFICES /\ i \in 1..mem'[LenWord] /\ i <= Cap[mem'[PtrWord]]
               /\ mem'[<<mem'[PtrWord], i>>] = n
               /\ Idle' \/ i < Length'
               /\ Loaded(PtrWord) => /\ mem'[<<header[PtrWord], i>>] = n
                                     /\ header[PtrWord] <= mem'[PtrWord]
    BY <1>1, <1>2 DEF Place, reader
<1>4. /\ mem[PtrWord] \in 0..MaxArrays /\ mem[LenWord] \in Nat
      /\ Loaded(PtrWord) => header[PtrWord] \in 0..MaxArrays
    BY DEF WInv, Shape, RInv, Stages
<1>5. /\ <<mem[PtrWord], i>> \in Slots
      /\ Loaded(PtrWord) => <<header[PtrWord], i>> \in Slots
    <2>1. \A k \in 0..MaxArrays : i <= Cap[k] => <<k, i>> \in Slots
        <3>1. \A k \in 0..MaxArrays : i <= Cap[k] => i \in 1..Cap[k]
            BY <1>1, <1>4, WordFacts
        <3>2. QED
            BY <3>1, WordFacts
    <2>2. QED
        BY <1>1, <1>4, <2>1
<1>6. CASE NoStore
    BY <1>1, <1>6 DEF NoStore, Idle, Length, Settled
<1>7. CASE Idle /\ mem' = mem /\ Length' = mem[LenWord] + 1
    BY <1>1, <1>4, <1>7
<1>8. CASE /\ Idle
           /\ mem'[PtrWord] = mem[PtrWord] /\ mem'[LenWord] = mem[LenWord]
           /\ Length' = mem[LenWord] + 1
           /\ \A k, j : k <= mem[PtrWord] /\ <<k, j>> \in Slots
                         => mem'[<<k, j>>] = mem[<<k, j>>]
    BY <1>1, <1>4, <1>5, <1>8
<1>9. CASE \E w \in DOMAIN stores : Store(w)
    <2>1. PICK w \in DOMAIN stores : Store(w)
        BY <1>9
    <2>2. /\ mem' = [mem EXCEPT ![w] = stores[w]] /\ DOMAIN mem = Words
          /\ w \in Words
        BY <2>1 DEF Store, WInv, Shape
    <2>3. Kind \in {"append", "grow"} /\ i < Length
        BY <1>1, <2>1, IdleFacts DEF WInv, Lock
    <2>4. /\ Length \in Nat /\ mem[LenWord] >= Length - 1 /\ mem[PtrWord] <= Ptr
          /\ DOMAIN stores \subseteq {PtrWord, LenWord, <<Ptr, Length>>}
          /\ mem[<<Ptr, i>>] = mem[<<mem[PtrWord], i>>]
          /\ Ptr \in 0..MaxArrays /\ Length \in 0..Cap[Ptr]
        BY <1>1, <2>3, SettledFacts DEF WInv, Adding, Shape
    <2>5. \A k : <<k, i>> \in Slots => mem'[<<k, i>>] = mem[<<k, i>>]
        BY <2>2, <2>3, <2>4, WordFacts DEF Words
    <2>6. /\ w = PtrWord => mem'[PtrWord] = Ptr /\ mem'[LenWord] = mem[LenWord]
          /\ w = LenWord => mem'[LenWord] = Length /\ mem'[PtrWord] = mem[PtrWord]
          /\ w \in Slots => mem'[LenWord] = mem[LenWord] /\ mem'[PtrWord] = mem[PtrWord]
        BY <2>2, SettledFacts, WordFacts DEF WInv, Words, Ptr, Length
    <2>7. i \in 1..mem'[LenWord]
        BY <1>1, <2>2, <2>3, <2>4, <2>6 DEF Words
    <2>8. /\ i <= Cap[mem'[PtrWord]] /\ mem'[<<mem'[PtrWord], i>>] = n
          /\ mem[PtrWord] <= mem'[PtrWord] /\ mem'[PtrWord] \in Nat
        <3>1. CASE w = PtrWord
            <4>1. i <= Cap[Ptr] /\ i \in 1..Cap[Ptr]
                BY <1>1, <2>3, <2>4, WordFacts
            <4>2. <<Ptr, i>> \in Slots
                BY <2>4, <4>1, WordFacts
            <4>3. QED
                BY <1>1, <2>4, <2>5, <2>6, <3>1, <4>1, <4>2
        <3>2. CASE w # PtrWord
            BY <1>1, <1>4, <1>5, <2>2, <2>5, <2>6, <3>2 DEF Words
        <3>3. QED
            BY <3>1, <3>2
    <2>9. Length' = Length
        BY <2>1, StoreStep
    <2>10. Loaded(PtrWord) => mem'[<<header[PtrWord], i>>] = n
        BY <1>1, <1>5, <2>5
    <2>11. QED
        BY <1>4, <2>3, <2>7, <2>8, <2>9, <2>10
<1>10. QED
    BY <1>6, <1>7, <1>8, <1>9, CallbackEffect

(* No step of a callback breaks what Discover knows. *)
LEMMA CallbackRInv ==
    ASSUME WInv, WInv', RP!IInv, RP!IInv', RInv, Callback, Observe, pc # "done"
    PROVE  RInv'
<1>1. /\ UNCHANGED reader /\ Found' = Found /\ Reading' = Reading
      /\ \A w : Loaded(w)' = Loaded(w)
      /\ tainted \subseteq tainted'
    BY CallbackEffect DEF Found, Loaded, Reading, reader
<1>2. pc' = pc /\ found' = found /\ outcome' = outcome /\ header' = header /\ member' = member
      /\ at' = at /\ outcome = "none"
    BY <1>1 DEF reader, RInv, Stages
<1>3. Stages'
    BY <1>1, <1>2 DEF RInv, Stages
<1>4. JoinsHideNothing' /\ CrashNeedsJoin'
    BY <1>2 DEF JoinsHideNothing, CrashNeedsJoin
<1>5. CASE pc = "idle"
    <2>1. UNCHANGED <<overlap, seen, kept>> /\ ~Reading /\ found = << >>
        BY <1>2, <1>5 DEF Observe, Reading, RInv, Stages
    <2>2. Observed'
        BY <1>1, <1>2, <1>5, <2>1 DEF RInv, Observed
    <2>3. CalmReading'
        BY <1>1, <1>2, <2>1 DEF CalmReading
    <2>4. QED
        BY <1>1, <1>3, <1>4, <2>1, <2>2, <2>3 DEF RInv, SameArray, NoEmptySlot, NothingHidden
<1>6. CASE pc # "idle"
    <2>1. /\ overlap' = IF Idle /\ running' # None THEN Append(overlap, running'[1])
                                                  ELSE overlap
          /\ seen' = seen \cup R!Listed'
          /\ kept' = kept \cap Serving'
        BY <1>2, <1>6 DEF Observe
    <2>2. /\ overlap \in Seq({"append", "grow", "leave"})
          /\ R!Listed \subseteq seen /\ kept \subseteq Serving
          /\ Idle \/ Kind \in Overlap
        BY <1>6 DEF RInv, Observed
    <2>3. /\ overlap' \in Seq({"append", "grow", "leave"})
          /\ Overlap \subseteq Overlap' /\ (Idle' \/ Kind' \in Overlap')
          /\ overlap' = << >> => overlap = << >> /\ (Idle => Idle')
        <3>1. CASE Idle /\ ~Idle'
            <4>1. overlap' = Append(overlap, Kind') /\ Kind' \in {"append", "grow", "leave"}
                BY <2>1, <3>1 DEF Idle, Kind, WInv, Lock
            <4>2. /\ overlap' \in Seq({"append", "grow", "leave"})
                  /\ Len(overlap') = Len(overlap) + 1 /\ Len(overlap) \in Nat
                  /\ overlap'[Len(overlap) + 1] = Kind'
                  /\ \A i \in DOMAIN overlap : i \in DOMAIN overlap' /\ overlap'[i] = overlap[i]
                BY <2>2, <4>1
            <4>3. Overlap \subseteq Overlap' /\ Kind' \in Overlap' /\ overlap' # << >>
                BY <4>2 DEF Overlap
            <4>4. QED
                BY <4>2, <4>3
        <3>2. CASE ~(Idle /\ ~Idle')
            <4>1. overlap' = overlap
                BY <2>1, <3>2 DEF Idle
            <4>2. Idle' \/ Kind' = Kind
                BY <3>2, CallbackEffect DEF Store, Idle, Kind, NoStore
            <4>3. QED
                BY <2>2, <3>2, <4>1, <4>2 DEF Overlap, Idle
        <3>3. QED
            BY <3>1, <3>2
    <2>4. Observed'
        BY <1>1, <2>1, <2>2, <2>3 DEF Observed, RInv
    <2>5. /\ \A kind : kind \notin Overlap' => kind \notin Overlap
          /\ \A kind \in {"append", "grow", "leave"} :
               kind \notin Overlap' => Kind # kind /\ Kind' # kind
        BY <2>2, <2>3, IdleFacts, WInv' DEF Idle, Kind, None
    <2>6. SameArray'
        <3>1. SUFFICES ASSUME Reading, "grow" \notin Overlap'
              PROVE  /\ Loaded(PtrWord) => header[PtrWord] = mem'[PtrWord]
                     /\ Loaded(LenWord) => header[LenWord] <= Cap[mem'[PtrWord]]
            BY <1>1, <1>2 DEF SameArray
        <3>2. mem'[PtrWord] = mem[PtrWord]
            BY <2>5, <3>1, StaysInArray
        <3>3. QED
            BY <2>5, <3>1, <3>2 DEF RInv, SameArray
    <2>7. NoEmptySlot'
        <3>1. SUFFICES ASSUME Reading, Overlap' \cap {"append", "grow"} = {}
              PROVE  /\ Loaded(LenWord) =>
                            \A i \in 1..header[LenWord] : mem'[<<mem'[PtrWord], i>>] \in Node
                     /\ pc = "member" => member \in Node
            BY <1>1, <1>2 DEF NoEmptySlot
        <3>2. Kind \notin {"append", "grow"} /\ Kind' \notin {"append", "grow"}
            BY <2>5, <3>1
        <3>3. Overlap \cap {"append", "grow"} = {}
            BY <2>3, <3>1
        <3>4. ASSUME Loaded(LenWord), NEW i \in 1..header[LenWord]
              PROVE  mem'[<<mem'[PtrWord], i>>] \in Node
            <4>1. header[LenWord] <= Cap[mem[PtrWord]] /\ header[LenWord] \in Nat
                BY <3>1, <3>3, <3>4 DEF RInv, SameArray, Stages
            <4>2. i \in 1..Cap[mem[PtrWord]]
                BY <3>4, <4>1, WordFacts DEF WInv, Shape
            <4>3. mem[<<mem[PtrWord], i>>] \in Node
                BY <3>1, <3>3, <3>4 DEF RInv, NoEmptySlot
            <4>4. QED
                BY <3>2, <4>2, <4>3, StaysFilled
        <3>5. QED
            BY <3>1, <3>3, <3>4 DEF RInv, NoEmptySlot
    <2>8. NothingHidden'
        <3>1. SUFFICES ASSUME Reading, "leave" \notin Overlap'
              PROVE  /\ Loaded(PtrWord) => header[PtrWord] <= mem'[PtrWord]
                     /\ \A n \in kept' : \E i \in Nat : Place(n, i)'
            BY <1>1, <1>2 DEF NothingHidden
        <3>2. Kind # "leave" /\ Kind' # "leave" /\ "leave" \notin Overlap
            BY <2>5, <3>1
        <3>3. /\ Loaded(PtrWord) => header[PtrWord] <= mem[PtrWord]
              /\ \A n \in kept : \E i \in Nat : Place(n, i)
            BY <3>1, <3>2 DEF RInv, NothingHidden
        <3>4. \A n \in kept : n \in Node
            BY <2>2, RegistryFacts DEF Serving, R!Listed
        <3>5. \A n \in kept' : \E i \in Nat : Place(n, i)'
            BY <2>1, <3>2, <3>3, <3>4, StaysInPlace
        <3>6. Loaded(PtrWord) => header[PtrWord] <= mem'[PtrWord]
            <4>1. \/ mem'[PtrWord] = mem[PtrWord]
                  \/ mem'[PtrWord] = Ptr /\ mem[PtrWord] <= Ptr
                <5>1. ASSUME NEW w \in DOMAIN stores, Store(w)
                      PROVE  /\ mem'[PtrWord] \in {mem[PtrWord], Ptr}
                             /\ mem[PtrWord] <= Ptr
                    <6>1. mem'[PtrWord] = IF w = PtrWord THEN stores[w] ELSE mem[PtrWord]
                        BY <5>1 DEF Store, WInv, Shape, Words
                    <6>2. w = PtrWord => stores[w] = Ptr
                        BY SettledFacts DEF WInv, Ptr
                    <6>3. Kind \in {"append", "grow"}
                        BY <3>2, <5>1, IdleFacts DEF WInv, Lock
                    <6>4. QED
                        BY <6>1, <6>2, <6>3 DEF WInv, Adding
                <5>2. QED
                    BY <5>1, CallbackEffect DEF NoStore
            <4>2. QED
                BY <3>3, <4>1 DEF WInv, Shape, RInv, Stages
        <3>7. QED
            BY <3>5, <3>6
    <2>9. CalmReading'
        <3>1. SUFFICES ASSUME overlap = << >>, Reading, Idle, Idle'
                       PROVE  CalmReading'
            <4>1. Reading
                BY <1>6 DEF RInv, Stages, Reading
            <4>2. overlap' = << >> => overlap = << >> /\ Idle /\ Idle'
                BY <2>3, <4>1 DEF RInv, CalmReading
            <4>3. QED
                BY <4>1, <4>2 DEF CalmReading
        <3>2. NoStore
            BY <3>1, CallbackEffect, IdleFacts
        <3>3. List' = List /\ mem' = mem
            BY <3>2, QuietStep DEF NoStore
        <3>4. QED
            BY <1>1, <1>2, <3>1, <3>3 DEF RInv, CalmReading
    <2>10. QED
        BY <1>3, <1>4, <2>4, <2>6, <2>7, <2>8, <2>9 DEF RInv
<1>7. QED
    BY <1>5, <1>6

(* A step of Discover leaves memory and the records alone. *)
LEMMA ReaderHistory ==
    ASSUME WInv, UNCHANGED writer, Observe, RInv, pc # "idle", pc' # "idle"
    PROVE  /\ UNCHANGED <<overlap, kept, seen>>
           /\ Overlap' = Overlap
<1>1. List' = List
    BY QuietStep DEF writer, NoStore
<1>2. R!Listed' = R!Listed /\ Serving' = Serving
    BY <1>1 DEF R!Listed, Serving, writer
<1>3. /\ overlap' = IF Idle /\ running' # None THEN Append(overlap, running'[1])
                                                ELSE overlap
      /\ seen' = seen \cup R!Listed'
      /\ kept' = kept \cap Serving'
    BY DEF Observe
<1>4. UNCHANGED <<overlap, kept, seen>>
    BY <1>2, <1>3 DEF writer, Idle, RInv, Observed
<1>5. QED
    BY <1>4 DEF Overlap

LEMMA WriterSame ==
    ASSUME UNCHANGED writer
    PROVE  /\ UNCHANGED <<status, meta, process, tainted, mem, running, stores>>
           /\ List' = List /\ Length' = Length /\ Ptr' = Ptr /\ Kind' = Kind /\ Idle' = Idle
           /\ R!Listed' = R!Listed /\ Serving' = Serving
BY DEF writer, List, Settled, Length, Ptr, Kind, Idle, R!Listed, Serving

(* Discover starts, perhaps in the middle of a callback. *)
LEMMA StartRInv ==
    ASSUME WInv, RP!IInv, RInv, Start, UNCHANGED writer, Observe
    PROVE  RInv'
<1>1. /\ pc = "idle" /\ pc' = "header"
      /\ UNCHANGED <<header, at, member, found, outcome>>
      /\ found = << >> /\ DOMAIN header = {} /\ outcome = "none"
    BY DEF Start, RInv, Stages
<1>2. /\ overlap' = IF Idle THEN << >> ELSE <<running[1]>>
      /\ seen' = R!Listed \cup ({running[2]} \ {Nil})
      /\ kept' = Serving \ {running[2]}
    BY <1>1 DEF Observe
<1>3. /\ Reading' /\ Found' = {} /\ \A w : ~Loaded(w)'
    BY <1>1 DEF Reading, Found, Loaded
<1>4. Stages'
    BY <1>1, <1>3 DEF RInv, Stages
<1>5. /\ overlap' \in Seq({"append", "grow", "leave"})
      /\ Idle \/ Kind \in Overlap'
      /\ overlap' = << >> => Idle
    <2>1. CASE Idle
        BY <1>2, <2>1
    <2>2. CASE ~Idle
        <3>1. Kind \in {"append", "grow", "leave"} /\ overlap' = <<Kind>>
            BY <1>2, <2>2 DEF WInv, Lock, Kind
        <3>2. QED
            BY <3>1 DEF Overlap
    <2>3. QED
        BY <2>1, <2>2
<1>6. Observed'
    BY <1>2, <1>3, <1>5, WriterSame DEF Observed
<1>7. SameArray' /\ NoEmptySlot'
    BY <1>1, <1>3 DEF SameArray, NoEmptySlot
<1>8. NothingHidden'
    <2>1. SUFFICES ASSUME "leave" \notin Overlap', NEW n \in Serving, n # running[2]
                   PROVE  \E i \in Nat : Place(n, i)'
        BY <1>2, <1>3 DEF NothingHidden
    <2>2. PICK i \in DOMAIN List : List[i] = n
        BY DEF Serving, R!Listed
    <2>3. i \in 1..Length /\ List[i] = Settled[<<Ptr, i>>] /\ <<Ptr, i>> \in Slots
        BY <2>2, SettledFacts DEF WInv
    <2>4. CASE Idle
        <3>1. /\ mem[PtrWord] = Ptr /\ mem[LenWord] = Length /\ mem[<<Ptr, i>>] = n
              /\ Length <= Cap[Ptr] /\ Length \in Nat /\ Cap[Ptr] \in Nat
            BY <2>2, <2>3, <2>4, IdleFacts, SettledFacts DEF WInv, Shape
        <3>2. i \in Nat /\ i <= Cap[Ptr]
            BY <2>3, <3>1
        <3>3. QED
            BY <1>1, <1>3, <2>3, <2>4, <3>1, <3>2, WriterSame DEF Place
    <2>5. CASE ~Idle
        <3>1. Kind \in {"append", "grow"}
            BY <1>5, <2>1, <2>5 DEF WInv, Lock
        <3>2. /\ Length >= 1 /\ mem[LenWord] >= Length - 1
              /\ mem[PtrWord] <= Ptr /\ Length - 1 <= Cap[mem[PtrWord]]
              /\ DOMAIN stores \subseteq {PtrWord, LenWord, <<Ptr, Length>>}
              /\ Settled[<<Ptr, Length>>] = running[2]
              /\ \A j \in 1..(Length - 1) : mem[<<mem[PtrWord], j>>] = mem[<<Ptr, j>>]
            BY <3>1 DEF WInv, Adding
        <3>3. /\ Length \in Nat /\ mem[LenWord] \in Nat /\ mem[PtrWord] \in 0..MaxArrays
              /\ Cap[mem[PtrWord]] \in Nat
            BY SettledFacts, WordFacts DEF WInv, Shape
        <3>4. i # Length
            BY <2>1, <2>2, <2>3, <3>2
        <3>5. i < Length /\ i \in 1..(Length - 1) /\ i \in Nat
            BY <2>3, <3>3, <3>4
        <3>6. <<Ptr, i>> \notin DOMAIN stores
            BY <2>3, <3>2, <3>4, WordFacts
        <3>7. mem[<<Ptr, i>>] = n
            BY <2>2, <2>3, <3>6, SettledFacts DEF WInv, Words
        <3>8. mem[<<mem[PtrWord], i>>] = n
            BY <3>2, <3>5, <3>7
        <3>9. i <= Cap[mem[PtrWord]] /\ i \in 1..mem[LenWord]
            BY <3>2, <3>3, <3>5
        <3>10. QED
            BY <1>1, <1>3, <3>5, <3>8, <3>9, WriterSame DEF Place
    <2>6. QED
        BY <2>4, <2>5
<1>9. CalmReading'
    BY <1>1, <1>3, <1>5, WriterSame DEF CalmReading
<1>10. QED
    BY <1>1, <1>4, <1>6, <1>7, <1>8, <1>9 DEF RInv, JoinsHideNothing, CrashNeedsJoin

(* One word of the header is loaded. *)
LEMMA HeaderRInv ==
    ASSUME WInv, RP!IInv, RInv, NEW w \in {PtrWord, LenWord}, LoadHeader(w),
           UNCHANGED writer, Observe
    PROVE  RInv'
<1>1. /\ pc = "header" /\ w \notin DOMAIN header
      /\ header' = [v \in DOMAIN header \cup {w} |-> IF v = w THEN mem[w] ELSE header[v]]
      /\ UNCHANGED <<member, found, outcome>>
      /\ IF DOMAIN header = {} THEN UNCHANGED <<pc, at>> ELSE pc' = "slot" /\ at' = 1
      /\ found = << >> /\ outcome = "none" /\ DOMAIN header \subseteq {PtrWord, LenWord}
    BY DEF LoadHeader, RInv, Stages
<1>2. /\ UNCHANGED <<overlap, kept, seen>> /\ Overlap' = Overlap /\ Found' = Found
      /\ Found = {} /\ Reading /\ Reading' /\ outcome' = "none"
    BY <1>1, ReaderHistory DEF Found, Reading
<1>3. /\ \A v : Loaded(v)' <=> Loaded(v) \/ v = w
      /\ header'[w] = mem[w]
      /\ \A v : Loaded(v) => header'[v] = header[v]
      /\ pc' = "slot" => at' = 1 /\ Loaded(PtrWord)' /\ Loaded(LenWord)'
      /\ pc' \in {"header", "slot"}
    BY <1>1 DEF Loaded
<1>4. Stages'
    BY <1>1, <1>2, <1>3 DEF RInv, Stages, WInv, Shape, Loaded
<1>5. Observed'
    BY <1>1, <1>2, WriterSame DEF RInv, Observed
<1>6. SameArray'
    <2>1. SUFFICES ASSUME "grow" \notin Overlap
          PROVE  /\ Loaded(PtrWord)' => header'[PtrWord] = mem[PtrWord]
                 /\ Loaded(LenWord)' => header'[LenWord] <= Cap[mem[PtrWord]]
        BY <1>2, WriterSame DEF SameArray
    <2>2. Idle \/ Kind \in Overlap
        BY <1>1 DEF RInv, Observed
    <2>3. Kind # "grow"
        BY <2>1, <2>2, IdleFacts
    <2>4. mem[LenWord] <= Cap[mem[PtrWord]]
        BY <2>3 DEF WInv, InPlace
    <2>5. QED
        BY <1>2, <1>3, <2>1, <2>4 DEF RInv, SameArray
<1>7. NoEmptySlot'
    <2>1. SUFFICES ASSUME Overlap \cap {"append", "grow"} = {}, Loaded(LenWord)',
                          NEW i \in 1..header'[LenWord]
                   PROVE  mem[<<mem[PtrWord], i>>] \in Node
        BY <1>2, <1>3, WriterSame DEF NoEmptySlot
    <2>2. Idle \/ Kind \in Overlap
        BY <1>1 DEF RInv, Observed
    <2>3. Kind \notin {"append", "grow"}
        BY <2>1, <2>2, IdleFacts
    <2>4. \A j \in 1..mem[LenWord] : mem[<<mem[PtrWord], j>>] \in Node
        BY <2>3 DEF WInv, Filled, InPlace
    <2>5. QED
        BY <1>2, <1>3, <2>1, <2>4 DEF RInv, NoEmptySlot
<1>8. NothingHidden'
    <2>1. SUFFICES ASSUME "leave" \notin Overlap
          PROVE  /\ Loaded(PtrWord)' => header'[PtrWord] <= mem[PtrWord]
                 /\ \A n \in kept : \E i \in Nat : Place(n, i)'
        BY <1>2, WriterSame DEF NothingHidden
    <2>2. Loaded(PtrWord)' => header'[PtrWord] <= mem[PtrWord]
        BY <1>2, <1>3, <2>1 DEF RInv, NothingHidden, WInv, Shape
    <2>3. ASSUME NEW n \in kept PROVE \E i \in Nat : Place(n, i)'
        <3>1. PICK i \in Nat : Place(n, i)
            BY <1>2, <2>1 DEF RInv, NothingHidden
        <3>2. /\ i \in 1..mem[LenWord] /\ i <= Cap[mem[PtrWord]]
              /\ mem[<<mem[PtrWord], i>>] = n
              /\ Idle \/ i < Length
              /\ Loaded(LenWord) => i <= header[LenWord]
              /\ Loaded(PtrWord) => /\ i <= Cap[header[PtrWord]]
                                    /\ mem[<<header[PtrWord], i>>] = n
            BY <3>1 DEF Place
        <3>3. Loaded(LenWord)' => i <= header'[LenWord]
            BY <1>3, <3>2 DEF WInv, Shape
        <3>4. Loaded(PtrWord)' => /\ i <= Cap[header'[PtrWord]]
                                  /\ mem[<<header'[PtrWord], i>>] = n
            BY <1>3, <3>2
        <3>5. pc' = "slot" => i >= at'
            BY <1>3, <3>2 DEF WInv, Shape
        <3>6. Place(n, i)'
            BY <1>3, <3>2, <3>3, <3>4, <3>5, WriterSame DEF Place
        <3>7. QED
            BY <3>6
    <2>4. QED
        BY <2>2, <2>3
<1>9. CalmReading'
    <2>1. DOMAIN found' = {}
        BY <1>1
    <2>2. Loaded(LenWord) => header'[LenWord] = header[LenWord]
        BY <1>3
    <2>3. overlap = << >> => Idle /\ (Loaded(LenWord)' => header'[LenWord] = mem[LenWord])
        BY <1>2, <1>3, <2>2 DEF RInv, CalmReading
    <2>4. pc' # "member"
        BY <1>3
    <2>5. QED
        BY <1>2, <2>1, <2>3, <2>4, WriterSame DEF CalmReading
<1>10. QED
    BY <1>2, <1>4, <1>5, <1>6, <1>7, <1>8, <1>9 DEF RInv, JoinsHideNothing, CrashNeedsJoin

(* Discover ends. *)
LEMMA EndRInv ==
    ASSUME WInv, RP!IInv, RInv, Reading, NEW o, End(o), UNCHANGED writer, Observe,
           o = "ok" /\ "leave" \notin Overlap => kept \subseteq Found,
           o = "nil" => Overlap \cap {"append", "grow"} # {},
           o = "wild" => "grow" \in Overlap
    PROVE  RInv'
<1>1. /\ pc # "idle" /\ pc' = "done" /\ found' = found /\ outcome' = o
      /\ header' = << >> /\ at' = 0 /\ member' = Nil
    BY DEF End, Reading
<1>2. /\ UNCHANGED <<overlap, kept, seen>> /\ Overlap' = Overlap /\ Found' = Found
      /\ ~Reading' /\ \A w : ~Loaded(w)'
    BY <1>1, ReaderHistory DEF Found, Reading, Loaded
<1>3. Stages'
    BY <1>1, <1>2 DEF RInv, Stages
<1>4. Observed'
    BY <1>1, <1>2, WriterSame DEF RInv, Observed
<1>5. CalmReading'
    BY <1>1, <1>2, WriterSame DEF RInv, CalmReading
<1>6. QED
    BY <1>1, <1>2, <1>3, <1>4, <1>5
    DEF RInv, SameArray, NoEmptySlot, NothingHidden, JoinsHideNothing, CrashNeedsJoin

(* The next element is loaded, or Discover ends. *)
LEMMA SlotRInv ==
    ASSUME WInv, RP!IInv, RInv, LoadSlot, UNCHANGED writer, Observe
    PROVE  RInv'
<1>1. /\ pc = "slot" /\ Reading /\ Loaded(PtrWord) /\ Loaded(LenWord) /\ at \in Nat \ {0}
      /\ header[PtrWord] \in 0..MaxArrays /\ header[LenWord] \in Nat
      /\ Cap[header[PtrWord]] \in Nat /\ outcome = "none"
    BY WordFacts DEF LoadSlot, Reading, RInv, Stages
<1>2. CASE at > header[LenWord]
    <2>1. End("ok")
        BY <1>2 DEF LoadSlot
    <2>2. ASSUME "leave" \notin Overlap, NEW n \in kept PROVE n \in Found
        <3>1. PICK i \in Nat : Place(n, i)
            BY <1>1, <2>2 DEF RInv, NothingHidden
        <3>2. QED
            BY <1>1, <1>2, <3>1 DEF Place
    <2>3. QED
        BY <1>1, <2>1, <2>2, EndRInv
<1>3. CASE at <= header[LenWord] /\ at > Cap[header[PtrWord]]
    <2>1. End("wild")
        BY <1>1, <1>3 DEF LoadSlot
    <2>2. "grow" \in Overlap
        BY <1>1, <1>3 DEF RInv, SameArray
    <2>3. QED
        BY <1>1, <2>1, <2>2, EndRInv
<1>4. CASE at <= header[LenWord] /\ at <= Cap[header[PtrWord]]
    <2>1. /\ member' = mem[<<header[PtrWord], at>>] /\ pc' = "member"
          /\ UNCHANGED <<header, at, found, outcome>>
        BY <1>1, <1>4 DEF LoadSlot
    <2>2. <<header[PtrWord], at>> \in Slots
        BY <1>1, <1>4, WordFacts
    <2>3. member' \in Node \cup {Nil}
        BY <2>1, <2>2 DEF WInv, Shape
    <2>4. /\ UNCHANGED <<overlap, kept, seen>> /\ Overlap' = Overlap /\ Found' = Found
          /\ Reading' /\ \A w : Loaded(w)' = Loaded(w)
        BY <1>1, <2>1, ReaderHistory DEF Found, Reading, Loaded
    <2>5. Stages'
        BY <1>1, <1>4, <2>1, <2>3, <2>4 DEF RInv, Stages, Loaded
    <2>6. Observed'
        BY <1>1, <2>1, <2>4, WriterSame DEF RInv, Observed
    <2>7. SameArray'
        BY <1>1, <2>1, <2>4, WriterSame DEF RInv, SameArray
    <2>8. NoEmptySlot'
        <3>1. Overlap \cap {"append", "grow"} = {} => member' \in Node
            BY <1>1, <1>4, <2>1 DEF RInv, NoEmptySlot, SameArray
        <3>2. QED
            BY <1>1, <2>1, <2>4, <3>1, WriterSame DEF RInv, NoEmptySlot
    <2>9. NothingHidden'
        <3>1. SUFFICES ASSUME "leave" \notin Overlap
              PROVE  /\ header[PtrWord] <= mem[PtrWord]
                     /\ \A n \in kept : \E i \in Nat : Place(n, i)'
            BY <2>1, <2>4, WriterSame DEF NothingHidden
        <3>2. ASSUME NEW n \in kept PROVE \E i \in Nat : Place(n, i)'
            <4>1. PICK i \in Nat : Place(n, i)
                BY <1>1, <3>1 DEF RInv, NothingHidden
            <4>2. pc' = "member" => i > at' \/ (i = at' /\ member' = n) \/ n \in Found'
                BY <1>1, <2>1, <2>4, <4>1 DEF Place
            <4>3. Place(n, i)'
                BY <1>1, <2>1, <2>4, <4>1, <4>2, WriterSame DEF Place
            <4>4. QED
                BY <4>3
        <3>3. QED
            BY <1>1, <3>1, <3>2 DEF RInv, NothingHidden
    <2>10. CalmReading'
        <3>1. ASSUME overlap = << >> PROVE member' = List[at]
            <4>1. /\ Idle /\ header[LenWord] = mem[LenWord]
                  /\ header[PtrWord] = mem[PtrWord]
                BY <1>1, <3>1 DEF RInv, CalmReading, SameArray, Overlap
            <4>2. List = [i \in 1..mem[LenWord] |-> mem[<<mem[PtrWord], i>>]]
                BY <4>1, IdleFacts
            <4>3. QED
                BY <1>1, <1>4, <2>1, <4>1, <4>2
        <3>2. QED
            BY <1>1, <2>1, <2>4, <3>1, WriterSame DEF RInv, CalmReading
    <2>11. QED
        BY <1>1, <2>1, <2>5, <2>6, <2>7, <2>8, <2>9, <2>10
        DEF RInv, JoinsHideNothing, CrashNeedsJoin
<1>5. QED
    BY <1>1, <1>2, <1>3, <1>4

(* The record of the element is read. *)
LEMMA MemberRInv ==
    ASSUME WInv, RP!IInv, RInv, LoadMember, UNCHANGED writer, Observe, process = "running"
    PROVE  RInv'
<1>1. /\ pc = "member" /\ Reading /\ Loaded(PtrWord) /\ Loaded(LenWord) /\ at \in Nat \ {0}
      /\ header[PtrWord] \in 0..MaxArrays /\ header[LenWord] \in Nat
      /\ at <= header[LenWord] /\ member \in Node \cup {Nil}
      /\ outcome = "none" /\ found \in Seq(Node)
    BY DEF LoadMember, Reading, RInv, Stages
<1>2. CASE member = Nil
    <2>1. End("nil")
        BY <1>2 DEF LoadMember
    <2>2. Overlap \cap {"append", "grow"} # {}
        BY <1>1, <1>2, MemberSliceAssumption DEF RInv, NoEmptySlot
    <2>3. QED
        BY <1>1, <2>1, <2>2, EndRInv
<1>3. CASE member # Nil /\ ~R!Parsable(meta[member])
    <2>1. End("error")
        BY <1>3 DEF LoadMember
    <2>2. QED
        BY <1>1, <2>1, EndRInv
<1>4. CASE member # Nil /\ R!Parsable(meta[member])
    <2> DEFINE serves == meta[member] = Svc
    <2>1. /\ found' = IF serves THEN Append(found, member) ELSE found
          /\ pc' = "slot" /\ at' = at + 1
          /\ UNCHANGED <<header, member, outcome>>
        BY <1>4 DEF LoadMember
    <2>2. member \in Node
        BY <1>1, <1>4
    <2>3. /\ found' \in Seq(Node)
          /\ Found' = IF serves THEN Found \cup {member} ELSE Found
        <3>1. CASE serves
            <4>1. /\ Append(found, member) \in Seq(Node)
                  /\ DOMAIN Append(found, member) = DOMAIN found \cup {Len(found) + 1}
                  /\ Append(found, member)[Len(found) + 1] = member
                  /\ \A j \in DOMAIN found : Append(found, member)[j] = found[j]
                BY <1>1, <2>2
            <4>2. QED
                BY <2>1, <3>1, <4>1 DEF Found
        <3>2. CASE ~serves
            BY <1>1, <2>1, <3>2 DEF Found
        <3>3. QED
            BY <3>1, <3>2
    <2>4. /\ UNCHANGED <<overlap, kept, seen>> /\ Overlap' = Overlap
          /\ Reading' /\ \A w : Loaded(w)' = Loaded(w)
        BY <1>1, <2>1, ReaderHistory DEF Reading, Loaded
    <2>5. Stages'
        BY <1>1, <2>1, <2>3, <2>4 DEF RInv, Stages, Loaded
    <2>7. Observed'
        BY <1>1, <2>1, <2>3, <2>4, WriterSame DEF RInv, Observed
    <2>8. SameArray' /\ NoEmptySlot'
        BY <1>1, <2>1, <2>4, WriterSame DEF RInv, SameArray, NoEmptySlot
    <2>9. NothingHidden'
        <3>1. SUFFICES ASSUME "leave" \notin Overlap
              PROVE  /\ header[PtrWord] <= mem[PtrWord]
                     /\ \A n \in kept : \E i \in Nat : Place(n, i)'
            BY <2>1, <2>4, WriterSame DEF NothingHidden
        <3>2. ASSUME NEW n \in kept PROVE \E i \in Nat : Place(n, i)'
            <4>1. PICK i \in Nat : Place(n, i)
                BY <1>1, <3>1 DEF RInv, NothingHidden
            <4>2. meta[n] = Svc
                BY <1>1, <3>2 DEF RInv, Observed, Serving
            <4>3. i > at \/ n \in Found'
                BY <1>1, <2>3, <4>1, <4>2 DEF Place
            <4>4. pc' = "slot" => i >= at' \/ n \in Found'
                BY <1>1, <2>1, <4>3
            <4>5. Place(n, i)'
                BY <1>1, <2>1, <2>4, <4>1, <4>4, WriterSame DEF Place
            <4>6. QED
                BY <4>5
        <3>3. QED
            BY <1>1, <3>1, <3>2 DEF RInv, NothingHidden
    <2>10. CalmReading'
        <3> HIDE DEF serves
        <3>1. SUFFICES ASSUME overlap = << >>
              PROVE  /\ \A j \in DOMAIN found' : \E q \in 1..(at' - 1) : List[q] = found'[j]
                     /\ \A i, j \in DOMAIN found' :
                            found'[i] = found'[j] /\ found'[i] \notin tainted => i = j
            BY <1>1, <2>1, <2>4, WriterSame DEF RInv, CalmReading
        <3>2. /\ Idle /\ header[LenWord] = mem[LenWord] /\ member = List[at]
              /\ \A j \in DOMAIN found : \E q \in 1..(at - 1) : List[q] = found[j]
              /\ \A i, j \in DOMAIN found :
                    found[i] = found[j] /\ found[i] \notin tainted => i = j
            BY <1>1, <3>1 DEF RInv, CalmReading
        <3>3. at \in DOMAIN List /\ DOMAIN List = 1..mem[LenWord] /\ mem[LenWord] \in Nat
            BY <1>1, <3>2, IdleFacts
        <3>4. \A j \in DOMAIN found : \E q \in 1..(at' - 1) : List[q] = found[j]
            <4>1. 1..(at - 1) \subseteq 1..(at' - 1)
                BY <1>1, <2>1
            <4>2. QED
                BY <3>2, <4>1
        <3>5. CASE ~serves
            <4>1. found' = found
                BY <2>1, <3>5
            <4>2. QED
                BY <3>2, <3>4, <4>1
        <3>6. CASE serves
            <4>1. /\ DOMAIN found' = DOMAIN found \cup {Len(found) + 1}
                  /\ found'[Len(found) + 1] = member
                  /\ \A j \in DOMAIN found : found'[j] = found[j]
                BY <1>1, <2>1, <2>2, <3>6
            <4>2. at \in 1..(at' - 1) /\ List[at] = member
                BY <1>1, <2>1, <3>2
            <4>3. ASSUME NEW j \in DOMAIN found, found[j] = member, member \notin tainted
                  PROVE  FALSE
                <5>1. PICK q \in 1..(at - 1) : List[q] = found[j]
                    BY <3>2
                <5>2. q \in DOMAIN List /\ q # at
                    BY <1>1, <3>3, <5>1
                <5>3. QED
                    BY <2>2, <3>2, <3>3, <4>3, <5>1, <5>2, RegistryFacts
            <4>4. QED
                BY <3>2, <3>4, <4>1, <4>2, <4>3
        <3>7. QED
            BY <3>5, <3>6
    <2>11. QED
        BY <1>1, <2>1, <2>5, <2>7, <2>8, <2>9, <2>10
        DEF RInv, JoinsHideNothing, CrashNeedsJoin
<1>5. QED
    BY <1>2, <1>3, <1>4

-----------------------------------------------------------------------------
(* Ghosts.  Without an append in place, what Discover can still load from  *)
(* a slot was listed at some moment of the call, or is empty.              *)

\* What a callback leaves in the slots outside the list.
Leftover ==
    /\ \A w \in Slots \cap DOMAIN stores : w \in {Ptr} \X (1..Length)
    /\ \A k, i : <<k, i>> \in Slots /\ k > Ptr => mem[<<k, i>>] = Nil
    /\ Kind = "grow" =>
           /\ \A i : <<Ptr, i>> \in Slots /\ i >= Length
                         => mem[<<Ptr, i>>] \in {Nil, running[2]}
           /\ mem[PtrWord] # Ptr => Cap[mem[PtrWord]] < Length
    /\ Kind = "leave" =>
           /\ mem[LenWord] <= Length + 1
           /\ \A i : <<Ptr, i>> \in Slots /\ i <= Length + 1
                         => mem[<<Ptr, i>>] \in R!Listed \cup {running[2]}

\* Slot i of array k is within what Discover may still load.
InReach(k, i) ==
    /\ <<k, i>> \in Slots
    /\ k = mem[PtrWord] \/ (Loaded(PtrWord) /\ k = header[PtrWord])
    /\ k = mem[PtrWord] => i <= mem[LenWord] \/ (Loaded(LenWord) /\ i <= header[LenWord])

NoGhost ==
    /\ Reading /\ Loaded(PtrWord) => header[PtrWord] <= mem[PtrWord]
    /\ Reading /\ "append" \notin Overlap =>
           /\ pc = "member" => member \in seen \cup {Nil}
           /\ \A k, i : InReach(k, i) => mem[<<k, i>>] \in seen \cup {Nil}
    /\ GhostNeedsAppend

LEMMA InitGhost == Init => Leftover /\ NoGhost
<1> SUFFICES ASSUME Init PROVE Leftover /\ NoGhost
    OBVIOUS
<1>1. /\ DOMAIN stores = {} /\ Kind = "none" /\ ~Reading /\ found = << >>
      /\ \A w \in Slots : mem[w] = Nil
    BY WordFacts DEF Init, Kind, None, Reading
<1>2. Found = {}
    BY <1>1 DEF Found
<1>3. QED
    BY <1>1, <1>2 DEF Leftover, NoGhost, GhostNeedsAppend

(* While the list moves to another array, every slot of that array is      *)
(* empty or holds an element of the list.                                  *)
LEMMA GrownSlots ==
    ASSUME WInv, Leftover, Kind = "grow"
    PROVE  /\ \A i : <<Ptr, i>> \in Slots => mem[<<Ptr, i>>] \in R!Listed \cup {Nil}
           /\ \A i \in 1..(Length - 1) : mem[<<mem[PtrWord], i>>] \in R!Listed
           /\ mem[LenWord] >= Length - 1 /\ mem[PtrWord] <= Ptr
<1>1. /\ Length >= 1 /\ mem[LenWord] >= Length - 1 /\ mem[PtrWord] <= Ptr
      /\ DOMAIN stores \subseteq {PtrWord, LenWord, <<Ptr, Length>>}
      /\ Settled[<<Ptr, Length>>] = running[2]
      /\ \A i \in 1..(Length - 1) : mem[<<mem[PtrWord], i>>] = mem[<<Ptr, i>>]
    BY DEF WInv, Adding
<1>2. /\ List = [i \in 1..Length |-> Settled[<<Ptr, i>>]] /\ Length \in Nat
      /\ \A i \in 1..Length : <<Ptr, i>> \in Slots
    BY SettledFacts DEF WInv
<1>3. running[2] \in R!Listed
    <2>1. Length \in DOMAIN List /\ List[Length] = running[2]
        BY <1>1, <1>2
    <2>2. QED
        BY <2>1 DEF R!Listed
<1>4. ASSUME NEW i \in 1..(Length - 1) PROVE mem[<<Ptr, i>>] \in R!Listed
    <2>1. <<Ptr, i>> \in Slots /\ i # Length /\ i \in DOMAIN List
        BY <1>2
    <2>2. <<Ptr, i>> \notin DOMAIN stores
        BY <1>1, <2>1, WordFacts
    <2>3. List[i] = mem[<<Ptr, i>>]
        BY <1>2, <2>1, <2>2, SettledFacts DEF WInv, Words
    <2>4. QED
        BY <2>1, <2>3 DEF R!Listed
<1>5. ASSUME NEW i, <<Ptr, i>> \in Slots PROVE mem[<<Ptr, i>>] \in R!Listed \cup {Nil}
    <2>1. i \in Nat /\ i >= 1
        BY <1>5, WordFacts
    <2>2. i \in 1..(Length - 1) \/ i >= Length
        BY <1>2, <2>1
    <2>3. QED
        BY <1>3, <1>4, <1>5, <2>2 DEF Leftover
<1>6. QED
    BY <1>1, <1>4, <1>5

(* What a callback leaves behind when it starts. *)
LEMMA AppendLeftover ==
    ASSUME WInv, Leftover, Idle, NEW n \in Node, mem[LenWord] < Cap[MaxArrays],
           StoreAppend(n)
    PROVE  Leftover'
<1> DEFINE k == mem[PtrWord]
           l == mem[LenWord]
<1>1. /\ k \in 0..MaxArrays /\ l \in Nat /\ l <= Cap[k] /\ Cap[k] \in Nat
      /\ DOMAIN mem = Words /\ DOMAIN stores = {}
      /\ Ptr = k /\ Length = l
      /\ \A i \in 1..l : <<k, i>> \in Slots
    BY IdleFacts, SettledFacts, WordFacts DEF WInv, Shape, InPlace
<1>2. CASE l < Cap[k]
    <2>1. /\ DOMAIN stores' = {LenWord, <<k, l + 1>>} /\ mem' = mem
          /\ stores'[LenWord] = l + 1
          /\ running' = <<"append", n>>
        BY <1>2, WordFacts DEF StoreAppend
    <2>2. PtrWord \notin DOMAIN stores' /\ LenWord \in DOMAIN stores'
        <3>1. <<k, l + 1>> \in Slots
            BY <1>1, <1>2, WordFacts
        <3>2. QED
            BY <2>1, <3>1, WordFacts
    <2>3. Ptr' = k /\ Length' = l + 1 /\ Kind' = "append"
        BY <1>1, <2>1, <2>2 DEF Ptr, Length, Kind, Settled, Words
    <2>4. Slots \cap DOMAIN stores' \subseteq {Ptr'} \X (1..Length')
        BY <1>1, <2>1, <2>3, WordFacts
    <2>5. QED
        BY <1>1, <2>1, <2>3, <2>4 DEF Leftover
<1>3. CASE ~(l < Cap[k])
    <2>1. /\ DOMAIN stores' = {PtrWord, LenWord, <<k + 1, l + 1>>}
          /\ running' = <<"grow", n>>
          /\ mem' = [w \in Words |-> IF w \in {k + 1} \X (1..l)
                                     THEN mem[<<k, w[2]>>] ELSE mem[w]]
        BY <1>1, <1>3 DEF StoreAppend
    <2>2. stores'[PtrWord] = k + 1 /\ stores'[LenWord] = l + 1
        BY <1>1, <1>3, WordFacts DEF StoreAppend
    <2>3. Ptr' = k + 1 /\ Length' = l + 1 /\ Kind' = "grow"
        BY <1>1, <2>1, <2>2 DEF Ptr, Length, Kind, Settled, Words
    <2>4. mem'[PtrWord] = k /\ mem'[LenWord] = l
        <3>1. PtrWord \notin {k + 1} \X (1..l) /\ LenWord \notin {k + 1} \X (1..l)
            BY <1>1 DEF PtrWord, LenWord
        <3>2. QED
            BY <2>1, <3>1 DEF Words
    <2>5. ASSUME NEW j, NEW i, <<j, i>> \in Slots, j # k + 1 \/ ~(i \in 1..l)
          PROVE  mem'[<<j, i>>] = mem[<<j, i>>]
        <3>1. <<j, i>> \notin {k + 1} \X (1..l) /\ <<j, i>> \in Words
            BY <2>5 DEF Words
        <3>2. QED
            BY <2>1, <3>1
    <2>6. Slots \cap DOMAIN stores' \subseteq {Ptr'} \X (1..Length')
        BY <1>1, <2>1, <2>3, WordFacts
    <2>7. ASSUME NEW j, NEW i, <<j, i>> \in Slots, j > Ptr' PROVE mem'[<<j, i>>] = Nil
        <3>1. j \in Nat /\ j # k + 1 /\ j > k
            BY <1>1, <2>3, <2>7, WordFacts
        <3>2. QED
            BY <1>1, <2>5, <2>7, <3>1 DEF Leftover
    <2>8. ASSUME NEW i, <<Ptr', i>> \in Slots, i >= Length' PROVE mem'[<<Ptr', i>>] = Nil
        <3>1. i \in Nat /\ i \notin 1..l /\ k + 1 > k
            BY <1>1, <2>3, <2>8, WordFacts
        <3>2. QED
            BY <1>1, <2>3, <2>5, <2>8, <3>1 DEF Leftover
    <2>9. mem'[PtrWord] # Ptr' => Cap[mem'[PtrWord]] < Length'
        BY <1>1, <1>3, <2>3, <2>4
    <2>10. QED
        BY <2>3, <2>6, <2>7, <2>8, <2>9 DEF Leftover
<1>4. QED
    BY <1>2, <1>3

LEMMA RemoveLeftover ==
    ASSUME WInv, Leftover, Idle, NEW n, NEW j \in 1..mem[LenWord], List[j] = n,
           StoreRemove(n, j)
    PROVE  Leftover'
<1> DEFINE k == mem[PtrWord]
           l == mem[LenWord]
<1>1. /\ k \in 0..MaxArrays /\ l \in Nat
      /\ Ptr = k /\ Length = l /\ DOMAIN stores = {} /\ DOMAIN mem = Words
      /\ List = [i \in 1..l |-> mem[<<k, i>>]]
      /\ List \in Seq(Node) /\ Len(List) = l
      /\ \A i \in 1..l : <<k, i>> \in Slots
    BY IdleFacts, SettledFacts DEF WInv, Shape
<1>2. /\ DOMAIN stores' = {LenWord} \cup ({k} \X (j..(l - 1)))
      /\ stores'[LenWord] = l - 1
      /\ running' = <<"leave", n>> /\ mem' = mem
    BY DEF StoreRemove
<1>3. PtrWord \notin DOMAIN stores'
    <2>1. \A i \in j..(l - 1) : <<k, i>> # PtrWord
        <3>1. \A i \in j..(l - 1) : i \in 1..l
            BY <1>1
        <3>2. QED
            BY <1>1, <3>1, WordFacts
    <2>2. QED
        BY <1>2, <2>1, WordFacts
<1>4. Ptr' = k /\ Length' = l - 1 /\ Kind' = "leave"
    BY <1>1, <1>2, <1>3 DEF Ptr, Length, Kind, Settled, Words
<1>5. Slots \cap DOMAIN stores' \subseteq {Ptr'} \X (1..Length')
    BY <1>1, <1>2, <1>4, WordFacts
<1>6. List' = R!Without(List, j)
    BY RemoveStep
<1>7. ASSUME NEW i, <<Ptr', i>> \in Slots, i <= Length' + 1
      PROVE  mem'[<<Ptr', i>>] \in R!Listed' \cup {running'[2]}
    <2>1. i \in 1..l /\ mem'[<<Ptr', i>>] = List[i]
        BY <1>1, <1>2, <1>4, <1>7, WordFacts
    <2>2. CASE i = j
        BY <1>2, <2>1, <2>2
    <2>3. CASE i < j
        <3>1. i \in DOMAIN List' /\ List'[i] = List[i]
            BY <1>1, <1>6, <2>1, <2>3 DEF R!Without
        <3>2. QED
            BY <2>1, <3>1 DEF R!Listed
    <2>4. CASE i > j
        <3>1. i - 1 \in DOMAIN List' /\ List'[i - 1] = List[i]
            BY <1>1, <1>6, <2>1, <2>4 DEF R!Without
        <3>2. QED
            BY <2>1, <3>1 DEF R!Listed
    <2>5. QED
        BY <2>1, <2>2, <2>3, <2>4
<1>8. QED
    BY <1>1, <1>2, <1>4, <1>5, <1>7 DEF Leftover

LEMMA StoreLeftover ==
    ASSUME WInv, WInv', RP!IInv, Leftover, NEW w \in DOMAIN stores, Store(w)
    PROVE  Leftover'
<1>1. /\ mem' = [mem EXCEPT ![w] = stores[w]]
      /\ DOMAIN stores' = DOMAIN stores \ {w}
      /\ running' = IF DOMAIN stores = {w} THEN None ELSE running
      /\ DOMAIN mem = Words /\ w \in Words
    BY DEF Store, WInv, Shape
<1>2. Ptr' = Ptr /\ Length' = Length /\ List' = List /\ R!Listed' = R!Listed
    BY StoreStep DEF R!Listed
<1>3. /\ \A v \in Words \ {w} : mem'[v] = mem[v]
      /\ mem'[w] = Settled[w]
    BY <1>1, SettledFacts DEF WInv
<1>4. (Kind' = Kind /\ running' = running) \/ Kind' = "none"
    BY <1>1 DEF Kind, None
<1>5. /\ List = [i \in 1..Length |-> Settled[<<Ptr, i>>]] /\ Length \in Nat
      /\ \A i \in 1..Length : <<Ptr, i>> \in Slots
      /\ mem[LenWord] \in Nat /\ Ptr \in Nat
    BY SettledFacts DEF WInv, Shape
<1>6. ASSUME NEW k, NEW i, <<k, i>> \in Slots, k > Ptr PROVE mem'[<<k, i>>] = Nil
    <2>1. <<k, i>> # w
        BY <1>5, <1>6, WordFacts DEF Leftover
    <2>2. QED
        BY <1>3, <1>6, <2>1 DEF Leftover, Words
<1>7. mem'[LenWord] \in {mem[LenWord], Length} /\ mem'[PtrWord] \in {mem[PtrWord], Ptr}
    BY <1>3 DEF Length, Ptr, Words
<1>8. ASSUME Kind' = "grow"
      PROVE  /\ \A i : <<Ptr, i>> \in Slots /\ i >= Length
                           => mem'[<<Ptr, i>>] \in {Nil, running[2]}
             /\ mem'[PtrWord] # Ptr => Cap[mem'[PtrWord]] < Length
    <2>1. Kind = "grow" /\ Settled[<<Ptr, Length>>] = running[2]
        BY <1>4, <1>8 DEF WInv, Adding
    <2>2. ASSUME NEW i, <<Ptr, i>> \in Slots, i >= Length
          PROVE  mem'[<<Ptr, i>>] \in {Nil, running[2]}
        <3>1. CASE <<Ptr, i>> = w
            <4>1. i = Length
                BY <1>5, <2>2, <3>1, WordFacts DEF Leftover
            <4>2. QED
                BY <1>3, <2>1, <3>1, <4>1
        <3>2. CASE <<Ptr, i>> # w
            BY <1>3, <2>1, <2>2, <3>2 DEF Leftover, Words
        <3>3. QED
            BY <3>1, <3>2
    <2>3. QED
        BY <1>7, <2>1, <2>2 DEF Leftover
<1>9. ASSUME Kind' = "leave"
      PROVE  /\ mem'[LenWord] <= Length + 1
             /\ \A i : <<Ptr, i>> \in Slots /\ i <= Length + 1
                           => mem'[<<Ptr, i>>] \in R!Listed \cup {running[2]}
    <2>1. Kind = "leave"
        BY <1>4, <1>9
    <2>2. ASSUME NEW i, <<Ptr, i>> \in Slots, i <= Length + 1
          PROVE  mem'[<<Ptr, i>>] \in R!Listed \cup {running[2]}
        <3>1. CASE <<Ptr, i>> = w
            <4>1. i \in 1..Length
                BY <2>2, <3>1 DEF Leftover
            <4>2. i \in DOMAIN List /\ mem'[<<Ptr, i>>] = List[i]
                BY <1>3, <1>5, <3>1, <4>1
            <4>3. QED
                BY <4>2 DEF R!Listed
        <3>2. CASE <<Ptr, i>> # w
            BY <1>3, <2>1, <2>2, <3>2 DEF Leftover, Words
        <3>3. QED
            BY <3>1, <3>2
    <2>3. QED
        BY <1>5, <1>7, <2>1, <2>2 DEF Leftover
<1>10. \A v \in Slots \cap DOMAIN stores' : v \in {Ptr} \X (1..Length)
    BY <1>1 DEF Leftover
<1>11. /\ Kind' = "grow" => running' = running
       /\ Kind' = "leave" => running' = running
    BY <1>4
<1>12. QED
    BY <1>2, <1>6, <1>8, <1>9, <1>10, <1>11 DEF Leftover

LEMMA CallbackLeftover ==
    ASSUME WInv, WInv', RP!IInv, Leftover, Callback
    PROVE  Leftover'
<1>1. ASSUME NoStore PROVE Leftover'
    <2>1. UNCHANGED <<mem, running, stores, List>>
        BY <1>1, QuietStep DEF NoStore
    <2>2. Ptr' = Ptr /\ Length' = Length /\ Kind' = Kind /\ R!Listed' = R!Listed
        BY <2>1 DEF Ptr, Length, Kind, Settled, R!Listed
    <2>3. QED
        BY <2>1, <2>2 DEF Leftover
<1>2. ASSUME NEW n \in Node, NEW m \in Meta, Join(n, m) PROVE Leftover'
    BY <1>1, <1>2, AppendLeftover DEF Join
<1>3. ASSUME NEW n \in Node, Leave(n) PROVE Leftover'
    <2> DEFINE i == R!IndexOfAny(n, List)
    <2>1. Idle /\ List \in Seq(Node) /\ Len(List) = mem[LenWord]
        BY <1>3, IdleFacts DEF Leave
    <2>2. i # 0 => i \in 1..mem[LenWord] /\ List[i] = n
        BY <2>1, IndexFound
    <2>3. NoStore \/ (i # 0 /\ StoreRemove(n, i))
        BY <1>3 DEF Leave
    <2>4. QED
        BY <1>1, <2>1, <2>2, <2>3, RemoveLeftover
<1>4. QED
    BY <1>1, <1>2, <1>3, StoreLeftover DEF Callback, Update, Probe

(* A step of a callback brings no ghost into the reach of a Discover that  *)
(* no append in place disturbs.                                            *)
LEMMA CallbackNoGhost ==
    ASSUME WInv, WInv', RP!IInv, RInv, RInv', Leftover, NoGhost, Callback, Observe,
           pc # "done"
    PROVE  NoGhost'
<1>1. /\ UNCHANGED reader /\ Found' = Found /\ Reading' = Reading
      /\ \A w : Loaded(w)' = Loaded(w)
      /\ pc' = pc /\ header' = header /\ member' = member
    BY CallbackEffect DEF Found, Loaded, Reading, reader
<1>2. CASE ~Reading
    <2>1. Found = {}
        BY <1>2 DEF Reading, RInv, Stages, Found
    <2>2. QED
        BY <1>1, <1>2, <2>1 DEF NoGhost, GhostNeedsAppend
<1>3. CASE Reading
    <2>1. /\ Overlap \subseteq Overlap' /\ seen \subseteq seen'
          /\ R!Listed \subseteq seen /\ R!Listed' \subseteq seen'
          /\ Idle \/ Kind \in Overlap
        <3>1. /\ overlap' = IF Idle /\ running' # None THEN Append(overlap, running'[1])
                                                       ELSE overlap
              /\ seen' = seen \cup R!Listed'
              /\ overlap \in Seq({"append", "grow", "leave"})
              /\ R!Listed \subseteq seen /\ (Idle \/ Kind \in Overlap)
            BY <1>1, <1>3 DEF Observe, Reading, RInv, Observed
        <3>2. \A e : \A i \in DOMAIN overlap :
                 i \in DOMAIN Append(overlap, e) /\ Append(overlap, e)[i] = overlap[i]
            BY <3>1
        <3>3. QED
            BY <3>1, <3>2 DEF Overlap
    <2>2. /\ mem[PtrWord] \in 0..MaxArrays /\ mem[LenWord] \in Nat
          /\ Ptr \in 0..MaxArrays /\ mem[PtrWord] <= Ptr
          /\ Loaded(PtrWord) => header[PtrWord] \in 0..MaxArrays /\ header[PtrWord] <= mem[PtrWord]
        BY <1>3 DEF WInv, Shape, InPlace, Adding, RInv, Stages, NoGhost
    <2>3. ASSUME NoStore PROVE NoGhost'
        BY <1>1, <1>3, <2>1, <2>3 DEF NoGhost, NoStore, InReach, GhostNeedsAppend
    <2>4. ASSUME mem' = mem PROVE NoGhost'
        BY <1>1, <1>3, <2>1, <2>4 DEF NoGhost, InReach, GhostNeedsAppend
    <2>5. ASSUME mem'[PtrWord] = mem[PtrWord], mem'[LenWord] = mem[LenWord],
                 \A k, i : k <= mem[PtrWord] /\ <<k, i>> \in Slots
                               => mem'[<<k, i>>] = mem[<<k, i>>]
          PROVE  NoGhost'
        <3>1. ASSUME NEW k, NEW i, InReach(k, i)' PROVE InReach(k, i) /\ k <= mem[PtrWord]
            BY <1>1, <2>2, <2>5, <3>1 DEF InReach
        <3>2. QED
            BY <1>1, <1>3, <2>1, <2>2, <2>5, <3>1 DEF NoGhost, GhostNeedsAppend, InReach
    <2>6. ASSUME NEW w \in DOMAIN stores, Store(w) PROVE NoGhost'
        <3>1. /\ mem' = [mem EXCEPT ![w] = stores[w]] /\ DOMAIN mem = Words
              /\ w \in Words /\ stores[w] = Settled[w] /\ ~Idle
            BY <2>6, IdleFacts, SettledFacts DEF Store, WInv, Shape
        <3>2. Reading /\ Loaded(PtrWord) => header[PtrWord] <= mem'[PtrWord]
            BY <2>2, <3>1 DEF Ptr, Words
        <3>3. ASSUME "append" \notin Overlap, NEW k, NEW i, InReach(k, i)'
              PROVE  mem'[<<k, i>>] \in seen' \cup {Nil}
            <4>1. /\ <<k, i>> \in Slots /\ <<k, i>> \in Words /\ i \in 1..Cap[k]
                  /\ k = mem'[PtrWord] \/ (Loaded(PtrWord) /\ k = header[PtrWord])
                  /\ k = mem'[PtrWord] =>
                        i <= mem'[LenWord] \/ (Loaded(LenWord) /\ i <= header[LenWord])
                BY <1>1, <3>3, WordFacts DEF InReach, Words
            <4>2. Kind # "append"
                BY <2>1, <3>1, <3>3
            <4>3. CASE <<k, i>> = w
                <5>1. k = Ptr /\ i \in 1..Length
                    BY <4>1, <4>3 DEF Leftover
                <5>2. i \in DOMAIN List /\ List[i] = stores[w]
                    BY <3>1, <4>3, <5>1, SettledFacts DEF WInv
                <5>3. QED
                    BY <2>1, <3>1, <4>3, <5>2 DEF R!Listed
            <4>4. CASE <<k, i>> # w /\ InReach(k, i)
                BY <1>3, <2>1, <3>1, <3>3, <4>1, <4>4 DEF NoGhost
            <4>5. CASE <<k, i>> # w /\ ~InReach(k, i)
                <5>1. mem'[<<k, i>>] = mem[<<k, i>>]
                    BY <3>1, <4>1, <4>5
                <5>2. w = PtrWord \/ w = LenWord
                    BY <1>1, <3>1, <4>1, <4>5, WordFacts DEF InReach, Words
                <5>3. Kind = "grow"
                    <6>1. CASE Kind = "leave"
                        <7>1. Ptr = mem[PtrWord] /\ Length <= mem[LenWord]
                            BY <6>1 DEF WInv, InPlace, Filled
                        <7>2. mem'[PtrWord] = mem[PtrWord] /\ mem'[LenWord] <= mem[LenWord]
                            BY <2>2, <3>1, <5>2, <7>1 DEF Ptr, Length, Words
                        <7>3. mem'[LenWord] \in Nat /\ i \in Nat
                            BY <4>1 DEF WInv, Shape
                        <7>4. InReach(k, i)
                            BY <2>2, <4>1, <7>2, <7>3 DEF InReach
                        <7>5. QED
                            BY <4>5, <7>4
                    <6>2. QED
                        BY <3>1, <4>2, <6>1 DEF WInv, Lock
                <5>4. CASE k = Ptr
                    BY <2>1, <4>1, <5>1, <5>3, <5>4, GrownSlots
                <5>5. CASE k # Ptr
                    <6>1. k = mem[PtrWord]
                        <7>1. CASE k = mem'[PtrWord]
                            BY <3>1, <5>2, <5>5, <7>1 DEF Ptr, Words
                        <7>2. CASE k # mem'[PtrWord]
                            BY <4>1, <4>5, <7>2 DEF InReach
                        <7>3. QED
                            BY <7>1, <7>2
                    <6>2. Cap[k] < Length /\ Cap[k] \in Nat /\ Length \in Nat
                        BY <2>2, <5>3, <5>5, <6>1, SettledFacts, WordFacts DEF WInv, Leftover
                    <6>3. i \in 1..(Length - 1)
                        BY <4>1, <6>2
                    <6>4. QED
                        BY <2>1, <5>1, <5>3, <6>1, <6>3, GrownSlots
                <5>6. QED
                    BY <5>4, <5>5
            <4>6. QED
                BY <4>3, <4>4, <4>5
        <3>4. QED
            BY <1>1, <1>3, <2>1, <3>2, <3>3 DEF NoGhost, GhostNeedsAppend
    <2>7. QED
        BY <2>3, <2>4, <2>5, <2>6, CallbackEffect
<1>4. QED
    BY <1>2, <1>3

(* Neither does a step of Discover. *)
LEMMA StartNoGhost ==
    ASSUME WInv, RInv, RInv', Leftover, Start, UNCHANGED writer, Observe
    PROVE  NoGhost'
<1>1. /\ pc = "idle" /\ pc' = "header" /\ Found' = {} /\ \A w : ~Loaded(w)'
    BY DEF Start, RInv, Stages, Found, Loaded
<1>2. /\ seen' = R!Listed \cup ({running[2]} \ {Nil})
      /\ mem' = mem /\ stores' = stores
    BY <1>1 DEF Observe, writer
<1>3. Idle \/ Kind \in Overlap'
    <2>1. Idle' = Idle /\ Kind' = Kind
        BY WriterSame
    <2>2. QED
        BY <1>1, <2>1 DEF RInv, Observed
<1>4. ASSUME "append" \notin Overlap', NEW i, <<mem[PtrWord], i>> \in Slots,
             i <= mem[LenWord]
      PROVE  mem[<<mem[PtrWord], i>>] \in seen' \cup {Nil}
    <2>1. i \in 1..Cap[mem[PtrWord]] /\ i \in 1..mem[LenWord]
        BY <1>4, WordFacts DEF WInv, Shape
    <2>2. CASE Idle
        <3>1. List = [j \in 1..mem[LenWord] |-> mem[<<mem[PtrWord], j>>]]
            BY <2>2, IdleFacts
        <3>2. QED
            BY <1>2, <2>1, <3>1 DEF R!Listed
    <2>3. CASE Kind = "leave"
        <3>1. mem[PtrWord] = Ptr /\ mem[LenWord] <= Length + 1
            BY <2>3 DEF WInv, InPlace, Leftover
        <3>2. i <= Length + 1
            BY <1>4, <2>1, <3>1, SettledFacts DEF WInv, Shape
        <3>3. QED
            BY <1>2, <1>4, <2>3, <3>1, <3>2 DEF Leftover
    <2>4. CASE Kind = "grow" /\ mem[PtrWord] = Ptr
        BY <1>2, <1>4, <2>4, GrownSlots
    <2>5. CASE Kind = "grow" /\ mem[PtrWord] # Ptr
        <3>1. Cap[mem[PtrWord]] < Length /\ Cap[mem[PtrWord]] \in Nat /\ Length \in Nat
            BY <2>5, SettledFacts, WordFacts DEF WInv, Shape, Leftover
        <3>2. i \in 1..(Length - 1)
            BY <2>1, <3>1
        <3>3. QED
            BY <1>2, <2>5, <3>2, GrownSlots
    <2>6. QED
        BY <1>3, <1>4, <2>2, <2>3, <2>4, <2>5 DEF WInv, Lock
<1>5. QED
    BY <1>1, <1>2, <1>4 DEF NoGhost, GhostNeedsAppend, InReach

LEMMA ReaderNoGhost ==
    ASSUME WInv, RInv, NoGhost, UNCHANGED writer, Observe,
           \/ \E w \in {PtrWord, LenWord} : LoadHeader(w)
           \/ LoadSlot
           \/ LoadMember
    PROVE  NoGhost'
<1>1. mem' = mem
    BY DEF writer
<1>2. /\ pc # "idle" /\ pc' # "idle" /\ Reading
      /\ found \in Seq(Node)
    BY DEF LoadHeader, LoadSlot, LoadMember, End, Reading, RInv, Stages
<1>3. seen' = seen /\ Overlap' = Overlap
    BY <1>2, ReaderHistory
<1>4. ASSUME NEW o, End(o) PROVE NoGhost'
    BY <1>2, <1>3, <1>4 DEF End, NoGhost, GhostNeedsAppend, Reading, Found
<1>5. ASSUME NEW w \in {PtrWord, LenWord}, LoadHeader(w) PROVE NoGhost'
    <2>1. /\ \A v : Loaded(v)' <=> Loaded(v) \/ v = w
          /\ header'[w] = mem[w]
          /\ \A v : Loaded(v) => header'[v] = header[v]
          /\ pc' # "member" /\ Found' = Found
        BY <1>5 DEF LoadHeader, Loaded, Found
    <2>2. ASSUME NEW k, NEW i, InReach(k, i)' PROVE InReach(k, i)
        BY <1>1, <2>1, <2>2 DEF InReach
    <2>3. mem[PtrWord] \in Nat
        BY DEF WInv, Shape
    <2>4. QED
        BY <1>1, <1>2, <1>3, <2>1, <2>2, <2>3 DEF NoGhost, GhostNeedsAppend
<1>6. ASSUME LoadSlot PROVE NoGhost'
    <2>1. CASE at <= header[LenWord] /\ at <= Cap[header[PtrWord]]
        <3>1. /\ pc = "slot" /\ Loaded(PtrWord) /\ Loaded(LenWord) /\ at \in Nat \ {0}
              /\ header[PtrWord] \in 0..MaxArrays /\ header[LenWord] \in Nat
            BY <1>6 DEF LoadSlot, RInv, Stages
        <3>2. /\ member' = mem[<<header[PtrWord], at>>]
              /\ UNCHANGED <<header, found>>
            BY <1>6, <2>1, <3>1, WordFacts DEF LoadSlot
        <3>3. InReach(header[PtrWord], at)
            BY <2>1, <3>1, WordFacts DEF InReach
        <3>4. QED
            BY <1>1, <1>2, <1>3, <3>2, <3>3
            DEF NoGhost, GhostNeedsAppend, InReach, Found, Loaded
    <2>2. CASE ~(at <= header[LenWord] /\ at <= Cap[header[PtrWord]])
        <3>1. End("ok") \/ End("wild")
            <4>1. /\ header[LenWord] \in Nat /\ at \in Nat
                  /\ Cap[header[PtrWord]] \in Nat
                BY <1>6, WordFacts DEF LoadSlot, RInv, Stages
            <4>2. QED
                BY <1>6, <2>2, <4>1 DEF LoadSlot
        <3>2. QED
            BY <1>4, <3>1
    <2>3. QED
        BY <2>1, <2>2
<1>7. ASSUME LoadMember PROVE NoGhost'
    <2>1. \/ End("nil") \/ End("error")
          \/ /\ pc' = "slot" /\ header' = header
             /\ member # Nil /\ found' \in {found, Append(found, member)}
        BY <1>7 DEF LoadMember
    <2>2. ASSUME pc' = "slot", header' = header, member # Nil,
                 found' \in {found, Append(found, member)}
          PROVE  NoGhost'
        <3>1. Found' \subseteq Found \cup {member}
            BY <1>2, <2>2 DEF Found
        <3>2. pc = "member"
            BY <1>7 DEF LoadMember
        <3>3. QED
            BY <1>1, <1>2, <1>3, <2>2, <3>1, <3>2
            DEF NoGhost, GhostNeedsAppend, InReach, Loaded
    <2>3. QED
        BY <1>4, <2>1, <2>2
<1>8. QED
    BY <1>5, <1>6, <1>7

-----------------------------------------------------------------------------
(* The inductive invariant of callbacks and Discover together. *)
IInv == WInv /\ RP!IInv /\ RInv /\ Leftover /\ NoGhost

LEMMA StepIInv == IInv /\ [Next]_vars => IInv' /\ [R!Next]_(R!vars)
<1> SUFFICES ASSUME IInv, [Next]_vars PROVE IInv' /\ [R!Next]_(R!vars)
    OBVIOUS
<1> USE DEF IInv
<1>1. CASE process = "running" /\ pc # "done" /\ Callback /\ Observe
    <2>1. WInv' /\ RP!IInv' /\ [R!Next]_(R!vars)
        BY <1>1, CallbackStep
    <2>2. RInv' /\ Leftover'
        BY <1>1, <2>1, CallbackRInv, CallbackLeftover
    <2>3. NoGhost'
        BY <1>1, <2>1, <2>2, CallbackNoGhost
    <2>4. QED
        BY <2>1, <2>2, <2>3
<1>2. CASE process = "running" /\ pc # "done" /\ Discover /\ Observe
    <2>1. UNCHANGED writer
        BY <1>2 DEF Discover
    <2>2. WInv' /\ RP!IInv' /\ UNCHANGED R!vars
        BY <2>1, WriterUnchanged
    <2>3. RInv'
        BY <1>2, <2>1, StartRInv, HeaderRInv, SlotRInv, MemberRInv DEF Discover
    <2>4. Leftover'
        BY <2>1, WriterSame DEF Leftover
    <2>5. NoGhost'
        BY <1>2, <2>1, <2>3, StartNoGhost, ReaderNoGhost DEF Discover
    <2>6. QED
        BY <2>2, <2>3, <2>4, <2>5
<1>3. CASE UNCHANGED vars
    <2>1. UNCHANGED writer /\ UNCHANGED reader /\ UNCHANGED <<overlap, seen, kept>>
        BY <1>3 DEF vars, writer, reader
    <2>2. WInv' /\ RP!IInv' /\ UNCHANGED R!vars
        BY <2>1, WriterUnchanged
    <2>3. /\ Reading' = Reading /\ Found' = Found /\ Overlap' = Overlap
          /\ \A w : Loaded(w)' = Loaded(w)
          /\ \A n, i : Place(n, i)' = Place(n, i)
        BY <2>1, WriterSame DEF reader, Reading, Found, Overlap, Loaded, Place
    <2>4. Stages' /\ Observed'
        BY <2>1, <2>3, WriterSame DEF reader, RInv, Stages, Observed
    <2>5. SameArray' /\ NoEmptySlot'
        BY <2>1, <2>3, WriterSame DEF reader, RInv, SameArray, NoEmptySlot
    <2>6. NothingHidden'
        BY <2>1, <2>3, WriterSame DEF reader, RInv, NothingHidden
    <2>7. CalmReading'
        BY <2>1, <2>3, WriterSame DEF reader, RInv, CalmReading
    <2>8. JoinsHideNothing' /\ CrashNeedsJoin'
        BY <2>1, <2>3 DEF reader, RInv, JoinsHideNothing, CrashNeedsJoin
    <2>9. Leftover'
        BY <2>1, WriterSame DEF Leftover
    <2>10. \A k, i : InReach(k, i)' = InReach(k, i)
        BY <2>1, <2>3, WriterSame DEF reader, InReach
    <2>11. NoGhost'
        BY <2>1, <2>3, <2>10, WriterSame DEF reader, NoGhost, GhostNeedsAppend
    <2>12. QED
        BY <2>2, <2>4, <2>5, <2>6, <2>7, <2>8, <2>9, <2>11 DEF RInv
<1>4. QED
    BY <1>1, <1>2, <1>3 DEF Next

LEMMA Invariance == Spec => []IInv
<1>1. Init => IInv
    BY InitWInv, InitRegistry, InitRInv, InitGhost DEF IInv
<1>2. QED
    BY <1>1, StepIInv, PTL DEF Spec

(* A Discover that runs meanwhile changes nothing of that. *)
THEOREM SliceIsListRead == Spec => SliceIsList
<1>1. Init => R!Init
    BY InitRegistry
<1>2. QED
    BY <1>1, StepIInv, Invariance, PTL DEF Spec, SliceIsList, R!Spec

(* Without an append in place Discover answers only nodes that were listed *)
(* at some moment of the call (node.go:47-70), whatever leaves and growths *)
(* left in the slots outside the list (eventdelegate.go:23, 37).           *)
THEOREM GhostsNeedAppend == Spec => []GhostNeedsAppend
<1>1. IInv => GhostNeedsAppend
    BY DEF IInv, NoGhost
<1>2. QED
    BY <1>1, Invariance, PTL

(* Discover reads a nil pointer only if an append ran meanwhile, and beyond *)
(* its array only if the slice was reallocated.                            *)
THEOREM CrashOnlyAfterJoin == Spec => []CrashNeedsJoin
<1>1. IInv => CrashNeedsJoin
    BY DEF IInv, RInv
<1>2. QED
    BY <1>1, Invariance, PTL

(* Joins alone hide no node that was listed and of the service throughout. *)
THEOREM JoinsHideNone == Spec => []JoinsHideNothing
<1>1. IInv => JoinsHideNothing
    BY DEF IInv, RInv
<1>2. QED
    BY <1>1, Invariance, PTL

(* Without a store meanwhile Discover answers what it should, each node    *)
(* that always announced parsable meta data once.                          *)
THEOREM CalmDiscoverIsExact == Spec => []CalmDiscoverExact
<1>1. IInv => CalmDiscoverExact
    BY DEF IInv, RInv, CalmReading, CalmDiscoverExact, JoinsHideNothing, Observed,
           NoGhost, GhostNeedsAppend, Overlap
<1>2. QED
    BY <1>1, Invariance, PTL
============================================================================
