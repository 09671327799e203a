--------------------------- MODULE RegistryProofs ---------------------------
(***************************************************************************)
(* Theorems about Registry.tla, for every set of nodes, services and meta  *)
(* data and every bound.                                                   *)
(***************************************************************************)
EXTENDS Registry, WellFoundedInduction, TLAPS

(* A non-empty set of natural numbers has a least element. *)
LEMMA LeastElement ==
    ASSUME NEW S \in SUBSET Nat, S # {}
    PROVE  \E x \in S : \A y \in S : x <= y
<1>1. \E x \in S : \A y \in S : ~(<<y, x>> \in OpToRel(<, Nat))
    BY NatLessThanWellFounded, WFMin
<1>2. PICK x \in S : \A y \in S : ~(<<y, x>> \in OpToRel(<, Nat))
    BY <1>1
<1>3. ASSUME NEW y \in S PROVE x <= y
    <2>1. ~(y < x)
        BY <1>2, Zenon DEF OpToRel
    <2>2. QED
        BY <2>1
<1>4. QED
    BY <1>3

(* IndexOfAny returns the first position of a pointer that occurs in the   *)
(* slice, and 0 for one that does not.                                     *)
LEMMA IndexOfAnyFound ==
    ASSUME NEW n, NEW s \in Seq(Node), NEW k \in DOMAIN s, s[k] = n
    PROVE  /\ IndexOfAny(n, s) \in 1..Len(s)
           /\ s[IndexOfAny(n, s)] = n
<1> DEFINE S == {i \in DOMAIN s : s[i] = n}
<1>1. DOMAIN s = 1..Len(s)
    OBVIOUS
<1>2. S \in SUBSET Nat /\ S # {}
    BY <1>1
<1>3. PICK x \in S : \A y \in S : x <= y
    BY <1>2, LeastElement
<1>4. s[x] = n /\ \A j \in 1..(x - 1) : s[j] # n
    BY <1>1, <1>3
<1>5. QED
    BY <1>1, <1>3, <1>4 DEF IndexOfAny

LEMMA IndexOfAnyMissing ==
    ASSUME NEW n, NEW s, \A i \in DOMAIN s : s[i] # n
    PROVE  IndexOfAny(n, s) = 0
BY DEF IndexOfAny

(* What Without keeps: every entry but the one at position i, in order.    *)
LEMMA WithoutEntries ==
    ASSUME NEW s \in Seq(Node), NEW i \in 1..Len(s)
    PROVE  /\ Without(s, i) \in Seq(Node)
           /\ Len(Without(s, i)) = Len(s) - 1
           /\ DOMAIN Without(s, i) = 1..(Len(s) - 1)
           /\ \A j \in 1..(Len(s) - 1) :
                 Without(s, i)[j] = s[IF j < i THEN j ELSE j + 1]
BY DEF Without

(* The recursion of Filter has a solution: each prefix of the slice extends *)
(* the solution for the one before it.                                     *)
FilterRule(s, K, f) ==
    f = [k \in 0..Len(s) |-> IF k = 0 THEN << >>
                             ELSE IF k \in K THEN Append(f[k - 1], s[k])
                             ELSE f[k - 1]]

LEMMA FilterExists ==
    ASSUME NEW S, NEW s \in Seq(S), NEW K
    PROVE  \E f : FilterRule(s, K, f)
<1> DEFINE Rule(f, n) ==
        \A k \in 0..n : f[k] = IF k = 0 THEN << >>
                               ELSE IF k \in K THEN Append(f[k - 1], s[k])
                               ELSE f[k - 1]
           Good(n) == \E f : f = [k \in 0..n |-> f[k]] /\ Rule(f, n)
           Bad == {n \in 0..Len(s) : ~Good(n)}
<1>1. Len(s) \in Nat
    OBVIOUS
<1>2. Good(0)
    <2>1. [k \in 0..0 |-> << >>] = [k \in 0..0 |-> [j \in 0..0 |-> << >>][k]]
        OBVIOUS
    <2>2. Rule([k \in 0..0 |-> << >>], 0)
        OBVIOUS
    <2>3. QED
        BY <2>1, <2>2
<1>3. ASSUME NEW n \in Nat, Good(n) PROVE Good(n + 1)
    <2>1. PICK f : f = [k \in 0..n |-> f[k]] /\ Rule(f, n)
        BY <1>3
    <2> DEFINE new == IF n + 1 \in K THEN Append(f[n], s[n + 1]) ELSE f[n]
               g == [k \in 0..(n + 1) |-> IF k = n + 1 THEN new ELSE f[k]]
    <2>2. g = [k \in 0..(n + 1) |-> g[k]]
        OBVIOUS
    <2>3. /\ g[n + 1] = new
          /\ \A k \in 0..n : g[k] = f[k]
        OBVIOUS
    <2> HIDE DEF g
    <2>4. \A k \in 0..n : k - 1 \in 0..n \/ k = 0
        OBVIOUS
    <2>5. Rule(g, n + 1)
        <3>1. ASSUME NEW k \in 0..n
              PROVE  g[k] = IF k = 0 THEN << >>
                            ELSE IF k \in K THEN Append(g[k - 1], s[k])
                            ELSE g[k - 1]
            BY <2>1, <2>3, <2>4
        <3>2. n + 1 # 0 /\ (n + 1) - 1 = n /\ n \in 0..n
            OBVIOUS
        <3>3. g[n + 1] = IF n + 1 \in K THEN Append(g[n], s[n + 1]) ELSE g[n]
            BY <2>3, <3>2
        <3>4. \A k \in 0..(n + 1) : k \in 0..n \/ k = n + 1
            OBVIOUS
        <3>5. QED
            BY <3>1, <3>2, <3>3, <3>4
    <2>6. QED
        BY <2>2, <2>5
<1>4. Bad = {}
    <2>1. SUFFICES ASSUME Bad # {} PROVE FALSE
        OBVIOUS
    <2> HIDE DEF Good
    <2>2. PICK n \in Bad : \A x \in Bad : n <= x
        <3>1. Bad \in SUBSET Nat
            BY <1>1
        <3> HIDE DEF Bad
        <3>2. QED
            BY <2>1, <3>1, LeastElement
    <2>3. n \in Nat /\ n # 0 /\ n - 1 \in Nat /\ n - 1 \notin Bad
        BY <1>1, <1>2, <2>2
    <2>4. Good(n - 1)
        BY <1>1, <2>2, <2>3
    <2>5. (n - 1) + 1 = n
        BY <2>3
    <2>6. QED
        BY <1>3, <2>2, <2>3, <2>4, <2>5
<1>5. Good(Len(s))
    BY <1>1, <1>4
<1>6. QED
    BY <1>5 DEF FilterRule

(* The answer has exactly the elements at the positions K, once each when  *)
(* those are distinct.                                                     *)
LEMMA FilterEntries ==
    ASSUME NEW S, NEW s \in Seq(S), NEW K \in SUBSET DOMAIN s
    PROVE  /\ Filter(s, K) \in Seq(S)
           /\ Len(Filter(s, K)) <= Len(s)
           /\ {Filter(s, K)[j] : j \in DOMAIN Filter(s, K)} = {s[k] : k \in K}
           /\ (\A i, j \in K : s[i] = s[j] => i = j)
                 => \A i, j \in DOMAIN Filter(s, K) :
                        Filter(s, K)[i] = Filter(s, K)[j] => i = j
<1> DEFINE f == CHOOSE g : FilterRule(s, K, g)
           Elements(t) == {t[j] : j \in DOMAIN t}
           Distinct(t) == \A i, j \in DOMAIN t : t[i] = t[j] => i = j
           First(n) == {k \in K : k <= n}
           Good(n) == /\ f[n] \in Seq(S) /\ Len(f[n]) <= n
                      /\ Elements(f[n]) = {s[k] : k \in First(n)}
                      /\ (\A i, j \in K : s[i] = s[j] => i = j) => Distinct(f[n])
           Bad == {n \in 0..Len(s) : ~Good(n)}
<1>1. Len(s) \in Nat /\ DOMAIN s = 1..Len(s)
    OBVIOUS
<1>2. Filter(s, K) = f[Len(s)]
    BY DEF Filter, FilterRule
<1>3. \A k \in 0..Len(s) : f[k] = IF k = 0 THEN << >>
                                  ELSE IF k \in K THEN Append(f[k - 1], s[k])
                                  ELSE f[k - 1]
    <2>1. FilterRule(s, K, f)
        BY FilterExists
    <2> HIDE DEF f
    <2>2. QED
        BY <2>1, Zenon DEF FilterRule
<1> HIDE DEF f
<1>4. Good(0)
    <2>1. f[0] = << >> /\ First(0) = {}
        BY <1>1, <1>3
    <2>2. QED
        BY <2>1
<1>5. ASSUME NEW n \in 1..Len(s), Good(n - 1) PROVE Good(n)
    <2>1. CASE n \in K
        <3>1. f[n] = Append(f[n - 1], s[n]) /\ s[n] \in S
            <4>1. n \in 0..Len(s) /\ n # 0 /\ n \in DOMAIN s
                BY <1>1
            <4>2. s[n] \in S
                BY <4>1
            <4>3. QED
                BY <1>3, <2>1, <4>1, <4>2
        <3>2. First(n) = First(n - 1) \cup {n}
            BY <1>1, <2>1
        <3> DEFINE t == f[n - 1]
        <3>3. t \in Seq(S) /\ Len(t) <= n - 1 /\ Elements(t) = {s[k] : k \in First(n - 1)}
            BY <1>5
        <3>4. /\ f[n] \in Seq(S) /\ Len(f[n]) = Len(t) + 1
              /\ DOMAIN f[n] = 1..(Len(t) + 1) /\ DOMAIN t = 1..Len(t)
              /\ \A j \in 1..Len(t) : f[n][j] = t[j]
              /\ f[n][Len(t) + 1] = s[n]
            BY <3>1, <3>3
        <3> HIDE DEF t
        <3>5. Elements(f[n]) = Elements(t) \cup {s[n]}
            <4>1. Len(t) \in Nat
                BY <3>3
            <4>2. DOMAIN f[n] = DOMAIN t \cup {Len(t) + 1}
                BY <3>4, <4>1
            <4>3. QED
                BY <3>4, <4>2
        <3>6. Elements(f[n]) = {s[k] : k \in First(n)}
            BY <3>2, <3>3, <3>5
        <3>7. ASSUME \A i, j \in K : s[i] = s[j] => i = j PROVE Distinct(f[n])
            <4>1. Distinct(t)
                BY <1>5, <3>7 DEF t
            <4>2. ASSUME NEW j \in DOMAIN t PROVE t[j] # s[n]
                <5>1. PICK k \in First(n - 1) : t[j] = s[k]
                    BY <3>3
                <5>2. k \in K /\ k # n
                    BY <1>1, <5>1
                <5>3. QED
                    BY <2>1, <3>7, <5>1, <5>2
            <4>3. QED
                BY <3>3, <3>4, <4>1, <4>2
        <3>8. QED
            <4>1. Len(t) \in Nat
                BY <3>3
            <4>2. Len(f[n]) <= n
                BY <1>1, <3>3, <3>4, <4>1
            <4> HIDE DEF Elements, Distinct
            <4>3. QED
                BY <3>4, <3>6, <3>7, <4>2
    <2>2. CASE n \notin K
        <3>1. f[n] = f[n - 1]
            BY <1>1, <1>3, <2>2
        <3>2. First(n) = First(n - 1)
            BY <1>1, <2>2
        <3>3. Len(f[n]) <= n - 1 => Len(f[n]) <= n
            BY <1>5, <3>1
        <3>4. QED
            BY <1>5, <3>1, <3>2, <3>3
    <2>3. QED
        BY <2>1, <2>2
<1>6. Bad = {}
    <2>1. SUFFICES ASSUME Bad # {} PROVE FALSE
        OBVIOUS
    <2> HIDE DEF Good
    <2>2. PICK n \in Bad : \A x \in Bad : n <= x
        <3>1. Bad \in SUBSET Nat
            BY <1>1
        <3> HIDE DEF Bad
        <3>2. QED
            BY <2>1, <3>1, LeastElement
    <2>3. n \in 1..Len(s) /\ n - 1 \in 0..Len(s) /\ n - 1 \notin Bad
        BY <1>1, <1>4, <2>2
    <2>4. QED
        BY <1>5, <2>2, <2>3
<1>7. Good(Len(s))
    <2>1. Len(s) \in 0..Len(s)
        BY <1>1
    <2> HIDE DEF Good
    <2>2. QED
        BY <1>6, <2>1
<1>8. First(Len(s)) = K
    BY <1>1
<1>9. QED
    BY <1>2, <1>7, <1>8
-----------------------------------------------------------------------------
(* The inductive invariant.  MembersExact alone is not inductive: that     *)
(* NotifyLeave does not skip an untainted node needs its record to hold    *)
(* meta data that can be parsed.  LiveListed says what is left of          *)
(* MembersExact for a tainted node: while it announces what can be parsed, *)
(* it is in the slice, or the process has panicked.                        *)
LiveParsable == \A n \in Live : Parsable(meta[n]) \/ n \in tainted
LiveListed == process = "running" =>
                  \A n \in Live : Parsable(meta[n]) => n \in Listed

IInv == TypeOK /\ LiveParsable /\ LiveListed /\ MembersExact /\ PanicNeedsTaint

LEMMA InitIInv == Init => IInv
<1> SUFFICES ASSUME Init PROVE IInv
    OBVIOUS
<1>1. (CHOOSE m \in Meta : TRUE) \in Meta
    BY RegistryAssumption
<1>2. TypeOK
    BY <1>1 DEF Init, TypeOK
<1>3. Live = {} /\ Listed = {}
    BY DEF Init, Live, Listed
<1>4. QED
    BY <1>2, <1>3 DEF Init, IInv, LiveParsable, LiveListed, MembersExact, PanicNeedsTaint

(* Announcing n marks it alive and tells which nodes are tainted. *)
LEMMA AnnounceEffect ==
    ASSUME TypeOK, LiveParsable, NEW n \in Node, NEW m \in Meta, Announce(n, m)
    PROVE  /\ status' \in [Node -> {"alive", "suspect", "dead"}]
           /\ meta' \in [Node -> Meta]
           /\ tainted' \in SUBSET Node /\ tainted \subseteq tainted'
           /\ Live' = Live \cup {n}
           /\ meta'[n] = m /\ \A x \in Node \ {n} : meta'[x] = meta[x]
           /\ LiveParsable'
           /\ ~Parsable(m) => n \in tainted'
           /\ tainted' \subseteq tainted \cup {n}
BY DEF TypeOK, LiveParsable, Live, Announce, Parsable

LEMMA JoinIInv ==
    ASSUME IInv, NEW n \in Node, NEW m \in Meta, Join(n, m)
    PROVE  IInv'
<1> USE DEF IInv
<1>1. Announce(n, m) /\ n \notin Live /\ NotifyJoin(n, m)
    BY DEF Join
<1>2. members \in Seq(Node) /\ process' = process
    BY <1>1 DEF TypeOK, NotifyJoin
<1>3. CASE Parsable(m)
    <2>1. members' = Append(members, n)
        BY <1>1, <1>3 DEF NotifyJoin
    <2>2. /\ members' \in Seq(Node)
          /\ DOMAIN members' = 1..(Len(members) + 1)
          /\ \A i \in DOMAIN members : members'[i] = members[i]
          /\ members'[Len(members) + 1] = n
          /\ DOMAIN members = 1..Len(members)
        BY <1>2, <2>1
    <2>3. TypeOK'
        BY <1>1, <1>2, <2>2, AnnounceEffect DEF TypeOK
    <2>4. ASSUME NEW x \in Node \ tainted'
          PROVE  /\ x \in Listed' <=> x \in Live'
                 /\ \A i, j \in DOMAIN members' :
                        members'[i] = x /\ members'[j] = x => i = j
        <3>1. x \in Node \ tainted
            BY <1>1, AnnounceEffect
        <3>2. x \in Listed <=> x \in Live
            BY <3>1 DEF MembersExact
        <3>3. x \in Listed' <=> x \in Listed \/ x = n
            BY <2>2 DEF Listed
        <3>4. CASE x = n
            <4>1. \A i \in DOMAIN members : members[i] # n
                BY <1>1, <3>2, <3>4 DEF Listed
            <4>2. QED
                BY <1>1, <2>2, <3>3, <3>4, <4>1, AnnounceEffect
        <3>5. CASE x # n
            <4>1. \A i, j \in DOMAIN members :
                      members[i] = x /\ members[j] = x => i = j
                BY <3>1 DEF MembersExact
            <4>2. QED
                BY <1>1, <2>2, <3>2, <3>3, <3>5, <4>1, AnnounceEffect
        <3>6. QED
            BY <3>4, <3>5
    <2>5. MembersExact'
        BY <2>4 DEF MembersExact
    <2>6. LiveListed'
        <3>1. Listed' = Listed \cup {n}
            BY <2>2 DEF Listed
        <3>2. \A x \in Live' : x = n \/ (x \in Live /\ meta'[x] = meta[x])
            BY <1>1, AnnounceEffect DEF Live
        <3>3. QED
            BY <1>2, <3>1, <3>2 DEF LiveListed, Parsable
    <2>7. QED
        BY <1>1, <1>2, <2>3, <2>5, <2>6, AnnounceEffect DEF PanicNeedsTaint
<1>4. CASE ~Parsable(m)
    <2>1. members' = members
        BY <1>1, <1>4 DEF NotifyJoin
    <2>2. n \in tainted' /\ Live' = Live \cup {n} /\ tainted \subseteq tainted'
        BY <1>1, <1>4, AnnounceEffect
    <2>3. Listed' = Listed
        BY <2>1 DEF Listed
    <2>4. MembersExact'
        BY <2>1, <2>2, <2>3 DEF MembersExact
    <2>5. LiveListed'
        <3>1. \A x \in Live' : x = n \/ (x \in Live /\ meta'[x] = meta[x])
            BY <1>1, AnnounceEffect DEF Live
        <3>2. QED
            BY <1>1, <1>2, <1>4, <2>3, <3>1, AnnounceEffect DEF LiveListed, Parsable
    <2>6. QED
        BY <1>1, <1>2, <2>1, <2>2, <2>4, <2>5, AnnounceEffect DEF TypeOK, PanicNeedsTaint
<1>5. QED
    BY <1>3, <1>4

LEMMA UpdateIInv ==
    ASSUME IInv, NEW n \in Node, NEW m \in Meta, Update(n, m)
    PROVE  IInv' /\ members' = members
<1> USE DEF IInv
<1>1. Announce(n, m) /\ n \in Live /\ NotifyUpdate(n, m)
    BY DEF Update
<1> DEFINE k == IndexOfAny(n, members)
<1>2. members' = members
    <2>1. CASE Parsable(m) /\ k # 0
        <3>1. \E i \in DOMAIN members : members[i] = n
            BY <2>1, IndexOfAnyMissing
        <3>2. k \in DOMAIN members /\ members[k] = n
            BY <3>1, IndexOfAnyFound DEF TypeOK
        <3>3. QED
            BY <1>1, <2>1, <3>2 DEF NotifyUpdate, TypeOK
    <2>2. QED
        BY <1>1, <2>1 DEF NotifyUpdate
<1>3. Live' = Live /\ Listed' = Listed /\ tainted \subseteq tainted'
    BY <1>1, <1>2, AnnounceEffect DEF Listed
<1>4. MembersExact'
    BY <1>2, <1>3 DEF MembersExact
<1>5. process' \in {"running", "panicked"} /\ PanicNeedsTaint'
    <2>1. CASE Parsable(m) /\ k = 0
        <3>1. n \notin Listed
            BY <2>1, IndexOfAnyFound DEF Listed, TypeOK
        <3>2. n \in tainted
            BY <1>1, <3>1 DEF MembersExact, Live
        <3>3. QED
            BY <1>1, <1>3, <2>1, <3>2 DEF PanicNeedsTaint, NotifyUpdate
    <2>2. CASE ~(Parsable(m) /\ k = 0)
        BY <1>1, <1>3, <2>2 DEF PanicNeedsTaint, NotifyUpdate, TypeOK
    <2>3. QED
        BY <2>1, <2>2
<1>6. LiveListed'
    <2>1. SUFFICES ASSUME process' = "running", NEW x \in Live', Parsable(meta'[x])
                   PROVE  x \in Listed
        BY <1>3 DEF LiveListed, Parsable
    <2>2. process = "running"
        BY <1>1, <2>1 DEF NotifyUpdate, TypeOK
    <2>3. CASE x = n
        <3>1. Parsable(m) /\ k # 0
            BY <1>1, <2>1, <2>3, AnnounceEffect DEF NotifyUpdate
        <3>2. \E i \in DOMAIN members : members[i] = n
            BY <3>1, IndexOfAnyMissing
        <3>3. QED
            BY <2>3, <3>2 DEF Listed
    <2>4. CASE x # n
        BY <1>1, <1>3, <2>1, <2>2, <2>4, AnnounceEffect DEF LiveListed, Live
    <2>5. QED
        BY <2>3, <2>4
<1>7. QED
    BY <1>1, <1>2, <1>4, <1>5, <1>6, AnnounceEffect DEF TypeOK

(* Removing the entry of n leaves the entries of the others. *)
LEMMA WithoutMembers ==
    ASSUME members \in Seq(Node), NEW k \in DOMAIN members,
           members' = Without(members, k)
    PROVE  /\ members' \in Seq(Node)
           /\ \A x : x # members[k] => (x \in Listed' <=> x \in Listed)
           /\ \A x : (\A i, j \in DOMAIN members :
                            members[i] = x /\ members[j] = x => i = j)
                 => /\ x = members[k] => x \notin Listed'
                    /\ \A i, j \in DOMAIN members' :
                           members'[i] = x /\ members'[j] = x => i = j
<1> DEFINE old(j) == IF j < k THEN j ELSE j + 1
<1>1. DOMAIN members = 1..Len(members) /\ k \in 1..Len(members)
    OBVIOUS
<1>2. /\ members' \in Seq(Node)
      /\ DOMAIN members' = 1..(Len(members) - 1)
      /\ \A j \in DOMAIN members' : members'[j] = members[old(j)]
    BY <1>1, WithoutEntries
<1>3. \A j \in DOMAIN members' : old(j) \in DOMAIN members /\ old(j) # k
    BY <1>1, <1>2
<1>4. \A i, j \in DOMAIN members' : old(i) = old(j) => i = j
    BY <1>1, <1>2
<1>5. \A i \in DOMAIN members : i # k => \E j \in DOMAIN members' : old(j) = i
    <2>1. ASSUME NEW i \in DOMAIN members, i < k
          PROVE  i \in DOMAIN members' /\ old(i) = i
        BY <1>1, <1>2, <2>1
    <2>2. ASSUME NEW i \in DOMAIN members, i > k
          PROVE  i - 1 \in DOMAIN members' /\ old(i - 1) = i
        BY <1>1, <1>2, <2>2
    <2>3. QED
        BY <1>1, <2>1, <2>2
<1> HIDE DEF old
<1>6. ASSUME NEW x, x # members[k] PROVE x \in Listed' <=> x \in Listed
    BY <1>2, <1>3, <1>5, <1>6 DEF Listed
<1>7. ASSUME NEW x, \A i, j \in DOMAIN members :
                         members[i] = x /\ members[j] = x => i = j
      PROVE  /\ x = members[k] => x \notin Listed'
             /\ \A i, j \in DOMAIN members' :
                    members'[i] = x /\ members'[j] = x => i = j
    BY <1>2, <1>3, <1>4, <1>7 DEF Listed
<1>8. QED
    BY <1>2, <1>6, <1>7

LEMMA LeaveIInv ==
    ASSUME IInv, NEW n \in Node, Leave(n)
    PROVE  IInv'
<1> USE DEF IInv
<1> DEFINE k == IndexOfAny(n, members)
<1>1. /\ n \in Live /\ NotifyLeave(n, meta[n])
      /\ status' = [status EXCEPT ![n] = "dead"]
      /\ meta' = meta /\ tainted' = tainted
    BY DEF Leave
<1>2. /\ status' \in [Node -> {"alive", "suspect", "dead"}]
      /\ Live' = Live \ {n}
    BY <1>1 DEF TypeOK, Live
<1>3. LiveParsable'
    BY <1>1, <1>2 DEF LiveParsable
<1>4. CASE ~Parsable(meta[n])
    <2>1. members' = members /\ process' = process /\ n \in tainted
        BY <1>1, <1>4 DEF NotifyLeave, LiveParsable
    <2>2. Listed' = Listed
        BY <2>1 DEF Listed
    <2>3. MembersExact' /\ LiveListed'
        BY <1>1, <1>2, <2>1, <2>2 DEF MembersExact, LiveListed, Parsable
    <2>4. QED
        BY <1>1, <1>2, <1>3, <2>1, <2>3 DEF TypeOK, PanicNeedsTaint
<1>5. CASE Parsable(meta[n]) /\ k = 0
    <2>1. members' = members /\ process' = "panicked"
        BY <1>1, <1>5 DEF NotifyLeave
    <2>2. n \notin Listed
        BY <1>5, IndexOfAnyFound DEF Listed, TypeOK
    <2>3. n \in tainted
        BY <1>1, <2>2 DEF MembersExact, Live
    <2>4. Listed' = Listed
        BY <2>1 DEF Listed
    <2>5. MembersExact'
        BY <1>1, <1>2, <2>1, <2>3, <2>4 DEF MembersExact
    <2>6. QED
        BY <1>1, <1>2, <1>3, <2>1, <2>3, <2>5 DEF TypeOK, PanicNeedsTaint, LiveListed
<1>6. CASE Parsable(meta[n]) /\ k # 0
    <2>1. members' = Without(members, k) /\ process' = process
        BY <1>1, <1>6 DEF NotifyLeave
    <2>2. k \in DOMAIN members /\ members[k] = n
        <3>1. \E i \in DOMAIN members : members[i] = n
            BY <1>6, IndexOfAnyMissing
        <3>2. QED
            BY <3>1, IndexOfAnyFound DEF TypeOK
    <2>3. MembersExact'
        BY <1>1, <1>2, <2>1, <2>2, WithoutMembers DEF MembersExact, TypeOK
    <2>4. LiveListed'
        BY <1>1, <1>2, <2>1, <2>2, WithoutMembers DEF LiveListed, TypeOK, Parsable
    <2>5. QED
        BY <1>1, <1>2, <1>3, <2>1, <2>2, <2>3, <2>4, WithoutMembers
        DEF TypeOK, PanicNeedsTaint
<1>7. QED
    BY <1>4, <1>5, <1>6

LEMMA ProbeIInv ==
    ASSUME IInv, NEW n \in Node, Probe(n)
    PROVE  IInv' /\ Live' = Live /\ Listed' = Listed
BY DEF IInv, TypeOK, Probe, Live, Listed, LiveParsable, LiveListed, MembersExact,
       PanicNeedsTaint, Parsable

LEMMA StepIInv == IInv /\ [Next]_vars => IInv'
<1> SUFFICES ASSUME IInv, [Next]_vars PROVE IInv'
    OBVIOUS
<1>1. ASSUME NEW n \in Node, NEW m \in Meta, Join(n, m) PROVE IInv'
    BY <1>1, JoinIInv
<1>2. ASSUME NEW n \in Node, NEW m \in Meta, Update(n, m) PROVE IInv'
    BY <1>2, UpdateIInv
<1>3. ASSUME NEW n \in Node, Leave(n) PROVE IInv'
    BY <1>3, LeaveIInv
<1>4. ASSUME NEW n \in Node, Probe(n) PROVE IInv'
    BY <1>4, ProbeIInv
<1>5. CASE UNCHANGED vars
    BY <1>5 DEF vars, IInv, TypeOK, LiveParsable, LiveListed, MembersExact,
                PanicNeedsTaint, Live, Listed, Parsable
<1>6. QED
    BY <1>1, <1>2, <1>3, <1>4, <1>5 DEF Next

(* The bound of the model on the slice. *)
LEMMA StepBounded ==
    ASSUME IInv, Len(members) <= MaxMembers, [Next]_vars
    PROVE  Len(members') <= MaxMembers
<1>1. members \in Seq(Node) /\ Len(members) \in Nat /\ MaxMembers \in Nat
    BY RegistryAssumption DEF IInv, TypeOK
<1>2. ASSUME NEW n \in Node, NEW m, NotifyJoin(n, m), Len(members) < MaxMembers
      PROVE  Len(members') <= MaxMembers
    BY <1>1, <1>2 DEF NotifyJoin
<1>3. ASSUME NEW n \in Node, NEW m, NotifyLeave(n, m)
      PROVE  Len(members') <= MaxMembers
    <2> DEFINE k == IndexOfAny(n, members)
    <2>1. CASE k = 0
        BY <1>3, <2>1 DEF NotifyLeave
    <2>2. CASE k # 0
        <3>1. \E i \in DOMAIN members : members[i] = n
            BY <2>2, IndexOfAnyMissing
        <3>2. k \in 1..Len(members)
            BY <1>1, <3>1, IndexOfAnyFound
        <3>3. Len(Without(members, k)) = Len(members) - 1
            BY <1>1, <3>2, WithoutEntries
        <3>4. members' \in {members, Without(members, k)}
            BY <1>3 DEF NotifyLeave
        <3>5. QED
            BY <1>1, <3>3, <3>4
    <2>3. QED
        BY <2>1, <2>2
<1>4. ASSUME NEW n \in Node, NEW m \in Meta, Update(n, m)
      PROVE  Len(members') <= MaxMembers
    BY <1>4, UpdateIInv
<1>5. QED
    BY <1>2, <1>3, <1>4 DEF Next, vars, Join, Leave, Probe

LEMMA Invariance == Spec => []IInv
BY InitIInv, StepIInv, PTL DEF Spec

-----------------------------------------------------------------------------
(* The state of the registry stays well typed: no callback stores anything *)
(* but record pointers in the slice (eventdelegate.go).                    *)
THEOREM TypeCorrect == Spec => []TypeOK
<1>1. IInv => TypeOK
    BY DEF IInv
<1>2. QED
    BY <1>1, Invariance, PTL

(* Every node that kept announcing parsable meta data is listed exactly    *)
(* once while it is live and not at all otherwise (eventdelegate.go).      *)
THEOREM MembersAreExact == Spec => []MembersExact
<1>1. IInv => MembersExact
    BY DEF IInv
<1>2. QED
    BY <1>1, Invariance, PTL

(* The callbacks index the slice with -1 only in a cluster where some node *)
(* announced meta data that could not be parsed (eventdelegate.go:36-37,   *)
(* 50-51).                                                                 *)
THEOREM PanicOnlyAfterTaint == Spec => []PanicNeedsTaint
<1>1. IInv => PanicNeedsTaint
    BY DEF IInv
<1>2. QED
    BY <1>1, Invariance, PTL

(* Discover fails only because of a listed node that announced meta data   *)
(* that cannot be parsed, and without such nodes it answers exactly the    *)
(* live nodes of the service, suspects included, each once                 *)
(* (node.go:47-70).                                                        *)
LEMMA ExactFromIInv == IInv => DiscoverExact
<1> SUFFICES ASSUME IInv, process = "running" PROVE
        /\ DiscoverFails => Listed \cap tainted # {}
        /\ tainted = {} => \A svc \in Service :
              /\ {Discover(svc)[i] : i \in DOMAIN Discover(svc)}
                     = {n \in Live : meta[n] = svc}
              /\ \A i, j \in DOMAIN Discover(svc) :
                     Discover(svc)[i] = Discover(svc)[j] => i = j
    BY DEF DiscoverExact
<1>1. members \in Seq(Node) /\ \A k \in DOMAIN members : members[k] \in Node
    BY DEF IInv, TypeOK
<1>2. ASSUME DiscoverFails PROVE Listed \cap tainted # {}
    <2>1. PICK k \in DOMAIN members : IsAlive(k) /\ ~Parsable(meta[members[k]])
        BY <1>2 DEF DiscoverFails
    <2>2. members[k] \in Node /\ members[k] \in Listed
        BY <1>1 DEF Listed
    <2>3. CASE members[k] \in Live
        BY <2>1, <2>2, <2>3 DEF IInv, LiveParsable
    <2>4. CASE members[k] \notin Live
        BY <2>2, <2>4 DEF IInv, MembersExact
    <2>5. QED
        BY <2>3, <2>4, <2>2
<1>3. ASSUME tainted = {}, NEW svc \in Service
      PROVE  /\ {Discover(svc)[i] : i \in DOMAIN Discover(svc)}
                     = {n \in Live : meta[n] = svc}
             /\ \A i, j \in DOMAIN Discover(svc) :
                     Discover(svc)[i] = Discover(svc)[j] => i = j
    <2> DEFINE K == {k \in DOMAIN members : IsAlive(k) /\ meta[members[k]] = svc}
    <2>1. \A i, j \in K : members[i] = members[j] => i = j
        BY <1>1, <1>3 DEF IInv, MembersExact
    <2>2. {members[k] : k \in K} = {n \in Live : meta[n] = svc}
        <3>1. ASSUME NEW n \in Live, meta[n] = svc
              PROVE  \E k \in K : members[k] = n
            BY <1>3, <3>1 DEF IInv, MembersExact, Live, Listed, IsAlive, State
        <3>2. ASSUME NEW k \in K PROVE members[k] \in Live /\ meta[members[k]] = svc
            BY <1>1, <1>3 DEF IInv, MembersExact, Listed
        <3>3. QED
            BY <3>1, <3>2
    <2>3. K \in SUBSET DOMAIN members /\ Discover(svc) = Filter(members, K)
        BY DEF Discover
    <2> HIDE DEF K
    <2>4. /\ {Filter(members, K)[i] : i \in DOMAIN Filter(members, K)}
                 = {members[k] : k \in K}
          /\ \A i, j \in DOMAIN Filter(members, K) :
                 Filter(members, K)[i] = Filter(members, K)[j] => i = j
        BY <1>1, <2>1, <2>3, FilterEntries
    <2>5. QED
        BY <2>2, <2>3, <2>4
<1>4. QED
    BY <1>2, <1>3

(* Discover answers exactly the live nodes of the service, alive or        *)
(* suspect, each once, and fails only because of a listed node whose meta  *)
(* data cannot be parsed (node.go:47-70).                                  *)
THEOREM DiscoverIsExact == Spec => []DiscoverExact
BY ExactFromIInv, Invariance, PTL

-----------------------------------------------------------------------------
(* Refinement.  The untainted nodes of the slice are the untainted live    *)
(* nodes in every state, and each step of the registry changes that set by *)
(* one announcement or withdrawal, or not at all.                          *)
Sound == Live \ tainted

LEMMA ListedIsLive == IInv => Listed \ tainted = Sound
<1> SUFFICES ASSUME IInv PROVE Listed \ tainted = Sound
    OBVIOUS
<1>1. Listed \subseteq Node /\ Live \subseteq Node
    BY DEF IInv, TypeOK, Listed, Live
<1>2. QED
    BY <1>1 DEF IInv, MembersExact, Sound

LEMMA DirectoryStep ==
    ASSUME IInv, IInv', [Next]_vars
    PROVE  [Dir!Next]_<<Live \ tainted, Listed \ tainted>>
<1>1. Listed \ tainted = Sound /\ (Listed \ tainted)' = Sound'
    <2>1. (IInv => Listed \ tainted = Sound)'
        BY ListedIsLive, PTL
    <2>2. QED
        BY <2>1, ListedIsLive
<1>2. SUFFICES \/ UNCHANGED Sound
               \/ \E n \in Node : \/ n \notin Sound /\ Sound' = Sound \cup {n}
                                  \/ n \in Sound /\ Sound' = Sound \ {n}
    BY <1>1 DEF Dir!Next, Dir!Announce, Dir!Withdraw, Sound
<1>3. ASSUME NEW n \in Node, NEW m \in Meta, Join(n, m)
      PROVE  UNCHANGED Sound \/ (n \notin Sound /\ Sound' = Sound \cup {n})
    <2>1. n \notin Live /\ Live' = Live \cup {n}
        BY <1>3, AnnounceEffect DEF Join, IInv
    <2>2. tainted' = tainted \/ tainted' = tainted \cup {n}
        BY <1>3 DEF Join, Announce
    <2>3. QED
        BY <2>1, <2>2 DEF Sound
<1>4. ASSUME NEW n \in Node, NEW m \in Meta, Update(n, m)
      PROVE  UNCHANGED Sound \/ (n \in Sound /\ Sound' = Sound \ {n})
    <2>1. Live' = Live /\ n \in Live
        BY <1>4, AnnounceEffect DEF Update, IInv
    <2>2. tainted' = tainted \/ tainted' = tainted \cup {n}
        BY <1>4 DEF Update, Announce
    <2>3. QED
        BY <2>1, <2>2 DEF Sound
<1>5. ASSUME NEW n \in Node, Leave(n)
      PROVE  UNCHANGED Sound \/ (n \in Sound /\ Sound' = Sound \ {n})
    <2>1. n \in Live /\ Live' = Live \ {n} /\ tainted' = tainted
        BY <1>5 DEF Leave, Live, IInv, TypeOK
    <2>2. QED
        BY <2>1 DEF Sound
<1>6. ASSUME NEW n \in Node, Probe(n) PROVE UNCHANGED Sound
    BY <1>6, ProbeIInv DEF Probe, Sound
<1>7. CASE UNCHANGED vars
    BY <1>7 DEF vars, Live, Sound
<1>8. QED
    BY <1>3, <1>4, <1>5, <1>6, <1>7 DEF Next

(* The slice and its callbacks implement the abstract directory: a node    *)
(* whose announcements all parse is listed from the step that announces it *)
(* to the step that withdraws it, whatever other nodes announce.           *)
THEOREM ImplementsDirectory == Spec => DirSpec
<1>1. Init => Dir!Init
    BY DEF Init, Dir!Init, Live, Listed
<1>2. IInv /\ IInv' /\ [Next]_vars
          => [Dir!Next]_<<Live \ tainted, Listed \ tainted>>
    BY DirectoryStep
<1>3. QED
    BY <1>1, <1>2, Invariance, PTL DEF Spec, DirSpec, Dir!Spec
=============================================================================
