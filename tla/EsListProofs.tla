---------------------------- MODULE EsListProofs ----------------------------
(***************************************************************************)
(* Theorems about EsList.tla, for every number of workers, of hits and     *)
(* every page size.                                                        *)
(***************************************************************************)
EXTENDS EsList, FiniteSetTheorems, TLAPS

(* The inductive invariant, in named parts.                                *)

\* The hits some worker has received.
Handed == IF producer = "send" THEN taken - 1 ELSE taken
Active(w) == worker[w] \in {"select", "test", "wrap", "send"}

\* A page never reaches beyond the last hit.
PageFits == /\ producer \in {"select", "send"} => inPage >= 1
            /\ producer = "select" => inPage <= Hits - taken
            /\ producer = "send" => taken >= 1 /\ inPage - 1 <= Hits - taken

\* Workers hold different hits, none of them returned yet.
HitsApart == /\ \A w \in Worker : hit[w] \in 0..Handed
             /\ \A w \in Worker : Active(w) => hit[w] # 0 /\ hit[w] \notin Returned
             /\ \A w \in Worker : worker[w] = "receive" => hit[w] \in Returned \cup {0}
             /\ \A v, w \in Worker : hit[v] = hit[w] /\ hit[v] # 0 => v = w
             /\ Returned \subseteq 1..Handed
             /\ \A i, j \in DOMAIN rets : rets[i] = rets[j] => i = j

\* A callback fails only after its worker has chosen to run it.
FailedLate == /\ failures \subseteq 1..Handed
              /\ \A w \in Worker : worker[w] = "select" => hit[w] \notin failures

\* No hit gets lost from sight: the worker that drops one ends with it.
Accounted == \A h \in 1..Handed :
                 \/ h \in Returned
                 \/ \E w \in Worker : worker[w] # "receive" /\ hit[w] = h
Dropped(w) == worker[w] = "done" /\ hit[w] # 0 /\ hit[w] \notin Returned

\* Only a failure makes a worker drop its hit, and not all of them can.
FailureSeen == /\ errVar \/ (\E w \in Worker : worker[w] = "wrap") => failures # {}
               /\ groupErr \/ \A w \in Worker : Dropped(w) => failures # {}
Spared == groupErr \/ \E w \in Worker : ~Dropped(w) /\ (worker[w] = "wrap" => errVar)

AllTaken == producer = "done" => groupErr \/ taken = Hits

\* An error in the shared variable is still to be seen by some worker.
ErrSeen == errVar => groupErr \/ \E w \in Worker : worker[w] \in {"test", "wrap"}

\* While the producer runs, a worker that is done holds the hit it gave up
\* with, and until the group has an error not all of them can give up.
GaveUp == producer # "done" =>
    /\ \A w \in Worker : worker[w] = "done" => hit[w] # 0
    /\ \/ groupErr
       \/ \E w \in Worker : \/ worker[w] \in {"receive", "select", "test", "send"}
                            \/ worker[w] = "wrap" /\ errVar

\* A success that stands, or one that is on its way.
NoneYet == /\ Returned = {}
           /\ \A w \in Worker : /\ worker[w] \in {"receive", "select", "done"}
                                /\ worker[w] # "select" => hit[w] = 0
Success == \/ \E h \in Returned : h \notin failures
           \/ \E w \in Worker : worker[w] = "send" /\ hit[w] \notin failures
           \/ ~errVar /\ \E w \in Worker : worker[w] = "test" /\ hit[w] \notin failures
Progress == \/ groupErr \/ NoneYet \/ Success
            \/ errVar /\ \E w \in Worker : worker[w] \in {"test", "wrap"}

Ends == /\ closed => GroupDone
        /\ main # "drain" => closed
        /\ main = "rets" => ~groupErr /\ ~errVar

IInv == /\ TypeOK /\ PageFits /\ HitsApart /\ FailedLate /\ Accounted /\ FailureSeen
        /\ Spared /\ AllTaken /\ ErrSeen /\ GaveUp /\ Progress /\ Ends

-----------------------------------------------------------------------------
(* What a worker holds has been handed over and is not yet returned. *)
LEMMA HitHeld ==
    ASSUME TypeOK, PageFits, HitsApart, NEW w \in Worker, Active(w)
    PROVE  hit[w] \in 1..Handed /\ hit[w] \notin Returned /\ Handed \in 0..Hits
<1>1. Handed \in 0..Hits
    BY EsListAssumption DEF TypeOK, PageFits, Handed
<1>2. QED
    BY <1>1 DEF HitsApart

(* Every action keeps the inductive invariant. *)
LEMMA ScrollIInv ==
    ASSUME IInv, Scroll, UNCHANGED callback
    PROVE  IInv'
<1> USE EsListAssumption DEF IInv
<1>a. /\ UNCHANGED <<taken, worker, hit, failures, errVar, closed, main, rets>>
      /\ Handed' = Handed /\ Returned' = Returned /\ (groupErr => groupErr')
      /\ producer = "scroll"
    BY DEF Scroll, ProducerReturn, GroupReturn, Handed, Returned, TypeOK
<1>1. TypeOK'
    BY DEF Scroll, ProducerReturn, TypeOK, GroupReturn
<1>2. PageFits'
    BY DEF Scroll, ProducerReturn, PageFits, TypeOK, GroupReturn
<1>3. HitsApart'
    BY <1>a DEF HitsApart, Active
<1>4. FailedLate'
    BY <1>a DEF FailedLate
<1>5. Accounted'
    BY <1>a DEF Accounted
<1>6. AllTaken'
    BY DEF Scroll, ProducerReturn, AllTaken, GroupReturn
<1>7. ErrSeen'
    BY <1>a DEF ErrSeen
<1>8. GaveUp'
    BY <1>a DEF GaveUp
<1>9. Progress'
    BY <1>a DEF Progress, NoneYet, Success
<1>10. Ends'
    BY <1>a DEF Ends, GroupDone
<1>11. FailureSeen'
    BY <1>a DEF FailureSeen, Dropped
<1>12. Spared'
    BY <1>a DEF Spared, Dropped
<1>13. QED
    BY <1>1, <1>2, <1>3, <1>4, <1>5, <1>6, <1>7, <1>8, <1>9, <1>10, <1>11, <1>12

LEMMA SelectIInv ==
    ASSUME IInv, Select, UNCHANGED callback
    PROVE  IInv'
<1> USE EsListAssumption DEF IInv
<1>a. /\ UNCHANGED <<inPage, worker, hit, failures, errVar, closed, main, rets>>
      /\ Returned' = Returned /\ (groupErr => groupErr') /\ producer = "select"
    <2>1. /\ UNCHANGED <<inPage, worker, hit, failures, errVar, closed, main, rets>>
          /\ producer = "select"
        BY DEF Select
    <2>2. groupErr => groupErr'
        BY DEF Select, ProducerReturn, GroupReturn
    <2>3. Returned' = Returned
        BY <2>1 DEF Returned
    <2>4. QED
        BY <2>1, <2>2, <2>3
<1>b. Handed' = Handed
    <2>1. taken \in Nat
        BY DEF TypeOK
    <2>2. CASE cancelled
        BY <1>a, <2>1, <2>2 DEF Select, ProducerReturn, Handed
    <2>3. CASE ~cancelled
        <3>1. producer' = "send" /\ taken' = taken + 1
            BY <2>3 DEF Select
        <3>2. QED
            BY <1>a, <2>1, <3>1 DEF Handed
    <2>4. QED
        BY <2>2, <2>3
<1>1. TypeOK'
    BY DEF Select, ProducerReturn, TypeOK, PageFits, GroupReturn
<1>2. PageFits'
    BY DEF Select, ProducerReturn, PageFits, TypeOK, GroupReturn
<1>3. HitsApart'
    BY <1>a, <1>b DEF HitsApart, Active
<1>4. FailedLate'
    BY <1>a, <1>b DEF FailedLate
<1>5. Accounted'
    BY <1>a, <1>b DEF Accounted
<1>6. AllTaken'
    BY DEF Select, ProducerReturn, AllTaken, GroupReturn
<1>7. ErrSeen'
    BY <1>a DEF ErrSeen
<1>8. GaveUp'
    BY <1>a DEF GaveUp
<1>9. Progress'
    BY <1>a DEF Progress, NoneYet, Success
<1>10. Ends'
    BY <1>a DEF Ends, GroupDone
<1>11. FailureSeen'
    BY <1>a DEF FailureSeen, Dropped
<1>12. Spared'
    BY <1>a DEF Spared, Dropped
<1>13. QED
    BY <1>1, <1>2, <1>3, <1>4, <1>5, <1>6, <1>7, <1>8, <1>9, <1>10, <1>11, <1>12

LEMMA HandIInv ==
    ASSUME IInv, NEW w \in Worker, Hand(w), UNCHANGED callback
    PROVE  IInv'
<1> USE EsListAssumption DEF IInv
<1>1. TypeOK'
    BY DEF Hand, TypeOK, PageFits
<1>2. PageFits'
    BY DEF Hand, PageFits, TypeOK
<1>3. HitsApart'
    <2>1. /\ hit' = [hit EXCEPT ![w] = taken] /\ Handed = taken - 1 /\ Handed' = taken
          /\ taken \in 1..Hits /\ worker[w] = "receive"
          /\ worker' = [worker EXCEPT ![w] = "select"] /\ rets' = rets
        BY DEF Hand, TypeOK, PageFits, Handed
    <2>2. Returned' = Returned /\ taken \notin Returned
        BY <2>1 DEF Returned, HitsApart
    <2>3. \A v \in Worker : hit[v] # taken
        BY <2>1 DEF HitsApart
    <2>4. ASSUME NEW v \in Worker PROVE hit'[v] \in 0..Handed' /\ (Active(v)' => hit'[v] # 0 /\ hit'[v] \notin Returned')
        BY <2>1, <2>2 DEF HitsApart, Active, TypeOK
    <2>5. ASSUME NEW u \in Worker, NEW v \in Worker, hit'[u] = hit'[v], hit'[u] # 0
          PROVE  u = v
        BY <2>1, <2>3, <2>5 DEF HitsApart, TypeOK
    <2>6. ASSUME NEW v \in Worker, worker'[v] = "receive" PROVE hit'[v] \in Returned' \cup {0}
        BY <2>1, <2>2, <2>6 DEF HitsApart, TypeOK
    <2>7. QED
        BY <2>1, <2>2, <2>4, <2>5, <2>6 DEF HitsApart
<1>4. FailedLate'
    BY DEF Hand, FailedLate, Handed, TypeOK
<1>5. Accounted'
    <2>1. /\ worker[w] = "receive" /\ worker' = [worker EXCEPT ![w] = "select"]
          /\ hit' = [hit EXCEPT ![w] = taken] /\ Handed = taken - 1 /\ Handed' = taken
          /\ taken \in Nat /\ Returned' = Returned
        BY DEF Hand, TypeOK, Handed, Returned
    <2>2. ASSUME NEW h \in 1..Handed PROVE h \in Returned' \/ \E v \in Worker : worker'[v] # "receive" /\ hit'[v] = h
        BY <2>1 DEF Accounted, TypeOK
    <2>3. worker'[w] # "receive" /\ hit'[w] = taken
        BY <2>1 DEF TypeOK
    <2>4. \A h \in 1..taken : h = taken \/ h \in 1..(taken - 1)
        BY <2>1
    <2>5. QED
        BY <2>1, <2>2, <2>3, <2>4 DEF Accounted
<1>6. AllTaken'
    BY DEF Hand, AllTaken
<1>7. ErrSeen'
    BY DEF Hand, ErrSeen
<1>8. GaveUp'
    BY DEF Hand, GaveUp
<1>9. Progress'
    BY DEF Hand, Progress, NoneYet, Success, Returned, TypeOK
<1>10. Ends'
    BY DEF Hand, Ends, GroupDone
<1>11. FailureSeen'
    BY DEF Hand, FailureSeen, Dropped, Returned, TypeOK
<1>12. Spared'
    BY DEF Hand, Spared, Dropped, Returned, TypeOK
<1>13. QED
    BY <1>1, <1>2, <1>3, <1>4, <1>5, <1>6, <1>7, <1>8, <1>9, <1>10, <1>11, <1>12

LEMMA NoMoreHitsIInv ==
    ASSUME IInv, NEW w \in Worker, NoMoreHits(w), UNCHANGED callback
    PROVE  IInv'
<1> USE EsListAssumption DEF IInv
<1>a. /\ UNCHANGED <<producer, taken, inPage, hit, failures, errVar, cancelled, groupErr,
                     closed, main, rets>>
      /\ Handed' = Handed /\ Returned' = Returned
      /\ producer = "done" /\ worker[w] = "receive"
      /\ worker' = [worker EXCEPT ![w] = "done"]
    BY DEF NoMoreHits, WorkerReturn, GroupReturn, Handed, Returned, TypeOK
<1>b. \A v \in Worker : Dropped(v)' <=> Dropped(v)
    BY <1>a DEF Dropped, HitsApart, TypeOK
<1>1. TypeOK'
    BY <1>a DEF TypeOK
<1>2. PageFits'
    BY <1>a DEF PageFits
<1>3. HitsApart'
    BY <1>a DEF HitsApart, Active
<1>4. FailedLate'
    BY <1>a DEF FailedLate, TypeOK
<1>5. Accounted'
    BY <1>a DEF Accounted, TypeOK
<1>6. AllTaken'
    BY <1>a DEF AllTaken
<1>7. ErrSeen'
    BY <1>a DEF ErrSeen, TypeOK
<1>8. GaveUp'
    BY <1>a DEF GaveUp
<1>9. Progress'
    BY <1>a DEF Progress, NoneYet, Success, TypeOK
<1>10. Ends'
    BY <1>a DEF Ends, GroupDone
<1>11. FailureSeen'
    BY <1>a, <1>b DEF FailureSeen, TypeOK
<1>12. Spared'
    BY <1>a, <1>b DEF Spared, TypeOK
<1>13. QED
    BY <1>1, <1>2, <1>3, <1>4, <1>5, <1>6, <1>7, <1>8, <1>9, <1>10, <1>11, <1>12

LEMMA ProcessIInv ==
    ASSUME IInv, NEW w \in Worker, Process(w), UNCHANGED callback
    PROVE  IInv'
<1> USE EsListAssumption DEF IInv
<1>1. TypeOK'
    <2>1. hit[w] \in 1..Hits
        <3>1. Active(w)
            BY DEF Process, Active
        <3>2. QED
            BY <3>1, HitHeld
    <2>2. QED
        BY <2>1 DEF Process, WorkerReturn, TypeOK, GroupReturn
<1>2. PageFits'
    BY DEF Process, PageFits
<1>3. HitsApart'
    <2>1. UNCHANGED <<hit, rets>> /\ Handed' = Handed
        BY DEF Process, Handed
    <2>2. ASSUME NEW v \in Worker, Active(v)' PROVE Active(v)
        BY <2>2 DEF Process, Active, TypeOK, WorkerReturn
    <2>3. \A v \in Worker : worker'[v] = "receive" => worker[v] = "receive"
        BY DEF Process, TypeOK, WorkerReturn
    <2>4. QED
        BY <2>1, <2>2, <2>3 DEF HitsApart, Returned
<1>4. FailedLate'
    <2>1. worker[w] = "select" /\ Active(w)
        BY DEF Process, Active
    <2>2. hit[w] \in 1..Handed /\ \A v \in Worker : v # w => hit[v] # hit[w]
        BY <2>1, HitHeld DEF HitsApart
    <2>3. /\ failures' \subseteq failures \cup {hit[w]} /\ hit' = hit /\ Handed' = Handed
          /\ \A v \in Worker : worker'[v] = "select" => v # w /\ worker[v] = "select"
        BY DEF Process, WorkerReturn, Handed, TypeOK
    <2>4. QED
        BY <2>2, <2>3 DEF FailedLate
<1>5. Accounted'
    <2>1. /\ UNCHANGED <<hit, rets>> /\ Handed' = Handed
          /\ \A v \in Worker : worker[v] # "receive" => worker'[v] # "receive"
        BY DEF Process, Handed, WorkerReturn, TypeOK
    <2>2. QED
        BY <2>1 DEF Accounted, Returned
<1>6. AllTaken'
    BY DEF Process, WorkerReturn, AllTaken, GroupReturn
<1>7. ErrSeen'
    BY DEF Process, WorkerReturn, ErrSeen, TypeOK, GroupReturn
<1>8. GaveUp'
    BY DEF Process, WorkerReturn, GaveUp, HitsApart, Active, TypeOK, GroupReturn
<1>9. Progress'
    <2>1. UNCHANGED <<hit, rets>> /\ worker[w] = "select" /\ hit[w] \notin failures
        BY DEF Process, FailedLate
    <2>2. CASE groupErr'
        BY <2>2 DEF Progress
    <2>3. CASE ~groupErr' /\ worker'[w] = "send"
        <3>1. failures' = failures
            BY <2>3 DEF Process, WorkerReturn, TypeOK
        <3>2. QED
            BY <2>1, <2>3, <3>1 DEF Progress, Success
    <2>4. CASE ~groupErr' /\ worker'[w] = "test"
        <3>1. PICK fails \in BOOLEAN :
                  /\ failures' = IF fails THEN failures \cup {hit[w]} ELSE failures
                  /\ errVar' = fails
            BY <2>4 DEF Process, TypeOK, WorkerReturn
        <3>2. QED
            BY <2>1, <2>4, <3>1 DEF Progress, Success
    <2>5. QED
        BY <2>2, <2>3, <2>4 DEF Process, TypeOK, WorkerReturn, GroupReturn
<1>10. Ends'
    BY DEF Process, Ends, GroupDone
<1>11. FailureSeen'
    <2>1. failures \subseteq failures'
        BY DEF Process
    <2>2. ASSUME errVar' PROVE failures' # {}
        BY <2>2 DEF Process, FailureSeen
    <2>3. ASSUME NEW v \in Worker, worker'[v] = "wrap" PROVE failures' # {}
        <3>1. worker[v] = "wrap"
            BY <2>3 DEF Process, WorkerReturn, TypeOK
        <3>2. QED
            BY <2>1, <3>1 DEF FailureSeen
    <2>4. ASSUME ~groupErr', NEW v \in Worker, Dropped(v)' PROVE failures' # {}
        <3>1. Dropped(v)
            BY <2>4 DEF Process, WorkerReturn, GroupReturn, Dropped, Returned, TypeOK
        <3>2. QED
            <4>1. ~groupErr
                BY <2>4 DEF Process, WorkerReturn, GroupReturn
            <4>2. QED
                BY <2>1, <2>4, <3>1, <4>1 DEF FailureSeen
    <2>5. QED
        BY <2>2, <2>3, <2>4 DEF FailureSeen
<1>12. Spared'
    BY DEF Process, WorkerReturn, GroupReturn, Spared, Dropped, TypeOK
<1>13. QED
    BY <1>1, <1>2, <1>3, <1>4, <1>5, <1>6, <1>7, <1>8, <1>9, <1>10, <1>11, <1>12

LEMMA TestIInv ==
    ASSUME IInv, NEW w \in Worker, Test(w), UNCHANGED callback
    PROVE  IInv'
<1> USE EsListAssumption DEF IInv
<1>a. /\ UNCHANGED <<producer, taken, inPage, hit, failures, errVar, cancelled, groupErr,
                     closed, main, rets>>
      /\ Handed' = Handed /\ Returned' = Returned
      /\ worker[w] = "test"
      /\ worker' = [worker EXCEPT ![w] = IF errVar THEN "wrap" ELSE "send"]
    BY DEF Test, Handed, Returned
<1>b. hit[w] \in 1..Handed /\ hit[w] \notin Returned /\ Handed \in 0..Hits
    <2>1. Active(w)
        BY <1>a DEF Active
    <2>2. QED
        BY <2>1, HitHeld
<1>1. TypeOK'
    BY <1>a DEF TypeOK
<1>2. PageFits'
    BY <1>a DEF PageFits
<1>3. HitsApart'
    BY <1>a DEF HitsApart, Active
<1>4. FailedLate'
    BY <1>a DEF FailedLate, TypeOK
<1>5. Accounted'
    BY <1>a DEF Accounted, TypeOK
<1>6. AllTaken'
    BY <1>a DEF AllTaken
<1>7. ErrSeen'
    BY <1>a DEF ErrSeen, TypeOK
<1>8. GaveUp'
    BY <1>a, <1>b DEF GaveUp, TypeOK
<1>9. Progress'
    <2>1. CASE errVar
        <3>1. Success => Success'
            BY <1>a, <2>1 DEF Success, TypeOK
        <3>2. QED
            BY <1>a, <2>1, <3>1 DEF Progress, NoneYet, TypeOK
    <2>2. CASE ~errVar
        <3>1. ~NoneYet
            BY <1>a DEF NoneYet
        <3>2. Success => Success'
            BY <1>a, <2>2 DEF Success, TypeOK
        <3>3. QED
            BY <1>a, <2>2, <3>1, <3>2 DEF Progress
    <2>3. QED
        BY <2>1, <2>2
<1>10. Ends'
    BY <1>a DEF Ends, GroupDone
<1>11. FailureSeen'
    BY <1>a DEF FailureSeen, Dropped, TypeOK
<1>12. Spared'
    BY <1>a DEF Spared, Dropped, TypeOK
<1>13. QED
    BY <1>1, <1>2, <1>3, <1>4, <1>5, <1>6, <1>7, <1>8, <1>9, <1>10, <1>11, <1>12

LEMMA WrapIInv ==
    ASSUME IInv, NEW w \in Worker, Wrap(w), UNCHANGED callback
    PROVE  IInv'
<1> USE EsListAssumption DEF IInv
<1>a. /\ UNCHANGED <<producer, taken, inPage, hit, failures, errVar, closed, main, rets>>
      /\ Handed' = Handed /\ Returned' = Returned
      /\ worker[w] = "wrap" /\ worker' = [worker EXCEPT ![w] = "done"]
      /\ groupErr' = (groupErr \/ errVar) /\ cancelled' = (cancelled \/ errVar)
    BY DEF Wrap, WorkerReturn, GroupReturn, Handed, Returned
<1>b. hit[w] \in 1..Handed /\ hit[w] \notin Returned /\ Handed \in 0..Hits
    <2>1. Active(w)
        BY <1>a DEF Active
    <2>2. QED
        BY <2>1, HitHeld
<1>1. TypeOK'
    BY <1>a DEF TypeOK
<1>2. PageFits'
    BY <1>a DEF PageFits
<1>3. HitsApart'
    BY <1>a DEF HitsApart, Active
<1>4. FailedLate'
    BY <1>a DEF FailedLate, TypeOK
<1>5. Accounted'
    BY <1>a DEF Accounted, TypeOK
<1>6. AllTaken'
    BY <1>a DEF AllTaken
<1>7. ErrSeen'
    BY <1>a DEF ErrSeen, TypeOK
<1>8. GaveUp'
    BY <1>a, <1>b DEF GaveUp, TypeOK
<1>9. Progress'
    <2>1. CASE errVar
        BY <1>a, <2>1 DEF Progress
    <2>2. CASE ~errVar
        <3>1. ~NoneYet
            BY <1>a DEF NoneYet
        <3>2. Success => Success'
            BY <1>a, <2>2 DEF Success, TypeOK
        <3>3. QED
            BY <1>a, <2>2, <3>1, <3>2 DEF Progress
    <2>3. QED
        BY <2>1, <2>2
<1>10. Ends'
    BY <1>a DEF Ends, GroupDone
<1>11. FailureSeen'
    BY <1>a DEF FailureSeen, Dropped, TypeOK
<1>12. Spared'
    BY <1>a DEF Spared, Dropped, TypeOK
<1>13. QED
    BY <1>1, <1>2, <1>3, <1>4, <1>5, <1>6, <1>7, <1>8, <1>9, <1>10, <1>11, <1>12

LEMMA EmitIInv ==
    ASSUME IInv, NEW w \in Worker, Emit(w), UNCHANGED callback
    PROVE  IInv'
<1> USE EsListAssumption DEF IInv
<1>a. /\ worker[w] = "send" /\ worker' = [worker EXCEPT ![w] = "receive"]
      /\ rets' = Append(rets, hit[w])
      /\ UNCHANGED <<hit, errVar, failures, groupErr>> /\ Handed' = Handed
    BY DEF Emit, Handed
<1>b. hit[w] \in 1..Handed /\ hit[w] \notin Returned /\ Handed \in 0..Hits
    <2>1. Active(w)
        BY <1>a DEF Active
    <2>2. QED
        BY <2>1, HitHeld
<1>c. /\ Returned' = Returned \cup {hit[w]} /\ DOMAIN rets' = 1..(Len(rets) + 1)
      /\ DOMAIN rets = 1..Len(rets) /\ rets'[Len(rets) + 1] = hit[w]
      /\ \A i \in DOMAIN rets : rets'[i] = rets[i]
    <2>1. /\ DOMAIN rets' = 1..(Len(rets) + 1)
          /\ DOMAIN rets = 1..Len(rets) /\ rets'[Len(rets) + 1] = hit[w]
          /\ \A i \in DOMAIN rets : rets'[i] = rets[i]
        BY <1>a, <1>b DEF TypeOK
    <2>2. Returned' = Returned \cup {hit[w]}
        <3>1. Returned' = {rets'[i] : i \in 1..(Len(rets) + 1)}
            BY <2>1 DEF Returned
        <3>2. Len(rets) \in Nat
            BY DEF TypeOK
        <3>3. \A i \in 1..(Len(rets) + 1) : i = Len(rets) + 1 \/ i \in 1..Len(rets)
            BY <3>2
        <3>4. QED
            BY <2>1, <3>1, <3>2, <3>3 DEF Returned
    <2>3. QED
        BY <2>1, <2>2
<1>1. TypeOK'
    BY <1>a, <1>b DEF Emit, TypeOK
<1>2. PageFits'
    BY DEF Emit, PageFits
<1>3. HitsApart'
    <2>1. ASSUME NEW v \in Worker, Active(v)' PROVE hit'[v] # 0 /\ hit'[v] \notin Returned'
        <3>1. v # w /\ Active(v)
            BY <1>a, <2>1 DEF Active, TypeOK
        <3>2. QED
            BY <1>a, <1>b, <1>c, <3>1 DEF HitsApart
    <2>2. ASSUME NEW i \in DOMAIN rets', NEW j \in DOMAIN rets', rets'[i] = rets'[j]
          PROVE  i = j
        <3>1. \A k \in DOMAIN rets : rets[k] \in Returned
            BY DEF Returned
        <3>2. QED
            BY <1>b, <1>c, <2>2, <3>1 DEF HitsApart
    <2>3. ASSUME NEW v \in Worker, worker'[v] = "receive" PROVE hit'[v] \in Returned' \cup {0}
        BY <1>a, <1>c, <2>3 DEF HitsApart, TypeOK
    <2>4. QED
        BY <1>a, <1>b, <1>c, <2>1, <2>2, <2>3 DEF HitsApart
<1>4. FailedLate'
    BY DEF Emit, FailedLate, Handed
<1>5. Accounted'
    BY <1>a, <1>c DEF Accounted, TypeOK
<1>6. AllTaken'
    BY DEF Emit, AllTaken
<1>7. ErrSeen'
    BY DEF Emit, ErrSeen
<1>8. GaveUp'
    BY DEF Emit, GaveUp
<1>9. Progress'
    <2>1. CASE groupErr
        BY <1>a, <2>1 DEF Progress
    <2>2. CASE Success
        <3>1. CASE \E h \in Returned : h \notin failures
            BY <1>a, <1>c, <3>1 DEF Progress, Success
        <3>2. CASE \E v \in Worker : worker[v] = "send" /\ hit[v] \notin failures
            <4>1. PICK v \in Worker : worker[v] = "send" /\ hit[v] \notin failures
                BY <3>2
            <4>2. \/ v = w /\ hit[v] \in Returned'
                  \/ worker'[v] = "send"
                BY <1>a, <1>c, <4>1 DEF TypeOK
            <4>3. QED
                BY <1>a, <4>1, <4>2 DEF Progress, Success
        <3>3. CASE ~errVar /\ \E v \in Worker : worker[v] = "test" /\ hit[v] \notin failures
            BY <1>a, <3>3 DEF Progress, Success
        <3>4. QED
            BY <2>2, <3>1, <3>2, <3>3 DEF Success
    <2>3. CASE errVar /\ \E v \in Worker : worker[v] \in {"test", "wrap"}
        BY <1>a, <2>3 DEF Progress, TypeOK
    <2>4. QED
        BY <1>a, <2>1, <2>2, <2>3 DEF Progress, NoneYet, TypeOK
<1>10. Ends'
    BY DEF Emit, Ends, GroupDone
<1>11. FailureSeen'
    BY <1>a, <1>c DEF FailureSeen, Dropped, TypeOK
<1>12. Spared'
    BY <1>a, <1>c DEF Spared, Dropped, TypeOK
<1>13. QED
    BY <1>1, <1>2, <1>3, <1>4, <1>5, <1>6, <1>7, <1>8, <1>9, <1>10, <1>11, <1>12

LEMMA CloseIInv ==
    ASSUME IInv, Close, UNCHANGED callback
    PROVE  IInv'
<1> USE EsListAssumption DEF IInv
<1>1. TypeOK'
    BY DEF Close, TypeOK
<1>2. PageFits'
    BY DEF Close, PageFits
<1>3. HitsApart'
    BY DEF Close, HitsApart, Active, Handed, Returned
<1>4. FailedLate'
    BY DEF Close, FailedLate, Handed
<1>5. Accounted'
    BY DEF Close, Accounted, Active, Handed, Returned
<1>6. AllTaken'
    BY DEF Close, AllTaken
<1>7. ErrSeen'
    BY DEF Close, ErrSeen
<1>8. GaveUp'
    BY DEF Close, GaveUp
<1>9. Progress'
    BY DEF Close, Progress, NoneYet, Success, Returned
<1>10. Ends'
    BY DEF Close, Ends, GroupDone
<1>11. FailureSeen'
    BY DEF Close, FailureSeen, Dropped, Returned
<1>12. Spared'
    BY DEF Close, Spared, Dropped, Returned
<1>13. QED
    BY <1>1, <1>2, <1>3, <1>4, <1>5, <1>6, <1>7, <1>8, <1>9, <1>10, <1>11, <1>12

LEMMA ReturnIInv ==
    ASSUME IInv, Return, UNCHANGED callback
    PROVE  IInv'
<1> USE EsListAssumption DEF IInv
<1>1. TypeOK'
    BY DEF Return, TypeOK
<1>2. PageFits'
    BY DEF Return, PageFits
<1>3. HitsApart'
    BY DEF Return, HitsApart, Active, Handed, Returned
<1>4. FailedLate'
    BY DEF Return, FailedLate, Handed
<1>5. Accounted'
    BY DEF Return, Accounted, Active, Handed, Returned
<1>6. AllTaken'
    BY DEF Return, AllTaken
<1>7. ErrSeen'
    BY DEF Return, ErrSeen
<1>8. GaveUp'
    BY DEF Return, GaveUp
<1>9. Progress'
    BY DEF Return, Progress, NoneYet, Success, Returned
<1>10. Ends'
    BY DEF Return, Ends, GroupDone
<1>11. FailureSeen'
    BY DEF Return, FailureSeen, Dropped, Returned
<1>12. Spared'
    BY DEF Return, Spared, Dropped, Returned
<1>13. QED
    BY <1>1, <1>2, <1>3, <1>4, <1>5, <1>6, <1>7, <1>8, <1>9, <1>10, <1>11, <1>12

-----------------------------------------------------------------------------
LEMMA InitIInv == Init => IInv
<1> SUFFICES ASSUME Init PROVE IInv
    OBVIOUS
<1>1. Returned = {} /\ Handed = 0
    <2>1. DOMAIN rets = {}
        BY DEF Init
    <2>2. QED
        BY <2>1 DEF Init, Returned, Handed
<1>2. TypeOK
    <2>1. 0 \in 0..Hits /\ 0 \in 0..PageSize
        BY EsListAssumption
    <2>2. << >> \in Seq(1..Hits)
        OBVIOUS
    <2>3. QED
        BY <2>1, <2>2 DEF Init, TypeOK
<1>3. \E w \in Worker : worker[w] = "receive"
    BY EsListAssumption DEF Init
<1>4. HitsApart /\ FailedLate /\ Accounted /\ FailureSeen /\ Spared
    BY <1>1, <1>3 DEF Init, HitsApart, FailedLate, Accounted, FailureSeen, Spared, Dropped, Active
<1>5. GaveUp
    BY <1>3 DEF Init, GaveUp
<1>6. Progress
    BY <1>1 DEF Init, Progress, NoneYet
<1>7. QED
    BY <1>2, <1>4, <1>5, <1>6 DEF Init, IInv, PageFits, AllTaken, ErrSeen, Ends

LEMMA StutterIInv == IInv /\ UNCHANGED vars => IInv'
<1> SUFFICES ASSUME IInv, UNCHANGED vars PROVE IInv'
    OBVIOUS
<1>1. Returned' = Returned /\ Handed' = Handed
    BY DEF vars, Returned, Handed
<1>2. TypeOK' /\ PageFits' /\ AllTaken' /\ ErrSeen' /\ GaveUp' /\ Ends'
    BY DEF IInv, vars, TypeOK, PageFits, AllTaken, ErrSeen, GaveUp, Ends, GroupDone
<1>3. HitsApart' /\ FailedLate' /\ Accounted' /\ FailureSeen' /\ Spared'
    BY <1>1 DEF IInv, vars, HitsApart, FailedLate, Accounted, FailureSeen, Spared, Dropped, Active
<1>4. Progress'
    BY <1>1 DEF IInv, vars, Progress, NoneYet, Success
<1>5. QED
    BY <1>2, <1>3, <1>4 DEF IInv

LEMMA Invariance == Spec => []IInv
<1>1. IInv /\ [Next]_vars => IInv'
    <2> SUFFICES ASSUME IInv, [Next]_vars PROVE IInv'
        OBVIOUS
    <2>1. CASE UNCHANGED callback /\ \E w \in Worker : WorkerStep(w)
        <3>1. PICK w \in Worker : WorkerStep(w)
            BY <2>1
        <3>2. QED
            BY <2>1, <3>1, HandIInv, NoMoreHitsIInv, ProcessIInv, TestIInv, WrapIInv, EmitIInv
               DEF WorkerStep
    <2>2. QED
        BY <2>1, ScrollIInv, SelectIInv, CloseIInv, ReturnIInv, StutterIInv DEF Next
<1>2. QED
    BY <1>1, InitIInv, PTL DEF Spec

-----------------------------------------------------------------------------
(* Every variable of list.go's goroutines keeps its type. *)
THEOREM TypeCorrect == Spec => []TypeOK
BY Invariance, PTL DEF IInv

(* List answers no hit twice.  When it succeeds, results may be missing,    *)
(* even of callbacks that succeeded, since a worker may meet another's      *)
(* error in the shared err and then nil (list.go:65-66); but only if some   *)
(* callback failed, and fewer of them than there are workers.               *)
THEOREM HitsAreReturnedOnce == Spec => []EveryHitOnce
<1>1. IInv => EveryHitOnce
    <2> SUFFICES ASSUME IInv, main = "rets", Missing # {}
                 PROVE  failures # {} /\ Cardinality(Missing) < Cardinality(Worker)
        BY DEF IInv, HitsApart, EveryHitOnce
    <2> DEFINE Droppers == {w \in Worker : Dropped(w)}
    <2>1. ~groupErr /\ GroupDone
        BY DEF IInv, Ends
    <2>2. Handed = Hits
        BY <2>1 DEF IInv, AllTaken, Handed, GroupDone
    <2>3. ASSUME NEW h \in Missing PROVE \E w \in Droppers : hit[w] = h
        BY <2>1, <2>2, <2>3, EsListAssumption DEF IInv, Accounted, Missing, Dropped, GroupDone
    <2>4. failures # {}
        BY <2>1, <2>3 DEF IInv, FailureSeen
    <2>5. Droppers \in SUBSET Worker /\ Droppers # Worker
        BY <2>1 DEF IInv, Spared, GroupDone
    <2>6. /\ IsFiniteSet(Droppers) /\ Cardinality(Droppers) < Cardinality(Worker)
          /\ Cardinality(Droppers) \in Nat /\ Cardinality(Worker) \in Nat
        <3> HIDE DEF Droppers
        <3>1. IsFiniteSet(Droppers) /\ Cardinality(Droppers) <= Cardinality(Worker)
            BY <2>5, EsListAssumption, FS_Subset
        <3>2. Cardinality(Droppers) # Cardinality(Worker)
            BY <2>5, EsListAssumption, FS_Subset
        <3>3. Cardinality(Droppers) \in Nat /\ Cardinality(Worker) \in Nat
            BY <3>1, EsListAssumption, FS_CardinalityType
        <3>4. QED
            BY <3>1, <3>2, <3>3
    <2>7. Cardinality(Missing) <= Cardinality(Droppers) /\ Cardinality(Missing) \in Nat
        <3> DEFINE f == [h \in Missing |-> CHOOSE w \in Droppers : hit[w] = h]
        <3>1. \A h \in Missing : f[h] \in Droppers /\ hit[f[h]] = h
            BY <2>3
        <3> HIDE DEF Droppers
        <3>2. f \in [Missing -> Droppers]
            BY <3>1
        <3> HIDE DEF f
        <3>3. f \in Injection(Missing, Droppers)
            BY <3>1, <3>2 DEF Injection, IsInjective
        <3>4. IsFiniteSet(Missing) /\ Cardinality(Missing) <= Cardinality(Droppers)
            BY <2>6, <3>3, FS_Injection
        <3>5. QED
            BY <3>4, FS_CardinalityType
    <2>8. QED
        BY <2>4, <2>6, <2>7
<1>2. QED
    BY <1>1, Invariance, PTL

(* When List succeeds on a non-empty index, it has the result of a callback *)
(* that did: the race on err never turns a run of failures only into a      *)
(* success.                                                                 *)
THEOREM SomeCallbackSucceeded == Spec => []SomeSuccess
<1>1. IInv => SomeSuccess
    <2> SUFFICES ASSUME IInv, main = "rets", Hits > 0
                 PROVE  Returned \ failures # {}
        BY DEF SomeSuccess
    <2>1. ~groupErr /\ ~errVar /\ GroupDone
        BY DEF IInv, Ends
    <2>2. \A w \in Worker : worker[w] = "done"
        BY <2>1 DEF GroupDone
    <2>3. Handed = Hits /\ 1 \in 1..Hits
        BY <2>1, EsListAssumption DEF IInv, AllTaken, Handed, GroupDone
    <2>4. ~NoneYet
        BY <2>2, <2>3 DEF IInv, Accounted, NoneYet
    <2>5. Success
        BY <2>1, <2>2, <2>4 DEF IInv, Progress
    <2>6. QED
        BY <2>2, <2>5 DEF Success
<1>2. QED
    BY <1>1, Invariance, PTL

(* The err List returns agrees with the error of the group. *)
THEOREM LastErrorAgrees == Spec => []LastErrAgrees
<1>1. IInv => LastErrAgrees
    BY DEF IInv, Ends, GroupDone, ErrSeen, LastErrAgrees
<1>2. QED
    BY <1>1, Invariance, PTL

(* List hangs only after an error, and only on more hits than workers,     *)
(* whatever their number: each worker gives up with a hit of its own while *)
(* the producer offers one more.                                           *)
THEOREM HangsNeedMoreHits == Spec => []AbandonedNeedsHits
<1>1. IInv => AbandonedNeedsHits
    <2> SUFFICES ASSUME IInv, Abandoned
                 PROVE  groupErr /\ taken > Cardinality(Worker)
        BY DEF AbandonedNeedsHits
    <2>1. producer = "send" /\ \A w \in Worker : worker[w] = "done"
        BY DEF Abandoned
    <2>2. groupErr
        BY <2>1 DEF IInv, GaveUp
    <2>3. taken \in Nat /\ taken >= 1 /\ Handed = taken - 1
        BY <2>1, EsListAssumption DEF IInv, TypeOK, PageFits, Handed
    <2>4. hit \in [Worker -> 1..(taken - 1)]
        BY <2>1, <2>3 DEF IInv, TypeOK, GaveUp, HitsApart
    <2>5. \A v, w \in Worker : hit[v] = hit[w] => v = w
        BY <2>4 DEF IInv, HitsApart
    <2>6. hit \in Injection(Worker, 1..(taken - 1))
        BY <2>4, <2>5 DEF Injection, IsInjective
    <2>7. IsFiniteSet(1..(taken - 1)) /\ Cardinality(1..(taken - 1)) = taken - 1
        BY <2>3, FS_Interval
    <2>8. Cardinality(Worker) <= taken - 1
        BY <2>6, <2>7, FS_Injection
    <2>9. Cardinality(Worker) \in Nat
        BY EsListAssumption, FS_CardinalityType
    <2>10. QED
        BY <2>2, <2>3, <2>8, <2>9
<1>2. QED
    BY <1>1, Invariance, PTL
=============================================================================
