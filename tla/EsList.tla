------------------------------- MODULE EsList -------------------------------
(***************************************************************************)
(* The unlimited form of Es.List, esutils/list.go:24-87 and 116: one       *)
(* producer scrolls through the index and hands the hits to Workers over   *)
(* an unbuffered channel, the workers turn each hit into a result, by the  *)
(* caller's callback if there is one, and hand it to the calling goroutine *)
(* over another.  All of them but the caller are in one errgroup: the      *)
(* first error cancels the group's context.                                *)
(*                                                                         *)
(* Go's unbuffered channels are rendezvous: a send and its receive are one *)
(* step.  The workers assign the callback's error to the variable err of   *)
(* the enclosing function and read it back, unsynchronised.                *)
(***************************************************************************)
EXTENDS Naturals, Sequences, FiniteSets

CONSTANTS
    Worker,       \* the goroutines of list.go:51-74 (ten in the code)
    Hits,         \* how many hits the index holds; a hit is a number
    PageSize,     \* how many hits one scroll request answers
    MayFail       \* whether callbacks and scroll requests may fail

ASSUME EsListAssumption == /\ Worker # {} /\ IsFiniteSet(Worker)
                           /\ Hits \in Nat /\ PageSize \in Nat \ {0}
                           /\ MayFail \in BOOLEAN

VARIABLES
    callback,   \* whether the caller gave a callback
    producer,   \* "scroll", "select", "send" or "done"
    taken,      \* the hits the producer has handed over or is about to
    inPage,     \* the hits of the current page still to come
    worker,     \* where each worker stands
    hit,        \* the hit each worker holds
    failures,   \* history: the hits whose callback failed
    errVar,     \* err of the enclosing function: whether it is not nil
    cancelled,  \* the context of the group is done
    groupErr,   \* the first error returned by a member of the group
    closed,     \* channel c is closed
    main,       \* "drain", or how List returned: "rets" or "error"
    rets        \* the hits whose results were appended

vars == <<callback, producer, taken, inPage, worker, hit, failures, errVar, cancelled,
          groupErr, closed, main, rets>>

Init == /\ callback \in BOOLEAN
        /\ producer = "scroll" /\ taken = 0 /\ inPage = 0
        /\ worker = [w \in Worker |-> "receive"]
        /\ hit = [w \in Worker |-> 0]
        /\ failures = {}
        /\ errVar = FALSE /\ cancelled = FALSE /\ groupErr = FALSE
        /\ closed = FALSE /\ main = "drain"
        /\ rets = << >>

\* A goroutine of the group returns, with an error or nil.
GroupReturn(withError) ==
    /\ groupErr' = (groupErr \/ withError)
    /\ cancelled' = (cancelled \/ withError)

-----------------------------------------------------------------------------
(* The producer, list.go:27-48.                                             *)

ProducerReturn(withError) == producer' = "done" /\ GroupReturn(withError)

\* Mutant: io.EOF is not recognised.
MutScroll ==
    /\ producer = "scroll"
    /\ taken < Hits
    /\ producer' = "select"
    /\ inPage' = IF Hits - taken < PageSize THEN Hits - taken ELSE PageSize
    /\ UNCHANGED <<groupErr, cancelled, taken, worker, hit, failures, errVar, closed,
                   main, rets>>

\* scroll.Do answers a page, io.EOF after the last one, or an error: always
\* possible once the context is cancelled.
Scroll ==
    /\ producer = "scroll"
    /\ \/ /\ taken < Hits
          /\ producer' = "select"
          /\ inPage' = IF Hits - taken < PageSize THEN Hits - taken ELSE PageSize
          /\ UNCHANGED <<groupErr, cancelled>>
       \/ /\ taken = Hits
          /\ ProducerReturn(FALSE)
          /\ UNCHANGED inPage
       \/ /\ MayFail \/ cancelled
          /\ ProducerReturn(TRUE)
          /\ UNCHANGED inPage
    /\ UNCHANGED <<taken, worker, hit, failures, errVar, closed, main, rets>>

\* The select of lines 39-44: its default branch commits to a blocking send.
Select ==
    /\ producer = "select"
    /\ \/ /\ cancelled
          /\ ProducerReturn(TRUE)
          /\ UNCHANGED taken
       \/ /\ ~cancelled
          /\ producer' = "send"
          /\ taken' = taken + 1
          /\ UNCHANGED <<groupErr, cancelled>>
    /\ UNCHANGED <<inPage, worker, hit, failures, errVar, closed, main, rets>>

-----------------------------------------------------------------------------
(* A worker, list.go:51-74.                                                 *)

WorkerReturn(w, withError) ==
    /\ worker' = [worker EXCEPT ![w] = "done"]
    /\ GroupReturn(withError)

\* Mutants, which no run uses: plausible mistakes in the code they precede.
MutHand(w) ==            \* the page never ends
    /\ producer = "send" /\ worker[w] = "receive"
    /\ hit' = [hit EXCEPT ![w] = taken]
    /\ worker' = [worker EXCEPT ![w] = "select"]
    /\ producer' = "select"
    /\ UNCHANGED <<taken, inPage, failures, errVar, cancelled, groupErr, closed, main,
                   rets>>
MutNoMoreHits(w) ==      \* hits is not closed after an error
    /\ producer = "done" /\ worker[w] = "receive" /\ ~cancelled
    /\ WorkerReturn(w, FALSE)
    /\ UNCHANGED <<producer, taken, inPage, hit, failures, errVar, closed, main,
                   rets>>
MutGiveUp(w) ==          \* the context is checked before the receive
    /\ producer = "done" \/ cancelled
    /\ worker[w] = "receive"
    /\ WorkerReturn(w, cancelled)
    /\ UNCHANGED <<producer, taken, inPage, hit, failures, errVar, closed, main,
                   rets>>
MutWrap(w) ==            \* the worker goes on after an error
    /\ worker[w] = "wrap"
    /\ worker' = [worker EXCEPT ![w] = "receive"]
    /\ UNCHANGED <<producer, taken, inPage, hit, failures, errVar, cancelled,
                   groupErr, closed, main, rets>>
MutReturn ==             \* the error of the group is not looked at
    /\ closed /\ main = "drain"
    /\ main' = "rets"
    /\ UNCHANGED <<producer, taken, inPage, worker, hit, failures, errVar,
                   cancelled, groupErr, closed, rets>>

\* hits <- hit meets range hits.
Hand(w) ==
    /\ producer = "send" /\ worker[w] = "receive"
    /\ hit' = [hit EXCEPT ![w] = taken]
    /\ worker' = [worker EXCEPT ![w] = "select"]
    /\ inPage' = inPage - 1
    /\ producer' = IF inPage = 1 THEN "scroll" ELSE "select"
    /\ UNCHANGED <<taken, failures, errVar, cancelled, groupErr, closed, main,
                   rets>>

\* The producer has returned and its deferred close(hits) ended the range.
NoMoreHits(w) ==
    /\ producer = "done" /\ worker[w] = "receive"
    /\ WorkerReturn(w, FALSE)
    /\ UNCHANGED <<producer, taken, inPage, hit, failures, errVar, closed, main,
                   rets>>

\* The select of lines 54-68: give up, or run the callback and store its error.
Process(w) ==
    /\ worker[w] = "select"
    /\ \/ /\ cancelled
          /\ WorkerReturn(w, TRUE)
          /\ UNCHANGED <<failures, errVar>>
       \/ /\ ~cancelled /\ ~callback
          /\ worker' = [worker EXCEPT ![w] = "send"]
          /\ UNCHANGED <<failures, errVar, groupErr, cancelled>>
       \/ /\ ~cancelled /\ callback
          /\ \E fails \in IF MayFail THEN BOOLEAN ELSE {FALSE} :
                /\ failures' = IF fails THEN failures \cup {hit[w]} ELSE failures
                /\ errVar' = fails
          /\ worker' = [worker EXCEPT ![w] = "test"]
          /\ UNCHANGED <<groupErr, cancelled>>
    /\ UNCHANGED <<producer, taken, inPage, hit, closed, main, rets>>

\* err != nil, of whatever err holds by now: the worker's own error may be
\* gone, and a hit whose callback succeeded may be met by another's error.
Test(w) ==
    /\ worker[w] = "test"
    /\ worker' = [worker EXCEPT ![w] = IF errVar THEN "wrap" ELSE "send"]
    /\ UNCHANGED <<producer, taken, inPage, hit, failures, errVar, cancelled,
                   groupErr, closed, main, rets>>

\* errors.Wrap reads err once more and is nil for nil: the worker ends, and
\* what it had for its hit, a result or an error, is gone.
Wrap(w) ==
    /\ worker[w] = "wrap"
    /\ WorkerReturn(w, errVar)
    /\ UNCHANGED <<producer, taken, inPage, hit, failures, errVar, closed, main, rets>>

\* c <- ret meets range c, list.go:69 and 81-83.
Emit(w) ==
    /\ worker[w] = "send" /\ main = "drain"
    /\ worker' = [worker EXCEPT ![w] = "receive"]
    /\ rets' = Append(rets, hit[w])
    /\ UNCHANGED <<producer, taken, inPage, hit, failures, errVar, cancelled,
                   groupErr, closed, main>>

-----------------------------------------------------------------------------
GroupDone == producer = "done" /\ \A w \in Worker : worker[w] = "done"

\* The goroutine of lines 76-79.
Close ==
    /\ GroupDone /\ ~closed
    /\ closed' = TRUE
    /\ UNCHANGED <<producer, taken, inPage, worker, hit, failures, errVar,
                   cancelled, groupErr, main, rets>>

\* Lines 85-87 and 116, after range c has ended.
Return ==
    /\ closed /\ main = "drain"
    /\ main' = IF groupErr \/ errVar THEN "error" ELSE "rets"
    /\ UNCHANGED <<producer, taken, inPage, worker, hit, failures, errVar,
                   cancelled, groupErr, closed, rets>>

WorkerStep(w) == \/ Hand(w) \/ NoMoreHits(w) \/ Process(w) \/ Test(w)
                 \/ Wrap(w) \/ Emit(w)

Next == /\ \/ Scroll \/ Select \/ Close \/ Return
           \/ \E w \in Worker : WorkerStep(w)
        /\ UNCHANGED callback

Spec == Init /\ [][Next]_vars

\* Every goroutine that can run does: Go's scheduler starves none, a scroll
\* request ends (its context or its client times out) and so do callbacks.
FairSpec == Spec /\ WF_vars(Next)

-----------------------------------------------------------------------------
(* Properties *)

TypeOK == /\ callback \in BOOLEAN
          /\ producer \in {"scroll", "select", "send", "done"}
          /\ taken \in 0..Hits /\ inPage \in 0..PageSize
          /\ worker \in [Worker -> {"receive", "select", "test", "wrap", "send", "done"}]
          /\ hit \in [Worker -> 0..Hits] /\ failures \in SUBSET (1..Hits)
          /\ errVar \in BOOLEAN /\ cancelled \in BOOLEAN
          /\ groupErr \in BOOLEAN /\ closed \in BOOLEAN
          /\ main \in {"drain", "rets", "error"}
          /\ rets \in Seq(1..Hits)

Returned == {rets[i] : i \in DOMAIN rets}

Missing == (1..Hits) \ Returned

\* No result is appended twice.  When List succeeds, hits may be without one:
\* a worker that meets an error in the shared err, its own or another's, and
\* then nil in its place, drops what it had, even the result of a callback that
\* succeeded.  But nothing is lost unless some callback failed, and never more
\* than one hit for each worker but one.
EveryHitOnce ==
    /\ \A i, j \in DOMAIN rets : rets[i] = rets[j] => i = j
    /\ main = "rets" /\ Missing # {} =>
           failures # {} /\ Cardinality(Missing) < Cardinality(Worker)

\* The race on err can hide some failures but not all: when List succeeds on
\* a non-empty index, it has the result of a callback that did.
SomeSuccess == main = "rets" /\ Hits > 0 => Returned \ failures # {}

\* The err that line 116 returns agrees with the group: if the group saw no
\* error, the last assignment to the shared err was nil.
LastErrAgrees == closed /\ errVar => groupErr

\* The one way List can hang: the producer passed its check and blocks in the
\* send of line 43, and every worker has given up.
Abandoned == producer = "send" /\ \A w \in Worker : worker[w] = "done"

\* It takes an error, and more hits than workers: each worker gives up with a
\* hit of its own in its hands.
AbandonedNeedsHits == Abandoned => groupErr /\ taken > Cardinality(Worker)

\* List returns, or it is abandoned: there is no other way to hang and none
\* to go on for ever.
Terminates == <>(main # "drain" \/ Abandoned)
============================================================================
