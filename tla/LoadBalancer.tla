---------------------------- MODULE LoadBalancer ----------------------------
(***************************************************************************)
(* The registry and the client-side load balancer together: goroutines     *)
(* call SelectServer (svc/http/client.go:95-104) for one service while the *)
(* cluster changes.  The selection is that of RoundRobin.tla.              *)
(*                                                                         *)
(* Discover takes no lock, so a call of it spans a window in which         *)
(* callbacks store to the slice.  Nothing overtakes a quiet walk: it       *)
(* answers what Discover of Registry.tla answers.  Any other walk answers  *)
(* whatever the theorems of MemberSliceProofs.tla leave open: a leave may  *)
(* hide nodes (JoinsHideNone), a join may bring ghosts (GhostsNeedAppend)  *)
(* or crash the walk (CrashOnlyAfterJoin).                                 *)
(***************************************************************************)
EXTENDS RoundRobin, Sequences

CONSTANTS
    Node, Service, Meta,  \* as in Registry.tla; MaxNodes bounds len(members)
    Svc                   \* the service the callers ask for

ASSUME LoadBalancerAssumption == /\ Svc \in Service /\ Service \subseteq Meta
                                 /\ Sizes = 0..MaxNodes

VARIABLES
    status, meta, members, process, tainted,  \* as in Registry.tla
    landing,   \* the callback whose stores are still landing: its kind, and
               \* the node it is about
    asking,    \* the calls that are in Discover
    fresh,     \* the calls begun since members and meta last changed, with
               \* all stores landed
    window,    \* what each call's Discover overlaps: the nodes listed and of
               \* Svc throughout (kept), those listed at some moment (seen),
               \* the kinds of the callbacks (ran); history: the nodes live
               \* and of Svc throughout (steady)
    since      \* history: the selections of each element of Discover's answer
               \* by fresh calls, since members and meta last changed

selection == <<current, pc, size, next, calls, panics, turns, serial>>
registry == <<status, meta, members, process, tainted>>
lbvars == <<current, pc, size, next, calls, panics, turns, serial,
            status, meta, members, process, tainted,
            landing, asking, fresh, window, since>>

Reg == INSTANCE Registry WITH MaxMembers <- MaxNodes

Serving == Reg!Discover(Svc)
Unselected == [i \in 1..MaxNodes |-> 0]
Landed == <<"none", {}>>
Closed == [kept |-> {}, seen |-> {}, ran |-> {}, steady |-> {}]
ListedForSvc == {n \in Reg!Listed : meta[n] = Svc}
LiveForSvc == {n \in Reg!Live : meta[n] = Svc}

LBInit == /\ Init /\ Reg!Init
          /\ landing = Landed
          /\ asking = {} /\ fresh = {}
          /\ window = [c \in Caller |-> Closed]
          /\ since = Unselected

-----------------------------------------------------------------------------
\* Discover begins, perhaps while the stores of a callback land.
Ask(c) ==
    /\ pc[c] = "idle" /\ c \notin asking
    /\ asking' = asking \cup {c}
    /\ fresh' = IF landing = Landed THEN fresh \cup {c} ELSE fresh \ {c}
    /\ window' = [window EXCEPT ![c] =
                     [kept   |-> ListedForSvc \ landing[2],
                      seen   |-> Reg!Listed \cup landing[2],
                      ran    |-> {landing[1]} \ {"none"},
                      steady |-> LiveForSvc \ landing[2]]]
    /\ UNCHANGED <<selection, registry, landing, since>>

\* What a Discover that callbacks overtook may answer.
Overtaken(w) ==
    {s \in UNION {[1..k -> Node] : k \in 0..MaxNodes} :
        LET Found == {s[i] : i \in DOMAIN s}
        IN /\ "leave" \in w.ran \/ w.kept \subseteq Found
           /\ "join" \in w.ran \/ Found \subseteq w.seen}

Return(c) == /\ c \in asking
             /\ asking' = asking \ {c}
             /\ UNCHANGED <<registry, landing, fresh, since>>

Forget(c) == window' = [window EXCEPT ![c] = Closed]

\* It answers, and the call goes on with as many nodes.
Answer(c) ==
    /\ Return(c)
    /\ \E nodes \in IF c \in fresh THEN {Serving} ELSE Overtaken(window[c]) :
           Discover(c, Len(nodes))
    /\ c \in fresh => ~Reg!DiscoverFails
    /\ window' = [window EXCEPT ![c] = [Closed EXCEPT !.ran = window[c].ran,
                                                   !.steady = window[c].steady]]

\* It fails on a member it cannot parse, and the call returns the error.
AskFails(c) ==
    /\ Return(c)
    /\ IF c \in fresh THEN Reg!DiscoverFails ELSE tainted # {}
    /\ Forget(c)
    /\ UNCHANGED selection

\* It reads an unfilled slot or beyond the array, and panics.
Crash(c) ==
    /\ Return(c)
    /\ "join" \in window[c].ran
    /\ Forget(c)
    /\ UNCHANGED selection

Reduce(c) ==
    /\ Add(c) \/ Store(c)
    /\ Forget(c)
    /\ UNCHANGED <<registry, landing, asking, fresh, since>>

Use(c) ==
    /\ Pick(c)
    /\ since' = IF c \in fresh THEN [since EXCEPT ![next[c] + 1] = @ + 1]
                               ELSE since
    /\ UNCHANGED <<registry, landing, asking, fresh, window>>

\* The cluster changes under the calls; a callback that changed the slice has
\* memberlist's lock until its last store has landed.
Change ==
    /\ landing = Landed
    /\ Reg!Next
    /\ LET kind == IF Len(members') > Len(members) THEN "join"
                   ELSE IF Len(members') < Len(members) THEN "leave" ELSE "none"
       IN /\ landing' = IF kind = "none" THEN Landed
                        ELSE <<kind, {n \in Node : status'[n] # status[n]}>>
          /\ window' = [c \in Caller |->
                 IF c \notin asking THEN window[c]
                 ELSE [kept   |-> window[c].kept \cap ListedForSvc',
                       seen   |-> window[c].seen \cup Reg!Listed',
                       ran    |-> window[c].ran \cup ({kind} \ {"none"}),
                       steady |-> window[c].steady \cap LiveForSvc']]
    /\ IF UNCHANGED <<members, meta>> THEN UNCHANGED <<since, fresh>>
                                      ELSE since' = Unselected /\ fresh' = {}
    /\ UNCHANGED <<selection, asking>>

Land ==
    /\ landing # Landed
    /\ landing' = Landed
    /\ UNCHANGED <<selection, registry, asking, fresh, window, since>>

LBNext == \/ process = "running" /\ \E c \in Caller : \/ Ask(c) \/ Answer(c)
                                                      \/ AskFails(c) \/ Crash(c)
                                                      \/ Reduce(c) \/ Use(c)
          \/ Change
          \/ Land

LBSpec == LBInit /\ [][LBNext]_lbvars

-----------------------------------------------------------------------------
(* Properties *)

\* Round robin recovers from every change of the cluster: whatever value the
\* counter was left with by a longer or a shorter list, and whatever calls the
\* change overtook, a single caller selects the elements of the present answer
\* in turn from then on, until members or their meta data change again.
FairSinceChange ==
    \A i, j \in DOMAIN Serving : since[i] <= since[j] + 1

\* A selection divides by zero only if no node was live and announced Svc
\* throughout its Discover, or if the removal of some node ran meanwhile and
\* hid those that were.  Joins, announcements and suspicions empty no answer.
PanicOnlyUnserved ==
    [][\A c \in Caller : pc[c] = "add" /\ panics' > panics /\ pc'[c] = "idle"
           => window[c].steady = {} \/ "leave" \in window[c].ran]_lbvars
=============================================================================
