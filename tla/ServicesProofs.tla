----------------------------- MODULE ServicesProofs ----------------------------
(***************************************************************************)
(* Proofs about the services of a server process: its life (Host), the     *)
(* event journal (Events), the cache of family tiles (Families) and the    *)
(* portal hub (Portal), for every value of their constants.                *)
(*                                                                         *)
(* In each part the effect of an action on the fields it touches is stated *)
(* first; the invariant of the component is then preserved by one step per *)
(* action.                                                                 *)
(*   Host: what is announced was drained, since the listener closes before *)
(* anything else does, and the coordinator's token is its operation's.     *)
(*   Events: a stream that is live holds, has sent or has lost everything  *)
(* between what its client saw and the last event, because it subscribes   *)
(* before it replays.                                                      *)
(*   Families: a flight that will store what it read while the generation  *)
(* is still the one it began with has read a catalog at least as new as    *)
(* the last announcement, since every announcement moves the generation.   *)
(*   Portal: the candidate of a cycle is clean when it is committed, and a *)
(* change that no event will tell was told or overlapped.                  *)
(***************************************************************************)
EXTENDS Host, Events, Families, Portal, NaturalsInduction, WellFoundedInduction,
        SequenceTheorems, FiniteSetTheorems, TLAPS

-----------------------------------------------------------------------------
(* Hosts.                                                                  *)

HostStates ==
    {"stopped", "starting", "running", "draining", "stopping",
     "waiting", "returned", "handed off", "quit"}
HostOK == host \in [kind : HostKinds, cur : 0..MaxApps, built : 0..MaxApps, state : HostStates]
AppState == [listen : BOOLEAN, handler : {"none", "in", "saved"}, work : BOOLEAN,
             forced : BOOLEAN, service : {"none", "open", "closed", "aborted"}]
MgrState == [token : BOOLEAN, shown : BOOLEAN, op : OpSteps, base : BOOLEAN,
             barrier : {"none", "armed", "open"}, torn : BOOLEAN, failed : BOOLEAN]
ChkState == [pc : {"off", "read"}, base : BOOLEAN, torn : BOOLEAN]
SpentState == [applies : 0..MaxApplies, checks : 0..MaxChecks, requests : 0..MaxRequests]
HostTypes == /\ HostOK /\ app \in [Apps -> AppState] /\ mgr \in [Apps -> MgrState]
             /\ chk \in [Apps -> ChkState] /\ hostSpent \in SpentState

(* Which App the host serves, and that a host never runs out of them.      *)
HostServes ==
    /\ host.state = "starting" => host.built < MaxApps
    /\ host.cur <= host.built
    /\ host.state \in {"running", "draining", "stopping", "waiting"} => host.cur \in Apps
    /\ host.state = "waiting" => host.kind = "serve"

(* An App that was not built runs no operation, and the token is the       *)
(* operation's.                                                            *)
TokenIsHeld(a) ==
    /\ a > host.built => app[a].service = "none"
    /\ app[a].service = "none" => mgr[a].op = "none"
    /\ ~mgr[a].token => mgr[a].op = "none"

(* Before anything is closed the listener is, and the handlers are gone    *)
(* unless the drain was cut off.                                           *)
Gone(a) == ~app[a].listen /\ (app[a].handler = "none" \/ app[a].forced)
Emptied(a) ==
    /\ mgr[a].op = "drain" => ~app[a].listen
    /\ mgr[a].op = "close" => Gone(a)
    /\ mgr[a].op \in {"download", "activate", "handoff"} =>
         /\ app[a].service = "closed" /\ ~app[a].work
         /\ ~app[a].listen /\ app[a].handler = "none"
    /\ host.cur = a /\ host.state = "draining" => ~app[a].listen
    /\ host.cur = a /\ host.state = "stopping" /\ host.kind = "gui" => Gone(a)
    /\ app[a].service = "closed" /\ Up => Gone(a)
    /\ app[a].service = "closed" => ~app[a].work \/ app[a].forced

(* What the coordinator and a check beside it hold of the announcement,    *)
(* unless it was torn.                                                     *)
Announced(a) ==
    mgr[a].torn \/
      /\ mgr[a].op \in Accepted => mgr[a].shown
      /\ mgr[a].shown => mgr[a].op \in Accepted \cup {"failed"}
      /\ mgr[a].op = "commit" => ~mgr[a].base
      /\ chk[a].pc = "read" => chk[a].torn \/ chk[a].base = mgr[a].shown

(* The inductive invariant of HostSafe.                                    *)
HostInv ==
    /\ HostTypes /\ HostServes /\ HandoffIsDrained
    /\ \A a \in Apps : TokenIsHeld(a) /\ Emptied(a) /\ Announced(a)

LEMMA HostStartsDoes ==
  ASSUME HostTypes, HostServes, HostStarts
  PROVE  /\ host' \in [kind : HostKinds, cur : 0..MaxApps, built : 0..MaxApps, state : HostStates]
         /\ host'.state = "starting" /\ host'.cur = host.cur /\ host'.built = host.built /\ host'.kind = host.kind
         /\ host.state = "stopped" /\ host.built < MaxApps
         /\ UNCHANGED <<app, mgr, chk, hostSpent>>
<1>1. /\ host' \in [kind : HostKinds, cur : 0..MaxApps, built : 0..MaxApps, state : HostStates]
      /\ host'.state = "starting" /\ host'.cur = host.cur /\ host'.built = host.built /\ host'.kind = host.kind
  BY HostAssumption DEF HostStarts, HostTypes, HostOK, HostStates, Apps
<1>2. /\ host.state = "stopped" /\ host.built < MaxApps
      /\ UNCHANGED <<app, mgr, chk, hostSpent>>
  BY DEF HostStarts, SetOp
<1> QED BY <1>1, <1>2

LEMMA HostStopsDoes ==
  ASSUME HostTypes, HostServes, NEW c, c = host.cur, HostStops
  PROVE  /\ app' \in [Apps -> AppState]
         /\ \A b \in Apps \ {c} : app'[b] = app[b]
         /\ ~app'[c].listen /\ app'[c].handler = app[c].handler
         /\ app'[c].work = app[c].work /\ app'[c].forced = app[c].forced
         /\ app'[c].service = app[c].service
         /\ host' \in [kind : HostKinds, cur : 0..MaxApps, built : 0..MaxApps, state : HostStates]
         /\ host'.state = "draining" /\ host'.cur = host.cur /\ host'.built = host.built /\ host'.kind = host.kind
         /\ host.state = "running"
         /\ UNCHANGED <<mgr, chk, hostSpent>>
<1>0. c \in Apps
  BY DEF HostServes, HostStops
<1>1. /\ app' \in [Apps -> AppState]
      /\ \A b \in Apps \ {c} : app'[b] = app[b]
      /\ ~app'[c].listen /\ app'[c].handler = app[c].handler
      /\ app'[c].work = app[c].work /\ app'[c].forced = app[c].forced
      /\ app'[c].service = app[c].service
  BY <1>0 DEF HostStops, HostTypes, AppState, ServiceClosed, Drained, MayClose
<1>2. /\ host' \in [kind : HostKinds, cur : 0..MaxApps, built : 0..MaxApps, state : HostStates]
      /\ host'.state = "draining" /\ host'.cur = host.cur /\ host'.built = host.built /\ host'.kind = host.kind
  BY <1>0, HostAssumption DEF HostStops, HostTypes, HostOK, HostStates, Apps
<1>3. /\ host.state = "running"
      /\ UNCHANGED <<mgr, chk, hostSpent>>
  BY DEF HostStops, SetOp
<1> QED BY <1>1, <1>2, <1>3

LEMMA HostDrainsDoes ==
  ASSUME HostTypes, HostServes, NEW c, c = host.cur, HostDrains
  PROVE  /\ app' \in [Apps -> AppState]
         /\ \A b \in Apps \ {c} : app'[b] = app[b]
         /\ app'[c].listen = app[c].listen /\ app'[c].handler = app[c].handler
         /\ app'[c].work = app[c].work
         /\ (app'[c].forced <=> app[c].forced \/ app[c].handler # "none")
         /\ app'[c].service = app[c].service
         /\ host' \in [kind : HostKinds, cur : 0..MaxApps, built : 0..MaxApps, state : HostStates]
         /\ host'.state = (IF host.kind = "serve" THEN "waiting" ELSE "stopping") /\ host'.cur = host.cur /\ host'.built = host.built /\ host'.kind = host.kind
         /\ host.state = "draining"
         /\ UNCHANGED <<mgr, chk, hostSpent>>
<1>0. c \in Apps
  BY DEF HostServes, HostDrains
<1>1. /\ app' \in [Apps -> AppState]
      /\ \A b \in Apps \ {c} : app'[b] = app[b]
      /\ app'[c].listen = app[c].listen /\ app'[c].handler = app[c].handler
      /\ app'[c].work = app[c].work
      /\ (app'[c].forced <=> app[c].forced \/ app[c].handler # "none")
      /\ app'[c].service = app[c].service
  <2>1. PICK timeout \in BOOLEAN : /\ timeout = (app[c].handler # "none")
                                   /\ app' = [app EXCEPT ![c].forced = app[c].forced \/ timeout]
    BY <1>0 DEF HostDrains, Drained
  <2>2. PICK t \in BOOLEAN : t <=> app[c].forced \/ app[c].handler # "none"
    OBVIOUS
  <2>3. app' = [app EXCEPT ![c].forced = t]
    <3>1. (app[c].forced \/ timeout) = t
      BY <2>1, <2>2
    <3> QED BY <2>1, <3>1
  <2> QED BY <1>0, <2>2, <2>3 DEF HostTypes, AppState
<1>2. /\ host' \in [kind : HostKinds, cur : 0..MaxApps, built : 0..MaxApps, state : HostStates]
      /\ host'.state = (IF host.kind = "serve" THEN "waiting" ELSE "stopping") /\ host'.cur = host.cur /\ host'.built = host.built /\ host'.kind = host.kind
  BY <1>0, HostAssumption DEF HostDrains, HostTypes, HostOK, HostStates, Apps
<1>3. /\ host.state = "draining"
      /\ UNCHANGED <<mgr, chk, hostSpent>>
  BY DEF HostDrains, SetOp
<1> QED BY <1>1, <1>2, <1>3

LEMMA ServeReturnsDoes ==
  ASSUME HostTypes, HostServes, ServeReturns
  PROVE  /\ host' \in [kind : HostKinds, cur : 0..MaxApps, built : 0..MaxApps, state : HostStates]
         /\ host'.state = "waiting" /\ host'.cur = host.cur /\ host'.built = host.built /\ host'.kind = host.kind
         /\ host.kind = "serve" /\ host.state = "running" /\ ~app[host.cur].listen
         /\ UNCHANGED <<app, mgr, chk, hostSpent>>
<1>1. /\ host' \in [kind : HostKinds, cur : 0..MaxApps, built : 0..MaxApps, state : HostStates]
      /\ host'.state = "waiting" /\ host'.cur = host.cur /\ host'.built = host.built /\ host'.kind = host.kind
  BY HostAssumption DEF ServeReturns, HostTypes, HostOK, HostStates, Apps
<1>2. /\ host.kind = "serve" /\ host.state = "running" /\ ~app[host.cur].listen
      /\ UNCHANGED <<app, mgr, chk, hostSpent>>
  BY DEF ServeReturns, SetOp
<1> QED BY <1>1, <1>2

LEMMA WaitIdleDoes ==
  ASSUME HostTypes, HostServes, WaitIdle
  PROVE  /\ host' \in [kind : HostKinds, cur : 0..MaxApps, built : 0..MaxApps, state : HostStates]
         /\ host'.state = "stopping" /\ host'.cur = host.cur /\ host'.built = host.built /\ host'.kind = host.kind
         /\ host.state = "waiting"
         /\ UNCHANGED <<app, mgr, chk, hostSpent>>
<1>1. /\ host' \in [kind : HostKinds, cur : 0..MaxApps, built : 0..MaxApps, state : HostStates]
      /\ host'.state = "stopping" /\ host'.cur = host.cur /\ host'.built = host.built /\ host'.kind = host.kind
  BY HostAssumption DEF WaitIdle, HostTypes, HostOK, HostStates, Apps
<1>2. /\ host.state = "waiting"
      /\ UNCHANGED <<app, mgr, chk, hostSpent>>
  BY DEF WaitIdle, SetOp
<1> QED BY <1>1, <1>2

LEMMA HostQuitsDoes ==
  ASSUME HostTypes, HostServes, HostQuits
  PROVE  /\ host' \in [kind : HostKinds, cur : 0..MaxApps, built : 0..MaxApps, state : HostStates]
         /\ host'.state = "quit" /\ host'.cur = host.cur /\ host'.built = host.built
         /\ UNCHANGED <<app, mgr, chk, hostSpent>>
<1>1. /\ host' \in [kind : HostKinds, cur : 0..MaxApps, built : 0..MaxApps, state : HostStates]
      /\ host'.state = "quit" /\ host'.cur = host.cur /\ host'.built = host.built
  BY HostAssumption DEF HostQuits, HostTypes, HostOK, HostStates, Apps
<1>2. /\ UNCHANGED <<app, mgr, chk, hostSpent>>
  BY DEF HostQuits, SetOp
<1> QED BY <1>1, <1>2

LEMMA FetchDoes ==
  ASSUME HostTypes, HostServes, NEW a \in Apps, Fetch(a)
  PROVE  /\ mgr' \in [Apps -> MgrState]
         /\ \A b \in Apps \ {a} : mgr'[b] = mgr[b]
         /\ mgr'[a].token = mgr[a].token /\ mgr'[a].shown = mgr[a].shown
         /\ mgr'[a].op \in {"base", "failed"} /\ mgr'[a].base = mgr[a].base
         /\ mgr'[a].barrier = mgr[a].barrier /\ mgr'[a].torn = mgr[a].torn
         /\ mgr'[a].failed = mgr[a].failed
         /\ Up
         /\ mgr[a].op = "fetch"
         /\ UNCHANGED <<app, chk, host, hostSpent>>
<1>1. /\ mgr' \in [Apps -> MgrState]
      /\ \A b \in Apps \ {a} : mgr'[b] = mgr[b]
      /\ mgr'[a].token = mgr[a].token /\ mgr'[a].shown = mgr[a].shown
      /\ mgr'[a].op \in {"base", "failed"} /\ mgr'[a].base = mgr[a].base
      /\ mgr'[a].barrier = mgr[a].barrier /\ mgr'[a].torn = mgr[a].torn
      /\ mgr'[a].failed = mgr[a].failed
  BY DEF Fetch, HostTypes, MgrState, OpSteps, SetOp, NoOperation
<1>2. /\ Up
      /\ mgr[a].op = "fetch"
      /\ UNCHANGED <<app, chk, host, hostSpent>>
  BY DEF Fetch, SetOp
<1> QED BY <1>1, <1>2

LEMMA ReadBaseDoes ==
  ASSUME HostTypes, HostServes, NEW a \in Apps, ReadBase(a)
  PROVE  /\ mgr' \in [Apps -> MgrState]
         /\ \A b \in Apps \ {a} : mgr'[b] = mgr[b]
         /\ mgr'[a].token = mgr[a].token /\ mgr'[a].shown = mgr[a].shown
         /\ mgr'[a].op = "commit" /\ mgr'[a].base = mgr[a].shown
         /\ mgr'[a].barrier = mgr[a].barrier /\ mgr'[a].torn = mgr[a].torn
         /\ mgr'[a].failed = mgr[a].failed
         /\ mgr[a].op = "base"
         /\ UNCHANGED <<app, chk, host, hostSpent>>
<1>1. /\ mgr' \in [Apps -> MgrState]
      /\ \A b \in Apps \ {a} : mgr'[b] = mgr[b]
      /\ mgr'[a].token = mgr[a].token /\ mgr'[a].shown = mgr[a].shown
      /\ mgr'[a].op = "commit" /\ mgr'[a].base = mgr[a].shown
      /\ mgr'[a].barrier = mgr[a].barrier /\ mgr'[a].torn = mgr[a].torn
      /\ mgr'[a].failed = mgr[a].failed
  BY DEF ReadBase, HostTypes, MgrState, OpSteps, SetOp, NoOperation
<1>2. /\ mgr[a].op = "base"
      /\ UNCHANGED <<app, chk, host, hostSpent>>
  BY DEF ReadBase, SetOp
<1> QED BY <1>1, <1>2

LEMMA CommitDoes ==
  ASSUME HostTypes, HostServes, NEW a \in Apps, Commit(a)
  PROVE  /\ mgr' \in [Apps -> MgrState]
         /\ \A b \in Apps \ {a} : mgr'[b] = mgr[b]
         /\ (mgr'[a].token <=> mgr'[a].op = "accept") /\ (mgr'[a].shown => mgr[a].base)
         /\ mgr'[a].op \in {"accept", "none"} /\ mgr'[a].base = mgr[a].base
         /\ mgr'[a].barrier = mgr[a].barrier /\ mgr'[a].torn = mgr[a].torn
         /\ mgr'[a].failed = mgr[a].failed
         /\ mgr[a].op = "commit"
         /\ UNCHANGED <<app, chk, host, hostSpent>>
<1>1. /\ mgr' \in [Apps -> MgrState]
      /\ \A b \in Apps \ {a} : mgr'[b] = mgr[b]
      /\ (mgr'[a].token <=> mgr'[a].op = "accept") /\ (mgr'[a].shown => mgr[a].base)
      /\ mgr'[a].op \in {"accept", "none"} /\ mgr'[a].base = mgr[a].base
      /\ mgr'[a].barrier = mgr[a].barrier /\ mgr'[a].torn = mgr[a].torn
      /\ mgr'[a].failed = mgr[a].failed
  BY DEF Commit, HostTypes, MgrState, OpSteps, SetOp, NoOperation
<1>2. /\ mgr[a].op = "commit"
      /\ UNCHANGED <<app, chk, host, hostSpent>>
  BY DEF Commit, SetOp
<1> QED BY <1>1, <1>2

LEMMA AcceptDoes ==
  ASSUME HostTypes, HostServes, NEW a \in Apps, Accept(a)
  PROVE  /\ mgr' \in [Apps -> MgrState]
         /\ \A b \in Apps \ {a} : mgr'[b] = mgr[b]
         /\ mgr'[a].token = mgr[a].token /\ mgr'[a].shown /\ mgr'[a].op = "barrier"
         /\ mgr'[a].base = mgr[a].base /\ mgr'[a].barrier \in {"armed", "open"}
         /\ ~mgr'[a].torn /\ mgr'[a].failed = mgr[a].failed
         /\ chk' \in [Apps -> ChkState]
         /\ \A b \in Apps \ {a} : chk'[b] = chk[b]
         /\ chk'[a].pc = chk[a].pc /\ chk'[a].base = chk[a].base
         /\ (chk'[a].torn <=> chk[a].pc = "read")
         /\ mgr[a].op = "accept"
         /\ UNCHANGED <<app, host, hostSpent>>
<1>1. /\ mgr' \in [Apps -> MgrState]
      /\ \A b \in Apps \ {a} : mgr'[b] = mgr[b]
      /\ mgr'[a].token = mgr[a].token /\ mgr'[a].shown /\ mgr'[a].op = "barrier"
      /\ mgr'[a].base = mgr[a].base /\ mgr'[a].barrier \in {"armed", "open"}
      /\ ~mgr'[a].torn /\ mgr'[a].failed = mgr[a].failed
  <2>1. PICK b \in {"armed", "open"} :
          mgr' = [mgr EXCEPT ![a].op = "barrier", ![a].shown = TRUE, ![a].barrier = b,
                             ![a].torn = FALSE]
    BY DEF Accept
  <2> HIDE DEF Accept
  <2>2. mgr \in [Apps -> MgrState]
    BY DEF HostTypes
  <2>3. mgr' \in [Apps -> MgrState]
    <3>1. [mgr[a] EXCEPT !.op = "barrier", !.shown = TRUE, !.barrier = b, !.torn = FALSE]
             \in MgrState
      BY <2>2 DEF MgrState, OpSteps
    <3>2. mgr' = [mgr EXCEPT ![a] =
                    [mgr[a] EXCEPT !.op = "barrier", !.shown = TRUE, !.barrier = b,
                                   !.torn = FALSE]]
      BY <2>1, <2>2
    <3> QED BY <2>2, <3>1, <3>2
  <2> QED BY <2>1, <2>2, <2>3 DEF MgrState
<1>2. /\ chk' \in [Apps -> ChkState]
      /\ \A b \in Apps \ {a} : chk'[b] = chk[b]
      /\ chk'[a].pc = chk[a].pc /\ chk'[a].base = chk[a].base
      /\ (chk'[a].torn <=> chk[a].pc = "read")
  <2>1. PICK t \in BOOLEAN : t <=> chk[a].pc = "read"
    OBVIOUS
  <2>2. chk' = [chk EXCEPT ![a].torn = t]
    BY <2>1 DEF Accept, HostTypes, ChkState
  <2> QED BY <2>1, <2>2 DEF HostTypes, ChkState
<1>3. /\ mgr[a].op = "accept"
      /\ UNCHANGED <<app, host, hostSpent>>
  BY DEF Accept, SetOp
<1> QED BY <1>1, <1>2, <1>3

LEMMA AwaitBarrierDoes ==
  ASSUME HostTypes, HostServes, NEW a \in Apps, AwaitBarrier(a)
  PROVE  /\ app' \in [Apps -> AppState]
         /\ \A b \in Apps \ {a} : app'[b] = app[b]
         /\ ~app'[a].listen /\ app'[a].handler = app[a].handler
         /\ app'[a].work = app[a].work /\ app'[a].forced = app[a].forced
         /\ app'[a].service = app[a].service
         /\ mgr' \in [Apps -> MgrState]
         /\ \A b \in Apps \ {a} : mgr'[b] = mgr[b]
         /\ mgr'[a].token = mgr[a].token /\ mgr'[a].shown = mgr[a].shown
         /\ mgr'[a].op = "drain" /\ mgr'[a].base = mgr[a].base
         /\ mgr'[a].barrier = mgr[a].barrier /\ mgr'[a].torn = mgr[a].torn
         /\ mgr'[a].failed = mgr[a].failed
         /\ mgr[a].op = "barrier"
         /\ UNCHANGED <<chk, host, hostSpent>>
<1>1. /\ app' \in [Apps -> AppState]
      /\ \A b \in Apps \ {a} : app'[b] = app[b]
      /\ ~app'[a].listen /\ app'[a].handler = app[a].handler
      /\ app'[a].work = app[a].work /\ app'[a].forced = app[a].forced
      /\ app'[a].service = app[a].service
  BY DEF AwaitBarrier, HostTypes, AppState, ServiceClosed, Drained, MayClose
<1>2. /\ mgr' \in [Apps -> MgrState]
      /\ \A b \in Apps \ {a} : mgr'[b] = mgr[b]
      /\ mgr'[a].token = mgr[a].token /\ mgr'[a].shown = mgr[a].shown
      /\ mgr'[a].op = "drain" /\ mgr'[a].base = mgr[a].base
      /\ mgr'[a].barrier = mgr[a].barrier /\ mgr'[a].torn = mgr[a].torn
      /\ mgr'[a].failed = mgr[a].failed
  BY DEF AwaitBarrier, HostTypes, MgrState, OpSteps, SetOp, NoOperation
<1>3. /\ mgr[a].op = "barrier"
      /\ UNCHANGED <<chk, host, hostSpent>>
  BY DEF AwaitBarrier, SetOp
<1> QED BY <1>1, <1>2, <1>3

LEMMA DrainDoes ==
  ASSUME HostTypes, HostServes, NEW a \in Apps, Drain(a)
  PROVE  /\ app' \in [Apps -> AppState]
         /\ \A b \in Apps \ {a} : app'[b] = app[b]
         /\ app'[a].listen = app[a].listen /\ app'[a].handler = app[a].handler
         /\ app'[a].work = app[a].work
         /\ (app'[a].forced <=> app[a].forced \/ app[a].handler # "none")
         /\ app'[a].service = app[a].service
         /\ mgr' \in [Apps -> MgrState]
         /\ \A b \in Apps \ {a} : mgr'[b] = mgr[b]
         /\ mgr'[a].token = mgr[a].token /\ mgr'[a].shown = mgr[a].shown
         /\ mgr'[a].op = "close" /\ mgr'[a].base = mgr[a].base
         /\ mgr'[a].barrier = mgr[a].barrier /\ mgr'[a].torn = mgr[a].torn
         /\ mgr'[a].failed = mgr[a].failed
         /\ mgr[a].op = "drain"
         /\ UNCHANGED <<chk, host, hostSpent>>
<1>1. /\ app' \in [Apps -> AppState]
      /\ \A b \in Apps \ {a} : app'[b] = app[b]
      /\ app'[a].listen = app[a].listen /\ app'[a].handler = app[a].handler
      /\ app'[a].work = app[a].work
      /\ (app'[a].forced <=> app[a].forced \/ app[a].handler # "none")
      /\ app'[a].service = app[a].service
  <2>1. PICK timeout \in BOOLEAN : /\ timeout = (app[a].handler # "none")
                                   /\ app' = [app EXCEPT ![a].forced = app[a].forced \/ timeout]
    BY DEF Drain, Drained
  <2>2. PICK t \in BOOLEAN : t <=> app[a].forced \/ app[a].handler # "none"
    OBVIOUS
  <2>3. app' = [app EXCEPT ![a].forced = t]
    <3>1. (app[a].forced \/ timeout) = t
      BY <2>1, <2>2
    <3> QED BY <2>1, <3>1
  <2> QED BY <2>2, <2>3 DEF HostTypes, AppState
<1>2. /\ mgr' \in [Apps -> MgrState]
      /\ \A b \in Apps \ {a} : mgr'[b] = mgr[b]
      /\ mgr'[a].token = mgr[a].token /\ mgr'[a].shown = mgr[a].shown
      /\ mgr'[a].op = "close" /\ mgr'[a].base = mgr[a].base
      /\ mgr'[a].barrier = mgr[a].barrier /\ mgr'[a].torn = mgr[a].torn
      /\ mgr'[a].failed = mgr[a].failed
  BY DEF Drain, HostTypes, MgrState, OpSteps, SetOp, NoOperation
<1>3. /\ mgr[a].op = "drain"
      /\ UNCHANGED <<chk, host, hostSpent>>
  BY DEF Drain, SetOp
<1> QED BY <1>1, <1>2, <1>3

LEMMA CloseServiceDoes ==
  ASSUME HostTypes, HostServes, NEW a \in Apps, CloseService(a)
  PROVE  /\ app' \in [Apps -> AppState]
         /\ \A b \in Apps \ {a} : app'[b] = app[b]
         /\ app'[a].listen = app[a].listen /\ app'[a].handler = app[a].handler
         /\ app'[a].work = app[a].work /\ app'[a].forced = app[a].forced
         /\ app'[a].service \in {"closed", "aborted"}
         /\ mgr' \in [Apps -> MgrState]
         /\ \A b \in Apps \ {a} : mgr'[b] = mgr[b]
         /\ mgr'[a].token = mgr[a].token /\ mgr'[a].shown = mgr[a].shown
         /\ mgr'[a].op \in {"failed", "download"} /\ mgr'[a].base = mgr[a].base
         /\ mgr'[a].barrier = mgr[a].barrier /\ mgr'[a].torn = mgr[a].torn
         /\ mgr'[a].failed = mgr[a].failed
         /\ mgr'[a].op = "download" => ~app[a].forced /\ app'[a].service = "closed"
         /\ app[a].service \in {"closed", "aborted"} => app'[a].service = app[a].service
         /\ app[a].work /\ app[a].service # "closed" => app'[a].service = "aborted"
         /\ Up
         /\ mgr[a].op = "close"
         /\ UNCHANGED <<chk, host, hostSpent>>
<1>1. /\ app' \in [Apps -> AppState]
      /\ \A b \in Apps \ {a} : app'[b] = app[b]
      /\ app'[a].listen = app[a].listen /\ app'[a].handler = app[a].handler
      /\ app'[a].work = app[a].work /\ app'[a].forced = app[a].forced
      /\ app'[a].service \in {"closed", "aborted"}
  BY DEF CloseService, HostTypes, AppState, ServiceClosed, Drained, MayClose
<1>2. /\ mgr' \in [Apps -> MgrState]
      /\ \A b \in Apps \ {a} : mgr'[b] = mgr[b]
      /\ mgr'[a].token = mgr[a].token /\ mgr'[a].shown = mgr[a].shown
      /\ mgr'[a].op \in {"failed", "download"} /\ mgr'[a].base = mgr[a].base
      /\ mgr'[a].barrier = mgr[a].barrier /\ mgr'[a].torn = mgr[a].torn
      /\ mgr'[a].failed = mgr[a].failed
  BY DEF CloseService, HostTypes, MgrState, OpSteps, SetOp, NoOperation
<1>3. /\ mgr'[a].op = "download" => ~app[a].forced /\ app'[a].service = "closed"
      /\ app[a].service \in {"closed", "aborted"} => app'[a].service = app[a].service
      /\ app[a].work /\ app[a].service # "closed" => app'[a].service = "aborted"
  BY DEF CloseService, HostTypes, AppState, MgrState, ServiceClosed, MayClose, SetOp, OpSteps
<1>4. /\ Up
      /\ mgr[a].op = "close"
      /\ UNCHANGED <<chk, host, hostSpent>>
  BY DEF CloseService, SetOp
<1> QED BY <1>1, <1>2, <1>3, <1>4

LEMMA PipelineDoes ==
  ASSUME HostTypes, HostServes, NEW a \in Apps, Pipeline(a)
  PROVE  /\ mgr' \in [Apps -> MgrState]
         /\ \A b \in Apps \ {a} : mgr'[b] = mgr[b]
         /\ mgr'[a].token = mgr[a].token /\ mgr'[a].shown = mgr[a].shown
         /\ mgr'[a].op \in {"activate", "handoff", "failed"} /\ mgr'[a].base = mgr[a].base
         /\ mgr'[a].barrier = mgr[a].barrier /\ mgr'[a].torn = mgr[a].torn
         /\ mgr'[a].failed = mgr[a].failed
         /\ mgr[a].op \in {"download", "activate"}
         /\ UNCHANGED <<app, chk, host, hostSpent>>
<1>1. /\ mgr' \in [Apps -> MgrState]
      /\ \A b \in Apps \ {a} : mgr'[b] = mgr[b]
      /\ mgr'[a].token = mgr[a].token /\ mgr'[a].shown = mgr[a].shown
      /\ mgr'[a].op \in {"activate", "handoff", "failed"} /\ mgr'[a].base = mgr[a].base
      /\ mgr'[a].barrier = mgr[a].barrier /\ mgr'[a].torn = mgr[a].torn
      /\ mgr'[a].failed = mgr[a].failed
  BY DEF Pipeline, HostTypes, MgrState, OpSteps, SetOp, NoOperation
<1>2. /\ mgr[a].op \in {"download", "activate"}
      /\ UNCHANGED <<app, chk, host, hostSpent>>
  BY DEF Pipeline, SetOp
<1> QED BY <1>1, <1>2

LEMMA HandoffExitsDoes ==
  ASSUME HostTypes, HostServes, NEW a \in Apps, HandoffExits(a)
  PROVE  /\ host' \in [kind : HostKinds, cur : 0..MaxApps, built : 0..MaxApps, state : HostStates]
         /\ host'.state = "handed off" /\ host'.cur = a /\ host'.built = host.built
         /\ mgr[a].op = "handoff"
         /\ UNCHANGED <<app, mgr, chk, hostSpent>>
<1>1. /\ host' \in [kind : HostKinds, cur : 0..MaxApps, built : 0..MaxApps, state : HostStates]
      /\ host'.state = "handed off" /\ host'.cur = a /\ host'.built = host.built
  <2>1. host' = [host EXCEPT !.state = "handed off", !.cur = a] /\ a \in 0..MaxApps
    BY HostAssumption DEF HandoffExits, Apps
  <2> QED BY <2>1 DEF HostTypes, HostOK, HostStates
<1>2. /\ mgr[a].op = "handoff"
      /\ UNCHANGED <<app, mgr, chk, hostSpent>>
  BY DEF HandoffExits, SetOp
<1> QED BY <1>1, <1>2

LEMMA FinishOperationDoes ==
  ASSUME HostTypes, HostServes, NEW a \in Apps, FinishOperation(a)
  PROVE  /\ mgr' \in [Apps -> MgrState]
         /\ \A b \in Apps \ {a} : mgr'[b] = mgr[b]
         /\ ~mgr'[a].token /\ ~mgr'[a].shown /\ mgr'[a].op = "none" /\ ~mgr'[a].base
         /\ mgr'[a].barrier = "none" /\ ~mgr'[a].torn /\ mgr'[a].failed
         /\ chk' \in [Apps -> ChkState]
         /\ \A b \in Apps \ {a} : chk'[b] = chk[b]
         /\ chk'[a].pc = chk[a].pc /\ chk'[a].base = chk[a].base
         /\ (chk'[a].torn <=> chk[a].pc = "read" /\ chk[a].base)
         /\ mgr[a].op = "failed"
         /\ UNCHANGED <<app, host, hostSpent>>
<1>1. /\ mgr' \in [Apps -> MgrState]
      /\ \A b \in Apps \ {a} : mgr'[b] = mgr[b]
      /\ ~mgr'[a].token /\ ~mgr'[a].shown /\ mgr'[a].op = "none" /\ ~mgr'[a].base
      /\ mgr'[a].barrier = "none" /\ ~mgr'[a].torn /\ mgr'[a].failed
  BY DEF FinishOperation, HostTypes, MgrState, OpSteps, SetOp, NoOperation
<1>2. /\ chk' \in [Apps -> ChkState]
      /\ \A b \in Apps \ {a} : chk'[b] = chk[b]
      /\ chk'[a].pc = chk[a].pc /\ chk'[a].base = chk[a].base
      /\ (chk'[a].torn <=> chk[a].pc = "read" /\ chk[a].base)
  BY DEF FinishOperation, HostTypes, ChkState, NoCheck
<1>3. /\ mgr[a].op = "failed"
      /\ UNCHANGED <<app, host, hostSpent>>
  BY DEF FinishOperation, SetOp
<1> QED BY <1>1, <1>2, <1>3

LEMMA BeginOperationDoes ==
  ASSUME HostTypes, HostServes, NEW a \in Apps, BeginOperation(a)
  PROVE  /\ mgr' \in [Apps -> MgrState]
         /\ \A b \in Apps \ {a} : mgr'[b] = mgr[b]
         /\ mgr'[a].token /\ mgr'[a].shown = mgr[a].shown /\ mgr'[a].op = "fetch"
         /\ mgr'[a].base = mgr[a].base /\ mgr'[a].barrier = mgr[a].barrier
         /\ mgr'[a].torn = mgr[a].torn /\ ~mgr'[a].failed
         /\ hostSpent' \in SpentState
         /\ app[a].service = "open" /\ ~mgr[a].token
         /\ UNCHANGED <<app, chk, host>>
<1>1. /\ mgr' \in [Apps -> MgrState]
      /\ \A b \in Apps \ {a} : mgr'[b] = mgr[b]
      /\ mgr'[a].token /\ mgr'[a].shown = mgr[a].shown /\ mgr'[a].op = "fetch"
      /\ mgr'[a].base = mgr[a].base /\ mgr'[a].barrier = mgr[a].barrier
      /\ mgr'[a].torn = mgr[a].torn /\ ~mgr'[a].failed
  BY DEF BeginOperation, HostTypes, MgrState, OpSteps, SetOp, NoOperation
<1>2. /\ hostSpent' \in SpentState
  BY HostAssumption DEF BeginOperation, HostTypes, SpentState
<1>3. /\ app[a].service = "open" /\ ~mgr[a].token
      /\ UNCHANGED <<app, chk, host>>
  BY DEF BeginOperation, SetOp
<1> QED BY <1>1, <1>2, <1>3

LEMMA ResponseFlushedDoes ==
  ASSUME HostTypes, HostServes, NEW a \in Apps, ResponseFlushed(a)
  PROVE  /\ mgr' \in [Apps -> MgrState]
         /\ \A b \in Apps \ {a} : mgr'[b] = mgr[b]
         /\ mgr'[a].token = mgr[a].token /\ mgr'[a].shown = mgr[a].shown
         /\ mgr'[a].op = mgr[a].op /\ mgr'[a].base = mgr[a].base
         /\ mgr'[a].barrier = "open" /\ mgr'[a].torn = mgr[a].torn
         /\ mgr'[a].failed = mgr[a].failed
         /\ UNCHANGED <<app, chk, host, hostSpent>>
<1>1. /\ mgr' \in [Apps -> MgrState]
      /\ \A b \in Apps \ {a} : mgr'[b] = mgr[b]
      /\ mgr'[a].token = mgr[a].token /\ mgr'[a].shown = mgr[a].shown
      /\ mgr'[a].op = mgr[a].op /\ mgr'[a].base = mgr[a].base
      /\ mgr'[a].barrier = "open" /\ mgr'[a].torn = mgr[a].torn
      /\ mgr'[a].failed = mgr[a].failed
  BY DEF ResponseFlushed, HostTypes, MgrState, OpSteps, SetOp, NoOperation
<1>2. /\ UNCHANGED <<app, chk, host, hostSpent>>
  BY DEF ResponseFlushed, SetOp
<1> QED BY <1>1, <1>2

LEMMA CheckReadsDoes ==
  ASSUME HostTypes, HostServes, NEW a \in Apps, CheckReads(a)
  PROVE  /\ chk' \in [Apps -> ChkState]
         /\ \A b \in Apps \ {a} : chk'[b] = chk[b]
         /\ chk'[a].pc = "read" /\ chk'[a].base = mgr[a].shown /\ ~chk'[a].torn
         /\ hostSpent' \in SpentState
         /\ app[a].service # "none"
         /\ UNCHANGED <<app, mgr, host>>
<1>1. /\ chk' \in [Apps -> ChkState]
      /\ \A b \in Apps \ {a} : chk'[b] = chk[b]
      /\ chk'[a].pc = "read" /\ chk'[a].base = mgr[a].shown /\ ~chk'[a].torn
  <2>1. mgr[a].shown \in BOOLEAN
    BY DEF HostTypes, MgrState
  <2>2. PICK t \in BOOLEAN : t = mgr[a].shown
    BY <2>1
  <2>3. chk' = [chk EXCEPT ![a] = [pc |-> "read", base |-> t, torn |-> FALSE]]
    BY <2>2 DEF CheckReads
  <2> QED BY <2>2, <2>3 DEF HostTypes, ChkState
<1>2. /\ hostSpent' \in SpentState
  BY HostAssumption DEF CheckReads, HostTypes, SpentState
<1>3. /\ app[a].service # "none"
      /\ UNCHANGED <<app, mgr, host>>
  BY DEF CheckReads, SetOp
<1> QED BY <1>1, <1>2, <1>3

LEMMA CheckCommitsDoes ==
  ASSUME HostTypes, HostServes, NEW a \in Apps, CheckCommits(a)
  PROVE  /\ mgr' \in [Apps -> MgrState]
         /\ \A b \in Apps \ {a} : mgr'[b] = mgr[b]
         /\ mgr'[a].token = mgr[a].token /\ mgr'[a].shown = chk[a].base
         /\ mgr'[a].op = mgr[a].op /\ mgr'[a].base = mgr[a].base
         /\ mgr'[a].barrier = mgr[a].barrier
         /\ (mgr'[a].torn <=> mgr[a].torn \/ chk[a].torn)
         /\ mgr'[a].failed = mgr[a].failed
         /\ chk' \in [Apps -> ChkState]
         /\ \A b \in Apps \ {a} : chk'[b] = chk[b]
         /\ chk'[a].pc = "off" /\ ~chk'[a].base /\ ~chk'[a].torn
         /\ chk[a].pc = "read"
         /\ UNCHANGED <<app, host, hostSpent>>
<1>1. /\ mgr' \in [Apps -> MgrState]
      /\ \A b \in Apps \ {a} : mgr'[b] = mgr[b]
      /\ mgr'[a].token = mgr[a].token /\ mgr'[a].shown = chk[a].base
      /\ mgr'[a].op = mgr[a].op /\ mgr'[a].base = mgr[a].base
      /\ mgr'[a].barrier = mgr[a].barrier
      /\ (mgr'[a].torn <=> mgr[a].torn \/ chk[a].torn)
      /\ mgr'[a].failed = mgr[a].failed
  <2>1. chk[a].base \in BOOLEAN /\ mgr[a] \in MgrState
    BY DEF HostTypes, ChkState
  <2>2. PICK s \in BOOLEAN, t \in BOOLEAN : s = chk[a].base /\ (t <=> mgr[a].torn \/ chk[a].torn)
    BY <2>1
  <2>3. mgr' = [mgr EXCEPT ![a].shown = s, ![a].torn = t]
    <3>1. (mgr[a].torn \/ chk[a].torn) = t
      BY <2>2
    <3> QED BY <2>2, <3>1 DEF CheckCommits
  <2> QED BY <2>1, <2>2, <2>3 DEF HostTypes, MgrState
<1>2. /\ chk' \in [Apps -> ChkState]
      /\ \A b \in Apps \ {a} : chk'[b] = chk[b]
      /\ chk'[a].pc = "off" /\ ~chk'[a].base /\ ~chk'[a].torn
  BY DEF CheckCommits, HostTypes, ChkState, NoCheck
<1>3. /\ chk[a].pc = "read"
      /\ UNCHANGED <<app, host, hostSpent>>
  BY DEF CheckCommits, SetOp
<1> QED BY <1>1, <1>2, <1>3

LEMMA HandlerEntersDoes ==
  ASSUME HostTypes, HostServes, NEW a \in Apps, HandlerEnters(a)
  PROVE  /\ app' \in [Apps -> AppState]
         /\ \A b \in Apps \ {a} : app'[b] = app[b]
         /\ app'[a].listen = app[a].listen /\ app'[a].handler = "in"
         /\ app'[a].work = app[a].work /\ app'[a].forced = app[a].forced
         /\ app'[a].service = app[a].service
         /\ hostSpent' \in SpentState
         /\ Up /\ app[a].listen
         /\ UNCHANGED <<mgr, chk, host>>
<1>1. /\ app' \in [Apps -> AppState]
      /\ \A b \in Apps \ {a} : app'[b] = app[b]
      /\ app'[a].listen = app[a].listen /\ app'[a].handler = "in"
      /\ app'[a].work = app[a].work /\ app'[a].forced = app[a].forced
      /\ app'[a].service = app[a].service
  BY DEF HandlerEnters, HostTypes, AppState, ServiceClosed, Drained, MayClose
<1>2. /\ hostSpent' \in SpentState
  BY HostAssumption DEF HandlerEnters, HostTypes, SpentState
<1>3. /\ Up /\ app[a].listen
      /\ UNCHANGED <<mgr, chk, host>>
  BY DEF HandlerEnters, SetOp
<1> QED BY <1>1, <1>2, <1>3

LEMMA HandlerLeavesDoes ==
  ASSUME HostTypes, HostServes, NEW a \in Apps, HandlerLeaves(a)
  PROVE  /\ app' \in [Apps -> AppState]
         /\ \A b \in Apps \ {a} : app'[b] = app[b]
         /\ app'[a].listen = app[a].listen /\ app'[a].handler = "none"
         /\ app'[a].work = app[a].work /\ app'[a].forced = app[a].forced
         /\ app'[a].service = app[a].service
         /\ app[a].handler = "in"
         /\ UNCHANGED <<mgr, chk, host, hostSpent>>
<1>1. /\ app' \in [Apps -> AppState]
      /\ \A b \in Apps \ {a} : app'[b] = app[b]
      /\ app'[a].listen = app[a].listen /\ app'[a].handler = "none"
      /\ app'[a].work = app[a].work /\ app'[a].forced = app[a].forced
      /\ app'[a].service = app[a].service
  BY DEF HandlerLeaves, HostTypes, AppState, ServiceClosed, Drained, MayClose
<1>2. /\ app[a].handler = "in"
      /\ UNCHANGED <<mgr, chk, host, hostSpent>>
  BY DEF HandlerLeaves, SetOp
<1> QED BY <1>1, <1>2

LEMMA HandlerSavesJobDoes ==
  ASSUME HostTypes, HostServes, NEW a \in Apps, HandlerSavesJob(a)
  PROVE  /\ app' \in [Apps -> AppState]
         /\ \A b \in Apps \ {a} : app'[b] = app[b]
         /\ app'[a].listen = app[a].listen /\ app'[a].handler = "saved"
         /\ app'[a].work = app[a].work /\ app'[a].forced = app[a].forced
         /\ app'[a].service = app[a].service
         /\ Up
         /\ app[a].handler = "in" /\ app[a].service # "closed"
         /\ UNCHANGED <<mgr, chk, host, hostSpent>>
<1>1. /\ app' \in [Apps -> AppState]
      /\ \A b \in Apps \ {a} : app'[b] = app[b]
      /\ app'[a].listen = app[a].listen /\ app'[a].handler = "saved"
      /\ app'[a].work = app[a].work /\ app'[a].forced = app[a].forced
      /\ app'[a].service = app[a].service
  BY DEF HandlerSavesJob, HostTypes, AppState, ServiceClosed, Drained, MayClose
<1>2. /\ Up
      /\ app[a].handler = "in" /\ app[a].service # "closed"
      /\ UNCHANGED <<mgr, chk, host, hostSpent>>
  BY DEF HandlerSavesJob, SetOp
<1> QED BY <1>1, <1>2

LEMMA HandlerSpawnsWorkDoes ==
  ASSUME HostTypes, HostServes, NEW a \in Apps, HandlerSpawnsWork(a)
  PROVE  /\ app' \in [Apps -> AppState]
         /\ \A b \in Apps \ {a} : app'[b] = app[b]
         /\ app'[a].listen = app[a].listen /\ app'[a].handler = "in" /\ app'[a].work
         /\ app'[a].forced = app[a].forced /\ app'[a].service = app[a].service
         /\ Up
         /\ app[a].handler = "saved"
         /\ UNCHANGED <<mgr, chk, host, hostSpent>>
<1>1. /\ app' \in [Apps -> AppState]
      /\ \A b \in Apps \ {a} : app'[b] = app[b]
      /\ app'[a].listen = app[a].listen /\ app'[a].handler = "in" /\ app'[a].work
      /\ app'[a].forced = app[a].forced /\ app'[a].service = app[a].service
  BY DEF HandlerSpawnsWork, HostTypes, AppState, ServiceClosed, Drained, MayClose
<1>2. /\ Up
      /\ app[a].handler = "saved"
      /\ UNCHANGED <<mgr, chk, host, hostSpent>>
  BY DEF HandlerSpawnsWork, SetOp
<1> QED BY <1>1, <1>2

LEMMA WorkEndsDoes ==
  ASSUME HostTypes, HostServes, NEW a \in Apps, WorkEnds(a)
  PROVE  /\ app' \in [Apps -> AppState]
         /\ \A b \in Apps \ {a} : app'[b] = app[b]
         /\ app'[a].listen = app[a].listen /\ app'[a].handler = app[a].handler
         /\ ~app'[a].work /\ app'[a].forced = app[a].forced
         /\ app'[a].service = app[a].service
         /\ UNCHANGED <<mgr, chk, host, hostSpent>>
<1>1. /\ app' \in [Apps -> AppState]
      /\ \A b \in Apps \ {a} : app'[b] = app[b]
      /\ app'[a].listen = app[a].listen /\ app'[a].handler = app[a].handler
      /\ ~app'[a].work /\ app'[a].forced = app[a].forced
      /\ app'[a].service = app[a].service
  BY DEF WorkEnds, HostTypes, AppState, ServiceClosed, Drained, MayClose
<1>2. /\ UNCHANGED <<mgr, chk, host, hostSpent>>
  BY DEF WorkEnds, SetOp
<1> QED BY <1>1, <1>2

LEMMA AppServesDoes ==
  ASSUME HostTypes, HostServes, AppServes
  PROVE  /\ host' \in [kind : HostKinds, cur : 0..MaxApps, built : 0..MaxApps, state : HostStates]
         /\ host'.kind = host.kind /\ app' \in [Apps -> AppState]
         /\ host.state = "starting" /\ UNCHANGED <<mgr, chk, hostSpent>>
         /\ \/ /\ host'.state = "running" /\ host'.cur = host.built + 1
               /\ host'.built = host.built + 1 /\ host.built + 1 \in Apps
               /\ app'[host.built + 1] = NewApp
               /\ \A b \in Apps \ {host.built + 1} : app'[b] = app[b]
            \/ /\ host'.state \in {"returned", "stopped"} /\ host'.cur = host.cur
               /\ host'.built = host.built /\ app' = app
<1>1. host.state = "starting" /\ UNCHANGED <<mgr, chk, hostSpent>>
  BY DEF AppServes
<1>2. host.built + 1 \in Apps /\ host.built \in Nat /\ host.cur \in 0..MaxApps
  BY <1>1, HostAssumption DEF HostServes, HostTypes, HostOK, Apps
<1>3. NewApp \in AppState
  BY DEF NewApp, NoApp, AppState
<1>4. CASE /\ host' = [host EXCEPT !.state = "running", !.cur = host.built + 1,
                                   !.built = @ + 1]
           /\ app' = [app EXCEPT ![host.built + 1] = NewApp]
  <2>1. /\ host' \in [kind : HostKinds, cur : 0..MaxApps, built : 0..MaxApps, state : HostStates]
        /\ host'.kind = host.kind /\ host'.state = "running" /\ host'.cur = host.built + 1
        /\ host'.built = host.built + 1
    <3>1. PICK m \in 0..MaxApps : m = host.built + 1
      BY <1>2, HostAssumption DEF Apps
    <3>2. host' = [host EXCEPT !.state = "running", !.cur = m, !.built = m]
      BY <1>4, <3>1
    <3> QED BY <3>1, <3>2 DEF HostTypes, HostOK, HostStates
  <2>2. /\ app' \in [Apps -> AppState] /\ app'[host.built + 1] = NewApp
        /\ \A b \in Apps \ {host.built + 1} : app'[b] = app[b]
    BY <1>2, <1>3, <1>4 DEF HostTypes
  <2> QED BY <1>1, <1>2, <2>1, <2>2
<1>5. CASE /\ host' = [host EXCEPT !.state = IF host.kind = "serve" THEN "returned"
                                             ELSE "stopped"]
           /\ app' = app
  <2>1. PICK s \in {"returned", "stopped"} :
           s = IF host.kind = "serve" THEN "returned" ELSE "stopped"
    OBVIOUS
  <2>2. host' = [host EXCEPT !.state = s]
    BY <1>5, <2>1
  <2> QED BY <1>1, <1>5, <2>1, <2>2 DEF HostTypes, HostOK, HostStates
<1> QED BY <1>4, <1>5 DEF AppServes

LEMMA HostClosesDoes ==
  ASSUME HostTypes, HostServes, NEW c, c = host.cur, HostCloses
  PROVE  /\ host' \in [kind : HostKinds, cur : 0..MaxApps, built : 0..MaxApps, state : HostStates]
         /\ host'.kind = host.kind /\ host'.built = host.built /\ host'.cur \in {0, c}
         /\ host'.state \in {"returned", "stopped"}
         /\ host.kind = "serve" => host'.state = "returned"
         /\ host.state = "stopping" /\ c \in Apps /\ UNCHANGED <<mgr, chk, hostSpent>>
         /\ app' \in [Apps -> AppState]
         /\ \A b \in Apps \ {c} : app'[b] = app[b]
         /\ app'[c].listen = app[c].listen /\ app'[c].handler = app[c].handler
         /\ app'[c].work = app[c].work /\ app'[c].forced = app[c].forced
         /\ \/ app'[c].service = app[c].service
            \/ /\ app[c].service \notin {"closed", "aborted"}
               /\ app'[c].service \in {"closed", "aborted"}
               /\ app[c].work => app'[c].service = "aborted"
<1>1. host.state = "stopping" /\ c \in Apps /\ UNCHANGED <<mgr, chk, hostSpent>>
  BY DEF HostCloses, HostServes
<1>2. /\ host' \in [kind : HostKinds, cur : 0..MaxApps, built : 0..MaxApps, state : HostStates]
      /\ host'.kind = host.kind /\ host'.built = host.built /\ host'.cur \in {0, c}
      /\ host'.state \in {"returned", "stopped"}
      /\ host.kind = "serve" => host'.state = "returned"
  <2>1. PICK s \in {"returned", "stopped"} :
           s = IF host.kind = "serve" THEN "returned" ELSE "stopped"
    OBVIOUS
  <2>2. PICK k \in {0, c} : k = IF host.kind = "serve" THEN host.cur ELSE 0
    OBVIOUS
  <2>3. host' = [host EXCEPT !.state = s, !.cur = k]
    BY <2>1, <2>2 DEF HostCloses
  <2>4. k \in 0..MaxApps
    BY <1>1, HostAssumption DEF Apps
  <2> QED BY <2>1, <2>2, <2>3, <2>4 DEF HostTypes, HostOK, HostStates
<1>3. CASE app' = app
  BY <1>1, <1>2, <1>3 DEF HostTypes
<1>4. ASSUME NEW timeout \in BOOLEAN, MayClose(c, timeout), app' = ServiceClosed(c, timeout)
      PROVE  /\ app' \in [Apps -> AppState]
             /\ \A b \in Apps \ {c} : app'[b] = app[b]
             /\ app'[c].listen = app[c].listen /\ app'[c].handler = app[c].handler
             /\ app'[c].work = app[c].work /\ app'[c].forced = app[c].forced
             /\ \/ app'[c].service = app[c].service
                \/ /\ app[c].service \notin {"closed", "aborted"}
                   /\ app'[c].service \in {"closed", "aborted"}
                   /\ app[c].work => app'[c].service = "aborted"
  <2>1. PICK s : s = IF app[c].service \in {"closed", "aborted"} THEN app[c].service
                     ELSE IF timeout /\ app[c].work THEN "aborted" ELSE "closed"
    OBVIOUS
  <2>2. s \in {"closed", "aborted"}
    BY <2>1
  <2>3. app' = [app EXCEPT ![c].service = s]
    BY <1>4, <2>1 DEF ServiceClosed
  <2> QED BY <1>1, <1>4, <2>1, <2>2, <2>3 DEF HostTypes, AppState, MayClose
<1> QED BY <1>1, <1>2, <1>3, <1>4 DEF HostCloses

(* The types.                                                              *)
LEMMA HostTypesStep ==
  ASSUME HostInv, [HostNext]_hostVars
  PROVE  HostTypes'
<1>0. HostTypes /\ HostServes
  BY DEF HostInv
<1>1. CASE HostStarts
  BY <1>0, <1>1, HostStartsDoes
     DEF HostInv, HostTypes, HostOK
<1>2. CASE AppServes
  BY <1>0, <1>2, AppServesDoes
     DEF HostInv, HostTypes, HostOK
<1>3. CASE HostStops
  BY <1>0, <1>3, HostStopsDoes
     DEF HostInv, HostTypes, HostOK
<1>4. CASE HostDrains
  BY <1>0, <1>4, HostDrainsDoes
     DEF HostInv, HostTypes, HostOK
<1>5. CASE ServeReturns
  BY <1>0, <1>5, ServeReturnsDoes
     DEF HostInv, HostTypes, HostOK
<1>6. CASE WaitIdle
  BY <1>0, <1>6, WaitIdleDoes
     DEF HostInv, HostTypes, HostOK
<1>7. CASE HostCloses
  BY <1>0, <1>7, HostClosesDoes
     DEF HostInv, HostTypes, HostOK
<1>8. CASE HostQuits
  BY <1>0, <1>8, HostQuitsDoes
     DEF HostInv, HostTypes, HostOK
<1>9. ASSUME NEW a \in Apps, Fetch(a)
      PROVE  HostTypes'
  BY <1>0, <1>9, FetchDoes
     DEF HostInv, HostTypes, HostOK
<1>10. ASSUME NEW a \in Apps, ReadBase(a)
      PROVE  HostTypes'
  BY <1>0, <1>10, ReadBaseDoes
     DEF HostInv, HostTypes, HostOK
<1>11. ASSUME NEW a \in Apps, Commit(a)
      PROVE  HostTypes'
  BY <1>0, <1>11, CommitDoes
     DEF HostInv, HostTypes, HostOK
<1>12. ASSUME NEW a \in Apps, Accept(a)
      PROVE  HostTypes'
  BY <1>0, <1>12, AcceptDoes
     DEF HostInv, HostTypes, HostOK
<1>13. ASSUME NEW a \in Apps, AwaitBarrier(a)
      PROVE  HostTypes'
  BY <1>0, <1>13, AwaitBarrierDoes
     DEF HostInv, HostTypes, HostOK
<1>14. ASSUME NEW a \in Apps, Drain(a)
      PROVE  HostTypes'
  BY <1>0, <1>14, DrainDoes
     DEF HostInv, HostTypes, HostOK
<1>15. ASSUME NEW a \in Apps, CloseService(a)
      PROVE  HostTypes'
  BY <1>0, <1>15, CloseServiceDoes
     DEF HostInv, HostTypes, HostOK
<1>16. ASSUME NEW a \in Apps, Pipeline(a)
      PROVE  HostTypes'
  BY <1>0, <1>16, PipelineDoes
     DEF HostInv, HostTypes, HostOK
<1>17. ASSUME NEW a \in Apps, HandoffExits(a)
      PROVE  HostTypes'
  BY <1>0, <1>17, HandoffExitsDoes
     DEF HostInv, HostTypes, HostOK
<1>18. ASSUME NEW a \in Apps, FinishOperation(a)
      PROVE  HostTypes'
  BY <1>0, <1>18, FinishOperationDoes
     DEF HostInv, HostTypes, HostOK
<1>19. ASSUME NEW a \in Apps, BeginOperation(a)
      PROVE  HostTypes'
  BY <1>0, <1>19, BeginOperationDoes
     DEF HostInv, HostTypes, HostOK
<1>20. ASSUME NEW a \in Apps, ResponseFlushed(a)
      PROVE  HostTypes'
  BY <1>0, <1>20, ResponseFlushedDoes
     DEF HostInv, HostTypes, HostOK
<1>21. ASSUME NEW a \in Apps, CheckReads(a)
      PROVE  HostTypes'
  BY <1>0, <1>21, CheckReadsDoes
     DEF HostInv, HostTypes, HostOK
<1>22. ASSUME NEW a \in Apps, CheckCommits(a)
      PROVE  HostTypes'
  BY <1>0, <1>22, CheckCommitsDoes
     DEF HostInv, HostTypes, HostOK
<1>23. ASSUME NEW a \in Apps, HandlerEnters(a)
      PROVE  HostTypes'
  BY <1>0, <1>23, HandlerEntersDoes
     DEF HostInv, HostTypes, HostOK
<1>24. ASSUME NEW a \in Apps, HandlerLeaves(a)
      PROVE  HostTypes'
  BY <1>0, <1>24, HandlerLeavesDoes
     DEF HostInv, HostTypes, HostOK
<1>25. ASSUME NEW a \in Apps, HandlerSavesJob(a)
      PROVE  HostTypes'
  BY <1>0, <1>25, HandlerSavesJobDoes
     DEF HostInv, HostTypes, HostOK
<1>26. ASSUME NEW a \in Apps, HandlerSpawnsWork(a)
      PROVE  HostTypes'
  BY <1>0, <1>26, HandlerSpawnsWorkDoes
     DEF HostInv, HostTypes, HostOK
<1>27. ASSUME NEW a \in Apps, WorkEnds(a)
      PROVE  HostTypes'
  BY <1>0, <1>27, WorkEndsDoes
     DEF HostInv, HostTypes, HostOK
<1>28. CASE UNCHANGED hostVars
  BY <1>0, <1>28
     DEF hostVars, HostInv, HostTypes, HostOK
<1> QED
  BY <1>1, <1>2, <1>3, <1>4, <1>5, <1>6, <1>7, <1>8, <1>9, <1>10, <1>11, <1>12, <1>13,
     <1>14, <1>15, <1>16, <1>17, <1>18, <1>19, <1>20, <1>21, <1>22, <1>23, <1>24,
     <1>25, <1>26, <1>27, <1>28
     DEF HostNext, HostStep, OperationStep

(* The App that is served.                                                 *)
LEMMA HostServesStep ==
  ASSUME HostInv, [HostNext]_hostVars
  PROVE  HostServes'
<1>0. HostTypes /\ HostServes
  BY DEF HostInv
<1>1. CASE HostStarts
  BY <1>0, <1>1, HostStartsDoes, HostAssumption
     DEF HostInv, HostServes, HostTypes, HostOK
<1>2. CASE AppServes
  BY <1>0, <1>2, AppServesDoes, HostAssumption
     DEF HostInv, HostServes, HostTypes, HostOK, Apps
<1>3. CASE HostStops
  BY <1>0, <1>3, HostStopsDoes, HostAssumption
     DEF HostInv, HostServes, HostTypes, HostOK
<1>4. CASE HostDrains
  BY <1>0, <1>4, HostDrainsDoes, HostAssumption
     DEF HostInv, HostServes, HostTypes, HostOK
<1>5. CASE ServeReturns
  BY <1>0, <1>5, ServeReturnsDoes, HostAssumption
     DEF HostInv, HostServes, HostTypes, HostOK
<1>6. CASE WaitIdle
  BY <1>0, <1>6, WaitIdleDoes, HostAssumption
     DEF HostInv, HostServes, HostTypes, HostOK
<1>7. CASE HostCloses
  BY <1>0, <1>7, HostClosesDoes, HostAssumption
     DEF HostInv, HostServes, HostTypes, HostOK
<1>8. CASE HostQuits
  BY <1>0, <1>8, HostQuitsDoes, HostAssumption
     DEF HostInv, HostServes, HostTypes, HostOK
<1>9. ASSUME NEW a \in Apps, Fetch(a)
      PROVE  HostServes'
  BY <1>0, <1>9, FetchDoes, HostAssumption
     DEF HostInv, HostServes, HostTypes, HostOK
<1>10. ASSUME NEW a \in Apps, ReadBase(a)
      PROVE  HostServes'
  BY <1>0, <1>10, ReadBaseDoes, HostAssumption
     DEF HostInv, HostServes, HostTypes, HostOK
<1>11. ASSUME NEW a \in Apps, Commit(a)
      PROVE  HostServes'
  BY <1>0, <1>11, CommitDoes, HostAssumption
     DEF HostInv, HostServes, HostTypes, HostOK
<1>12. ASSUME NEW a \in Apps, Accept(a)
      PROVE  HostServes'
  BY <1>0, <1>12, AcceptDoes, HostAssumption
     DEF HostInv, HostServes, HostTypes, HostOK
<1>13. ASSUME NEW a \in Apps, AwaitBarrier(a)
      PROVE  HostServes'
  BY <1>0, <1>13, AwaitBarrierDoes, HostAssumption
     DEF HostInv, HostServes, HostTypes, HostOK
<1>14. ASSUME NEW a \in Apps, Drain(a)
      PROVE  HostServes'
  BY <1>0, <1>14, DrainDoes, HostAssumption
     DEF HostInv, HostServes, HostTypes, HostOK
<1>15. ASSUME NEW a \in Apps, CloseService(a)
      PROVE  HostServes'
  BY <1>0, <1>15, CloseServiceDoes, HostAssumption
     DEF HostInv, HostServes, HostTypes, HostOK
<1>16. ASSUME NEW a \in Apps, Pipeline(a)
      PROVE  HostServes'
  BY <1>0, <1>16, PipelineDoes, HostAssumption
     DEF HostInv, HostServes, HostTypes, HostOK
<1>17. ASSUME NEW a \in Apps, HandoffExits(a)
      PROVE  HostServes'
  <2>1. TokenIsHeld(a) /\ Emptied(a) /\ mgr[a].op = "handoff"
    BY <1>0, <1>17, HandoffExitsDoes DEF HostInv
  <2>2. ~(a > host.built)
    BY <2>1 DEF TokenIsHeld, Emptied
  <2>3. a <= host.built
    BY <1>0, <2>2, HostAssumption DEF HostTypes, HostOK, Apps
  <2> QED BY <1>0, <1>17, <2>3, HandoffExitsDoes DEF HostServes
<1>18. ASSUME NEW a \in Apps, FinishOperation(a)
      PROVE  HostServes'
  BY <1>0, <1>18, FinishOperationDoes, HostAssumption
     DEF HostInv, HostServes, HostTypes, HostOK
<1>19. ASSUME NEW a \in Apps, BeginOperation(a)
      PROVE  HostServes'
  BY <1>0, <1>19, BeginOperationDoes, HostAssumption
     DEF HostInv, HostServes, HostTypes, HostOK
<1>20. ASSUME NEW a \in Apps, ResponseFlushed(a)
      PROVE  HostServes'
  BY <1>0, <1>20, ResponseFlushedDoes, HostAssumption
     DEF HostInv, HostServes, HostTypes, HostOK
<1>21. ASSUME NEW a \in Apps, CheckReads(a)
      PROVE  HostServes'
  BY <1>0, <1>21, CheckReadsDoes, HostAssumption
     DEF HostInv, HostServes, HostTypes, HostOK
<1>22. ASSUME NEW a \in Apps, CheckCommits(a)
      PROVE  HostServes'
  BY <1>0, <1>22, CheckCommitsDoes, HostAssumption
     DEF HostInv, HostServes, HostTypes, HostOK
<1>23. ASSUME NEW a \in Apps, HandlerEnters(a)
      PROVE  HostServes'
  BY <1>0, <1>23, HandlerEntersDoes, HostAssumption
     DEF HostInv, HostServes, HostTypes, HostOK
<1>24. ASSUME NEW a \in Apps, HandlerLeaves(a)
      PROVE  HostServes'
  BY <1>0, <1>24, HandlerLeavesDoes, HostAssumption
     DEF HostInv, HostServes, HostTypes, HostOK
<1>25. ASSUME NEW a \in Apps, HandlerSavesJob(a)
      PROVE  HostServes'
  BY <1>0, <1>25, HandlerSavesJobDoes, HostAssumption
     DEF HostInv, HostServes, HostTypes, HostOK
<1>26. ASSUME NEW a \in Apps, HandlerSpawnsWork(a)
      PROVE  HostServes'
  BY <1>0, <1>26, HandlerSpawnsWorkDoes, HostAssumption
     DEF HostInv, HostServes, HostTypes, HostOK
<1>27. ASSUME NEW a \in Apps, WorkEnds(a)
      PROVE  HostServes'
  BY <1>0, <1>27, WorkEndsDoes, HostAssumption
     DEF HostInv, HostServes, HostTypes, HostOK
<1>28. CASE UNCHANGED hostVars
  BY <1>0, <1>28, HostAssumption
     DEF hostVars, HostInv, HostServes, HostTypes, HostOK
<1> QED
  BY <1>1, <1>2, <1>3, <1>4, <1>5, <1>6, <1>7, <1>8, <1>9, <1>10, <1>11, <1>12, <1>13,
     <1>14, <1>15, <1>16, <1>17, <1>18, <1>19, <1>20, <1>21, <1>22, <1>23, <1>24,
     <1>25, <1>26, <1>27, <1>28
     DEF HostNext, HostStep, OperationStep

(* An App whose state stays, under the same host, keeps what holds of it.  *)
LEMMA OtherAppsStay ==
  ASSUME NEW b \in Apps, UNCHANGED host, app'[b] = app[b], mgr'[b] = mgr[b]
  PROVE  /\ TokenIsHeld(b) => TokenIsHeld(b)'
         /\ Emptied(b) => Emptied(b)'
         /\ Announced(b) /\ chk'[b] = chk[b] => Announced(b)'
<1>1. TokenIsHeld(b) => TokenIsHeld(b)'
  BY DEF TokenIsHeld
<1>2. Emptied(b) => Emptied(b)'
  BY DEF Emptied, Gone, Up
<1>3. Announced(b) /\ chk'[b] = chk[b] => Announced(b)'
  BY DEF Announced
<1> QED BY <1>1, <1>2, <1>3

(* The token.                                                              *)
LEMMA TokenIsHeldStep ==
  ASSUME HostInv, [HostNext]_hostVars, NEW b \in Apps
  PROVE  TokenIsHeld(b)'
<1>0. HostTypes /\ HostServes /\ TokenIsHeld(b) /\ Emptied(b) /\ Announced(b)
  BY DEF HostInv
<1>1. CASE HostStarts
  BY <1>0, <1>1, HostStartsDoes
     DEF TokenIsHeld
<1>2. CASE AppServes
  <2>1. CASE b = host.built + 1 /\ host'.state = "running"
    BY <1>0, <1>2, <2>1, AppServesDoes, HostAssumption
       DEF TokenIsHeld, HostTypes, HostOK, NewApp, NoApp, Apps
  <2>2. CASE app'[b] = app[b]
    BY <1>0, <1>2, <2>2, AppServesDoes, HostAssumption
       DEF TokenIsHeld, HostTypes, HostOK, NewApp, NoApp, Apps
  <2> QED BY <1>0, <1>2, <2>1, <2>2, AppServesDoes
<1>3. CASE HostStops
  <2>1. CASE b = host.cur
    BY <1>0, <1>3, <2>1, HostStopsDoes
       DEF TokenIsHeld
  <2>2. CASE b # host.cur
    <3>1. b \in Apps \ {host.cur} /\ app'[b] = app[b]
      BY <1>0, <1>3, <2>2, HostStopsDoes
    <3> QED BY <1>0, <1>3, <2>2, <3>1, HostStopsDoes
       DEF TokenIsHeld
  <2> QED BY <2>1, <2>2
<1>4. CASE HostDrains
  <2>1. CASE b = host.cur
    BY <1>0, <1>4, <2>1, HostDrainsDoes
       DEF TokenIsHeld
  <2>2. CASE b # host.cur
    <3>1. b \in Apps \ {host.cur} /\ app'[b] = app[b]
      BY <1>0, <1>4, <2>2, HostDrainsDoes
    <3> QED BY <1>0, <1>4, <2>2, <3>1, HostDrainsDoes
       DEF TokenIsHeld
  <2> QED BY <2>1, <2>2
<1>5. CASE ServeReturns
  BY <1>0, <1>5, ServeReturnsDoes
     DEF TokenIsHeld
<1>6. CASE WaitIdle
  BY <1>0, <1>6, WaitIdleDoes
     DEF TokenIsHeld
<1>7. CASE HostCloses
  <2>1. CASE b = host.cur
    BY <1>0, <1>7, <2>1, HostClosesDoes, HostAssumption
       DEF TokenIsHeld, HostServes, HostTypes, HostOK, Apps
  <2>2. CASE b # host.cur
    <3>1. b \in Apps \ {host.cur} /\ app'[b] = app[b]
      BY <1>0, <1>7, <2>2, HostClosesDoes
    <3> QED BY <1>0, <1>7, <2>2, <3>1, HostClosesDoes, HostAssumption
       DEF TokenIsHeld, HostServes, HostTypes, HostOK, Apps
  <2> QED BY <2>1, <2>2
<1>8. CASE HostQuits
  BY <1>0, <1>8, HostQuitsDoes
     DEF TokenIsHeld
<1>9. ASSUME NEW a \in Apps, Fetch(a)
      PROVE  TokenIsHeld(b)'
  <2>1. CASE b = a
    BY <1>0, <1>9, <2>1, FetchDoes
       DEF TokenIsHeld
  <2>2. CASE b # a
    BY <1>0, <1>9, <2>2, FetchDoes, OtherAppsStay
  <2> QED BY <2>1, <2>2
<1>10. ASSUME NEW a \in Apps, ReadBase(a)
      PROVE  TokenIsHeld(b)'
  <2>1. CASE b = a
    BY <1>0, <1>10, <2>1, ReadBaseDoes
       DEF TokenIsHeld
  <2>2. CASE b # a
    BY <1>0, <1>10, <2>2, ReadBaseDoes, OtherAppsStay
  <2> QED BY <2>1, <2>2
<1>11. ASSUME NEW a \in Apps, Commit(a)
      PROVE  TokenIsHeld(b)'
  <2>1. CASE b = a
    BY <1>0, <1>11, <2>1, CommitDoes
       DEF TokenIsHeld
  <2>2. CASE b # a
    BY <1>0, <1>11, <2>2, CommitDoes, OtherAppsStay
  <2> QED BY <2>1, <2>2
<1>12. ASSUME NEW a \in Apps, Accept(a)
      PROVE  TokenIsHeld(b)'
  <2>1. CASE b = a
    BY <1>0, <1>12, <2>1, AcceptDoes
       DEF TokenIsHeld
  <2>2. CASE b # a
    BY <1>0, <1>12, <2>2, AcceptDoes, OtherAppsStay
  <2> QED BY <2>1, <2>2
<1>13. ASSUME NEW a \in Apps, AwaitBarrier(a)
      PROVE  TokenIsHeld(b)'
  <2>1. CASE b = a
    BY <1>0, <1>13, <2>1, AwaitBarrierDoes
       DEF TokenIsHeld
  <2>2. CASE b # a
    BY <1>0, <1>13, <2>2, AwaitBarrierDoes, OtherAppsStay
  <2> QED BY <2>1, <2>2
<1>14. ASSUME NEW a \in Apps, Drain(a)
      PROVE  TokenIsHeld(b)'
  <2>1. CASE b = a
    BY <1>0, <1>14, <2>1, DrainDoes
       DEF TokenIsHeld
  <2>2. CASE b # a
    BY <1>0, <1>14, <2>2, DrainDoes, OtherAppsStay
  <2> QED BY <2>1, <2>2
<1>15. ASSUME NEW a \in Apps, CloseService(a)
      PROVE  TokenIsHeld(b)'
  <2>1. CASE b = a
    BY <1>0, <1>15, <2>1, CloseServiceDoes, HostAssumption
       DEF TokenIsHeld, HostTypes, AppState
  <2>2. CASE b # a
    BY <1>0, <1>15, <2>2, CloseServiceDoes, OtherAppsStay
  <2> QED BY <2>1, <2>2
<1>16. ASSUME NEW a \in Apps, Pipeline(a)
      PROVE  TokenIsHeld(b)'
  <2>1. CASE b = a
    BY <1>0, <1>16, <2>1, PipelineDoes
       DEF TokenIsHeld
  <2>2. CASE b # a
    BY <1>0, <1>16, <2>2, PipelineDoes, OtherAppsStay
  <2> QED BY <2>1, <2>2
<1>17. ASSUME NEW a \in Apps, HandoffExits(a)
      PROVE  TokenIsHeld(b)'
  BY <1>0, <1>17, HandoffExitsDoes
     DEF TokenIsHeld
<1>18. ASSUME NEW a \in Apps, FinishOperation(a)
      PROVE  TokenIsHeld(b)'
  <2>1. CASE b = a
    BY <1>0, <1>18, <2>1, FinishOperationDoes
       DEF TokenIsHeld
  <2>2. CASE b # a
    BY <1>0, <1>18, <2>2, FinishOperationDoes, OtherAppsStay
  <2> QED BY <2>1, <2>2
<1>19. ASSUME NEW a \in Apps, BeginOperation(a)
      PROVE  TokenIsHeld(b)'
  <2>1. CASE b = a
    BY <1>0, <1>19, <2>1, BeginOperationDoes
       DEF TokenIsHeld
  <2>2. CASE b # a
    BY <1>0, <1>19, <2>2, BeginOperationDoes, OtherAppsStay
  <2> QED BY <2>1, <2>2
<1>20. ASSUME NEW a \in Apps, ResponseFlushed(a)
      PROVE  TokenIsHeld(b)'
  <2>1. CASE b = a
    BY <1>0, <1>20, <2>1, ResponseFlushedDoes
       DEF TokenIsHeld
  <2>2. CASE b # a
    BY <1>0, <1>20, <2>2, ResponseFlushedDoes, OtherAppsStay
  <2> QED BY <2>1, <2>2
<1>21. ASSUME NEW a \in Apps, CheckReads(a)
      PROVE  TokenIsHeld(b)'
  <2>1. CASE b = a
    BY <1>0, <1>21, <2>1, CheckReadsDoes
       DEF TokenIsHeld
  <2>2. CASE b # a
    BY <1>0, <1>21, <2>2, CheckReadsDoes, OtherAppsStay
  <2> QED BY <2>1, <2>2
<1>22. ASSUME NEW a \in Apps, CheckCommits(a)
      PROVE  TokenIsHeld(b)'
  <2>1. CASE b = a
    BY <1>0, <1>22, <2>1, CheckCommitsDoes
       DEF TokenIsHeld
  <2>2. CASE b # a
    BY <1>0, <1>22, <2>2, CheckCommitsDoes, OtherAppsStay
  <2> QED BY <2>1, <2>2
<1>23. ASSUME NEW a \in Apps, HandlerEnters(a)
      PROVE  TokenIsHeld(b)'
  <2>1. CASE b = a
    BY <1>0, <1>23, <2>1, HandlerEntersDoes
       DEF TokenIsHeld
  <2>2. CASE b # a
    BY <1>0, <1>23, <2>2, HandlerEntersDoes, OtherAppsStay
  <2> QED BY <2>1, <2>2
<1>24. ASSUME NEW a \in Apps, HandlerLeaves(a)
      PROVE  TokenIsHeld(b)'
  <2>1. CASE b = a
    BY <1>0, <1>24, <2>1, HandlerLeavesDoes
       DEF TokenIsHeld
  <2>2. CASE b # a
    BY <1>0, <1>24, <2>2, HandlerLeavesDoes, OtherAppsStay
  <2> QED BY <2>1, <2>2
<1>25. ASSUME NEW a \in Apps, HandlerSavesJob(a)
      PROVE  TokenIsHeld(b)'
  <2>1. CASE b = a
    BY <1>0, <1>25, <2>1, HandlerSavesJobDoes
       DEF TokenIsHeld
  <2>2. CASE b # a
    BY <1>0, <1>25, <2>2, HandlerSavesJobDoes, OtherAppsStay
  <2> QED BY <2>1, <2>2
<1>26. ASSUME NEW a \in Apps, HandlerSpawnsWork(a)
      PROVE  TokenIsHeld(b)'
  <2>1. CASE b = a
    BY <1>0, <1>26, <2>1, HandlerSpawnsWorkDoes
       DEF TokenIsHeld
  <2>2. CASE b # a
    BY <1>0, <1>26, <2>2, HandlerSpawnsWorkDoes, OtherAppsStay
  <2> QED BY <2>1, <2>2
<1>27. ASSUME NEW a \in Apps, WorkEnds(a)
      PROVE  TokenIsHeld(b)'
  <2>1. CASE b = a
    BY <1>0, <1>27, <2>1, WorkEndsDoes
       DEF TokenIsHeld
  <2>2. CASE b # a
    BY <1>0, <1>27, <2>2, WorkEndsDoes, OtherAppsStay
  <2> QED BY <2>1, <2>2
<1>28. CASE UNCHANGED hostVars
  BY <1>0, <1>28, OtherAppsStay DEF hostVars
<1> QED
  BY <1>1, <1>2, <1>3, <1>4, <1>5, <1>6, <1>7, <1>8, <1>9, <1>10, <1>11, <1>12, <1>13,
     <1>14, <1>15, <1>16, <1>17, <1>18, <1>19, <1>20, <1>21, <1>22, <1>23, <1>24,
     <1>25, <1>26, <1>27, <1>28
     DEF HostNext, HostStep, OperationStep

(* What is closed was drained.                                             *)
LEMMA EmptiedStep ==
  ASSUME HostInv, [HostNext]_hostVars, NEW b \in Apps
  PROVE  Emptied(b)'
<1>0. HostTypes /\ HostServes /\ TokenIsHeld(b) /\ Emptied(b) /\ Announced(b)
  BY DEF HostInv
<1>1. CASE HostStarts
  BY <1>0, <1>1, HostStartsDoes
     DEF Emptied, Gone, Up
<1>2. CASE AppServes
  <2>1. CASE b = host.built + 1 /\ host'.state = "running"
    <3>1. host.built < b
      BY <1>0, <2>1 DEF HostTypes, HostOK, Apps
    <3>2. mgr[b].op = "none"
      BY <1>0, <3>1 DEF TokenIsHeld
    <3>3. app'[b].service = "open" /\ mgr'[b].op = "none" /\ host'.state = "running"
      BY <1>0, <1>2, <2>1, <3>2, AppServesDoes DEF NewApp, NoApp
    <3> QED BY <3>3 DEF Emptied
  <2>2. CASE app'[b] = app[b]
    BY <1>0, <1>2, <2>2, AppServesDoes DEF Emptied, Gone, Up
  <2> QED BY <1>0, <1>2, <2>1, <2>2, AppServesDoes
<1>3. CASE HostStops
  <2>1. CASE b = host.cur
    BY <1>0, <1>3, <2>1, HostStopsDoes
       DEF Emptied, Gone, Up
  <2>2. CASE b # host.cur
    <3>1. b \in Apps \ {host.cur} /\ app'[b] = app[b]
      BY <1>0, <1>3, <2>2, HostStopsDoes
    <3> QED BY <1>0, <1>3, <2>2, <3>1, HostStopsDoes
       DEF Emptied, Gone, Up
  <2> QED BY <2>1, <2>2
<1>4. CASE HostDrains
  <2>1. CASE b = host.cur
    BY <1>0, <1>4, <2>1, HostDrainsDoes
       DEF Emptied, Gone, Up
  <2>2. CASE b # host.cur
    <3>1. b \in Apps \ {host.cur} /\ app'[b] = app[b]
      BY <1>0, <1>4, <2>2, HostDrainsDoes
    <3> QED BY <1>0, <1>4, <2>2, <3>1, HostDrainsDoes
       DEF Emptied, Gone, Up
  <2> QED BY <2>1, <2>2
<1>5. CASE ServeReturns
  BY <1>0, <1>5, ServeReturnsDoes
     DEF Emptied, Gone, Up
<1>6. CASE WaitIdle
  BY <1>0, <1>6, WaitIdleDoes, HostAssumption
     DEF Emptied, Gone, Up, HostServes
<1>7. CASE HostCloses
  <2>1. CASE b = host.cur
    BY <1>0, <1>7, <2>1, HostClosesDoes, HostAssumption
       DEF Emptied, Gone, Up, HostTypes, HostOK
  <2>2. CASE b # host.cur
    <3>1. b \in Apps \ {host.cur} /\ app'[b] = app[b]
      BY <1>0, <1>7, <2>2, HostClosesDoes
    <3> QED BY <1>0, <1>7, <2>2, <3>1, HostClosesDoes, HostAssumption
       DEF Emptied, Gone, Up, HostTypes, HostOK
  <2> QED BY <2>1, <2>2
<1>8. CASE HostQuits
  BY <1>0, <1>8, HostQuitsDoes
     DEF Emptied, Gone, Up
<1>9. ASSUME NEW a \in Apps, Fetch(a)
      PROVE  Emptied(b)'
  <2>1. CASE b = a
    BY <1>0, <1>9, <2>1, FetchDoes
       DEF Emptied, Gone, Up
  <2>2. CASE b # a
    BY <1>0, <1>9, <2>2, FetchDoes, OtherAppsStay
  <2> QED BY <2>1, <2>2
<1>10. ASSUME NEW a \in Apps, ReadBase(a)
      PROVE  Emptied(b)'
  <2>1. CASE b = a
    BY <1>0, <1>10, <2>1, ReadBaseDoes
       DEF Emptied, Gone, Up
  <2>2. CASE b # a
    BY <1>0, <1>10, <2>2, ReadBaseDoes, OtherAppsStay
  <2> QED BY <2>1, <2>2
<1>11. ASSUME NEW a \in Apps, Commit(a)
      PROVE  Emptied(b)'
  <2>1. CASE b = a
    BY <1>0, <1>11, <2>1, CommitDoes
       DEF Emptied, Gone, Up
  <2>2. CASE b # a
    BY <1>0, <1>11, <2>2, CommitDoes, OtherAppsStay
  <2> QED BY <2>1, <2>2
<1>12. ASSUME NEW a \in Apps, Accept(a)
      PROVE  Emptied(b)'
  <2>1. CASE b = a
    BY <1>0, <1>12, <2>1, AcceptDoes
       DEF Emptied, Gone, Up
  <2>2. CASE b # a
    BY <1>0, <1>12, <2>2, AcceptDoes, OtherAppsStay
  <2> QED BY <2>1, <2>2
<1>13. ASSUME NEW a \in Apps, AwaitBarrier(a)
      PROVE  Emptied(b)'
  <2>1. CASE b = a
    BY <1>0, <1>13, <2>1, AwaitBarrierDoes
       DEF Emptied, Gone, Up
  <2>2. CASE b # a
    BY <1>0, <1>13, <2>2, AwaitBarrierDoes, OtherAppsStay
  <2> QED BY <2>1, <2>2
<1>14. ASSUME NEW a \in Apps, Drain(a)
      PROVE  Emptied(b)'
  <2>1. CASE b = a
    BY <1>0, <1>14, <2>1, DrainDoes
       DEF Emptied, Gone, Up
  <2>2. CASE b # a
    BY <1>0, <1>14, <2>2, DrainDoes, OtherAppsStay
  <2> QED BY <2>1, <2>2
<1>15. ASSUME NEW a \in Apps, CloseService(a)
      PROVE  Emptied(b)'
  <2>1. CASE b = a
    BY <1>0, <1>15, <2>1, CloseServiceDoes
       DEF Emptied, Gone, Up
  <2>2. CASE b # a
    BY <1>0, <1>15, <2>2, CloseServiceDoes, OtherAppsStay
  <2> QED BY <2>1, <2>2
<1>16. ASSUME NEW a \in Apps, Pipeline(a)
      PROVE  Emptied(b)'
  <2>1. CASE b = a
    BY <1>0, <1>16, <2>1, PipelineDoes
       DEF Emptied, Gone, Up
  <2>2. CASE b # a
    BY <1>0, <1>16, <2>2, PipelineDoes, OtherAppsStay
  <2> QED BY <2>1, <2>2
<1>17. ASSUME NEW a \in Apps, HandoffExits(a)
      PROVE  Emptied(b)'
  BY <1>0, <1>17, HandoffExitsDoes
     DEF Emptied, Gone, Up
<1>18. ASSUME NEW a \in Apps, FinishOperation(a)
      PROVE  Emptied(b)'
  <2>1. CASE b = a
    BY <1>0, <1>18, <2>1, FinishOperationDoes
       DEF Emptied, Gone, Up
  <2>2. CASE b # a
    BY <1>0, <1>18, <2>2, FinishOperationDoes, OtherAppsStay
  <2> QED BY <2>1, <2>2
<1>19. ASSUME NEW a \in Apps, BeginOperation(a)
      PROVE  Emptied(b)'
  <2>1. CASE b = a
    BY <1>0, <1>19, <2>1, BeginOperationDoes
       DEF Emptied, Gone, Up
  <2>2. CASE b # a
    BY <1>0, <1>19, <2>2, BeginOperationDoes, OtherAppsStay
  <2> QED BY <2>1, <2>2
<1>20. ASSUME NEW a \in Apps, ResponseFlushed(a)
      PROVE  Emptied(b)'
  <2>1. CASE b = a
    BY <1>0, <1>20, <2>1, ResponseFlushedDoes
       DEF Emptied, Gone, Up
  <2>2. CASE b # a
    BY <1>0, <1>20, <2>2, ResponseFlushedDoes, OtherAppsStay
  <2> QED BY <2>1, <2>2
<1>21. ASSUME NEW a \in Apps, CheckReads(a)
      PROVE  Emptied(b)'
  <2>1. CASE b = a
    BY <1>0, <1>21, <2>1, CheckReadsDoes
       DEF Emptied, Gone, Up
  <2>2. CASE b # a
    BY <1>0, <1>21, <2>2, CheckReadsDoes, OtherAppsStay
  <2> QED BY <2>1, <2>2
<1>22. ASSUME NEW a \in Apps, CheckCommits(a)
      PROVE  Emptied(b)'
  <2>1. CASE b = a
    BY <1>0, <1>22, <2>1, CheckCommitsDoes
       DEF Emptied, Gone, Up
  <2>2. CASE b # a
    BY <1>0, <1>22, <2>2, CheckCommitsDoes, OtherAppsStay
  <2> QED BY <2>1, <2>2
<1>23. ASSUME NEW a \in Apps, HandlerEnters(a)
      PROVE  Emptied(b)'
  <2>1. CASE b = a
    BY <1>0, <1>23, <2>1, HandlerEntersDoes
       DEF Emptied, Gone, Up
  <2>2. CASE b # a
    BY <1>0, <1>23, <2>2, HandlerEntersDoes, OtherAppsStay
  <2> QED BY <2>1, <2>2
<1>24. ASSUME NEW a \in Apps, HandlerLeaves(a)
      PROVE  Emptied(b)'
  <2>1. CASE b = a
    BY <1>0, <1>24, <2>1, HandlerLeavesDoes
       DEF Emptied, Gone, Up
  <2>2. CASE b # a
    BY <1>0, <1>24, <2>2, HandlerLeavesDoes, OtherAppsStay
  <2> QED BY <2>1, <2>2
<1>25. ASSUME NEW a \in Apps, HandlerSavesJob(a)
      PROVE  Emptied(b)'
  <2>1. CASE b = a
    BY <1>0, <1>25, <2>1, HandlerSavesJobDoes
       DEF Emptied, Gone, Up
  <2>2. CASE b # a
    BY <1>0, <1>25, <2>2, HandlerSavesJobDoes, OtherAppsStay
  <2> QED BY <2>1, <2>2
<1>26. ASSUME NEW a \in Apps, HandlerSpawnsWork(a)
      PROVE  Emptied(b)'
  <2>1. CASE b = a
    BY <1>0, <1>26, <2>1, HandlerSpawnsWorkDoes
       DEF Emptied, Gone, Up
  <2>2. CASE b # a
    BY <1>0, <1>26, <2>2, HandlerSpawnsWorkDoes, OtherAppsStay
  <2> QED BY <2>1, <2>2
<1>27. ASSUME NEW a \in Apps, WorkEnds(a)
      PROVE  Emptied(b)'
  <2>1. CASE b = a
    BY <1>0, <1>27, <2>1, WorkEndsDoes
       DEF Emptied, Gone, Up
  <2>2. CASE b # a
    BY <1>0, <1>27, <2>2, WorkEndsDoes, OtherAppsStay
  <2> QED BY <2>1, <2>2
<1>28. CASE UNCHANGED hostVars
  BY <1>0, <1>28, OtherAppsStay DEF hostVars
<1> QED
  BY <1>1, <1>2, <1>3, <1>4, <1>5, <1>6, <1>7, <1>8, <1>9, <1>10, <1>11, <1>12, <1>13,
     <1>14, <1>15, <1>16, <1>17, <1>18, <1>19, <1>20, <1>21, <1>22, <1>23, <1>24,
     <1>25, <1>26, <1>27, <1>28
     DEF HostNext, HostStep, OperationStep

(* What is announced.                                                      *)
LEMMA AnnouncedStep ==
  ASSUME HostInv, [HostNext]_hostVars, NEW b \in Apps
  PROVE  Announced(b)'
<1>0. HostTypes /\ HostServes /\ TokenIsHeld(b) /\ Emptied(b) /\ Announced(b)
  BY DEF HostInv
<1>1. CASE HostStarts
  BY <1>0, <1>1, HostStartsDoes
     DEF Announced, Accepted
<1>2. CASE AppServes
  <2>1. CASE b = host.built + 1 /\ host'.state = "running"
    BY <1>0, <1>2, <2>1, AppServesDoes
       DEF Announced, Accepted
  <2>2. CASE app'[b] = app[b]
    BY <1>0, <1>2, <2>2, AppServesDoes
       DEF Announced, Accepted
  <2> QED BY <1>0, <1>2, <2>1, <2>2, AppServesDoes
<1>3. CASE HostStops
  <2>1. CASE b = host.cur
    BY <1>0, <1>3, <2>1, HostStopsDoes
       DEF Announced, Accepted
  <2>2. CASE b # host.cur
    <3>1. b \in Apps \ {host.cur} /\ app'[b] = app[b]
      BY <1>0, <1>3, <2>2, HostStopsDoes
    <3> QED BY <1>0, <1>3, <2>2, <3>1, HostStopsDoes
       DEF Announced, Accepted
  <2> QED BY <2>1, <2>2
<1>4. CASE HostDrains
  <2>1. CASE b = host.cur
    BY <1>0, <1>4, <2>1, HostDrainsDoes
       DEF Announced, Accepted
  <2>2. CASE b # host.cur
    <3>1. b \in Apps \ {host.cur} /\ app'[b] = app[b]
      BY <1>0, <1>4, <2>2, HostDrainsDoes
    <3> QED BY <1>0, <1>4, <2>2, <3>1, HostDrainsDoes
       DEF Announced, Accepted
  <2> QED BY <2>1, <2>2
<1>5. CASE ServeReturns
  BY <1>0, <1>5, ServeReturnsDoes
     DEF Announced, Accepted
<1>6. CASE WaitIdle
  BY <1>0, <1>6, WaitIdleDoes
     DEF Announced, Accepted
<1>7. CASE HostCloses
  <2>1. CASE b = host.cur
    BY <1>0, <1>7, <2>1, HostClosesDoes
       DEF Announced, Accepted
  <2>2. CASE b # host.cur
    <3>1. b \in Apps \ {host.cur} /\ app'[b] = app[b]
      BY <1>0, <1>7, <2>2, HostClosesDoes
    <3> QED BY <1>0, <1>7, <2>2, <3>1, HostClosesDoes
       DEF Announced, Accepted
  <2> QED BY <2>1, <2>2
<1>8. CASE HostQuits
  BY <1>0, <1>8, HostQuitsDoes
     DEF Announced, Accepted
<1>9. ASSUME NEW a \in Apps, Fetch(a)
      PROVE  Announced(b)'
  <2>1. CASE b = a
    BY <1>0, <1>9, <2>1, FetchDoes
       DEF Announced, Accepted
  <2>2. CASE b # a
    BY <1>0, <1>9, <2>2, FetchDoes, OtherAppsStay
  <2> QED BY <2>1, <2>2
<1>10. ASSUME NEW a \in Apps, ReadBase(a)
      PROVE  Announced(b)'
  <2>1. CASE b = a
    BY <1>0, <1>10, <2>1, ReadBaseDoes
       DEF Announced, Accepted
  <2>2. CASE b # a
    BY <1>0, <1>10, <2>2, ReadBaseDoes, OtherAppsStay
  <2> QED BY <2>1, <2>2
<1>11. ASSUME NEW a \in Apps, Commit(a)
      PROVE  Announced(b)'
  <2>1. CASE b = a
    BY <1>0, <1>11, <2>1, CommitDoes
       DEF Announced, Accepted, HostTypes, ChkState, MgrState
  <2>2. CASE b # a
    BY <1>0, <1>11, <2>2, CommitDoes, OtherAppsStay
  <2> QED BY <2>1, <2>2
<1>12. ASSUME NEW a \in Apps, Accept(a)
      PROVE  Announced(b)'
  <2>1. CASE b = a
    BY <1>0, <1>12, <2>1, AcceptDoes
       DEF Announced, Accepted
  <2>2. CASE b # a
    BY <1>0, <1>12, <2>2, AcceptDoes, OtherAppsStay
  <2> QED BY <2>1, <2>2
<1>13. ASSUME NEW a \in Apps, AwaitBarrier(a)
      PROVE  Announced(b)'
  <2>1. CASE b = a
    BY <1>0, <1>13, <2>1, AwaitBarrierDoes
       DEF Announced, Accepted
  <2>2. CASE b # a
    BY <1>0, <1>13, <2>2, AwaitBarrierDoes, OtherAppsStay
  <2> QED BY <2>1, <2>2
<1>14. ASSUME NEW a \in Apps, Drain(a)
      PROVE  Announced(b)'
  <2>1. CASE b = a
    BY <1>0, <1>14, <2>1, DrainDoes
       DEF Announced, Accepted
  <2>2. CASE b # a
    BY <1>0, <1>14, <2>2, DrainDoes, OtherAppsStay
  <2> QED BY <2>1, <2>2
<1>15. ASSUME NEW a \in Apps, CloseService(a)
      PROVE  Announced(b)'
  <2>1. CASE b = a
    BY <1>0, <1>15, <2>1, CloseServiceDoes
       DEF Announced, Accepted
  <2>2. CASE b # a
    BY <1>0, <1>15, <2>2, CloseServiceDoes, OtherAppsStay
  <2> QED BY <2>1, <2>2
<1>16. ASSUME NEW a \in Apps, Pipeline(a)
      PROVE  Announced(b)'
  <2>1. CASE b = a
    BY <1>0, <1>16, <2>1, PipelineDoes
       DEF Announced, Accepted
  <2>2. CASE b # a
    BY <1>0, <1>16, <2>2, PipelineDoes, OtherAppsStay
  <2> QED BY <2>1, <2>2
<1>17. ASSUME NEW a \in Apps, HandoffExits(a)
      PROVE  Announced(b)'
  BY <1>0, <1>17, HandoffExitsDoes
     DEF Announced, Accepted
<1>18. ASSUME NEW a \in Apps, FinishOperation(a)
      PROVE  Announced(b)'
  <2>1. CASE b = a
    BY <1>0, <1>18, <2>1, FinishOperationDoes
       DEF Announced, Accepted, HostTypes, ChkState, MgrState
  <2>2. CASE b # a
    BY <1>0, <1>18, <2>2, FinishOperationDoes, OtherAppsStay
  <2> QED BY <2>1, <2>2
<1>19. ASSUME NEW a \in Apps, BeginOperation(a)
      PROVE  Announced(b)'
  <2>1. CASE b = a
    BY <1>0, <1>19, <2>1, BeginOperationDoes
       DEF Announced, Accepted, TokenIsHeld
  <2>2. CASE b # a
    BY <1>0, <1>19, <2>2, BeginOperationDoes, OtherAppsStay
  <2> QED BY <2>1, <2>2
<1>20. ASSUME NEW a \in Apps, ResponseFlushed(a)
      PROVE  Announced(b)'
  <2>1. CASE b = a
    BY <1>0, <1>20, <2>1, ResponseFlushedDoes
       DEF Announced, Accepted
  <2>2. CASE b # a
    BY <1>0, <1>20, <2>2, ResponseFlushedDoes, OtherAppsStay
  <2> QED BY <2>1, <2>2
<1>21. ASSUME NEW a \in Apps, CheckReads(a)
      PROVE  Announced(b)'
  <2>1. CASE b = a
    BY <1>0, <1>21, <2>1, CheckReadsDoes
       DEF Announced, Accepted
  <2>2. CASE b # a
    BY <1>0, <1>21, <2>2, CheckReadsDoes, OtherAppsStay
  <2> QED BY <2>1, <2>2
<1>22. ASSUME NEW a \in Apps, CheckCommits(a)
      PROVE  Announced(b)'
  <2>1. CASE b = a
    BY <1>0, <1>22, <2>1, CheckCommitsDoes
       DEF Announced, Accepted
  <2>2. CASE b # a
    BY <1>0, <1>22, <2>2, CheckCommitsDoes, OtherAppsStay
  <2> QED BY <2>1, <2>2
<1>23. ASSUME NEW a \in Apps, HandlerEnters(a)
      PROVE  Announced(b)'
  <2>1. CASE b = a
    BY <1>0, <1>23, <2>1, HandlerEntersDoes
       DEF Announced, Accepted
  <2>2. CASE b # a
    BY <1>0, <1>23, <2>2, HandlerEntersDoes, OtherAppsStay
  <2> QED BY <2>1, <2>2
<1>24. ASSUME NEW a \in Apps, HandlerLeaves(a)
      PROVE  Announced(b)'
  <2>1. CASE b = a
    BY <1>0, <1>24, <2>1, HandlerLeavesDoes
       DEF Announced, Accepted
  <2>2. CASE b # a
    BY <1>0, <1>24, <2>2, HandlerLeavesDoes, OtherAppsStay
  <2> QED BY <2>1, <2>2
<1>25. ASSUME NEW a \in Apps, HandlerSavesJob(a)
      PROVE  Announced(b)'
  <2>1. CASE b = a
    BY <1>0, <1>25, <2>1, HandlerSavesJobDoes
       DEF Announced, Accepted
  <2>2. CASE b # a
    BY <1>0, <1>25, <2>2, HandlerSavesJobDoes, OtherAppsStay
  <2> QED BY <2>1, <2>2
<1>26. ASSUME NEW a \in Apps, HandlerSpawnsWork(a)
      PROVE  Announced(b)'
  <2>1. CASE b = a
    BY <1>0, <1>26, <2>1, HandlerSpawnsWorkDoes
       DEF Announced, Accepted
  <2>2. CASE b # a
    BY <1>0, <1>26, <2>2, HandlerSpawnsWorkDoes, OtherAppsStay
  <2> QED BY <2>1, <2>2
<1>27. ASSUME NEW a \in Apps, WorkEnds(a)
      PROVE  Announced(b)'
  <2>1. CASE b = a
    BY <1>0, <1>27, <2>1, WorkEndsDoes
       DEF Announced, Accepted
  <2>2. CASE b # a
    BY <1>0, <1>27, <2>2, WorkEndsDoes, OtherAppsStay
  <2> QED BY <2>1, <2>2
<1>28. CASE UNCHANGED hostVars
  BY <1>0, <1>28, OtherAppsStay DEF hostVars
<1> QED
  BY <1>1, <1>2, <1>3, <1>4, <1>5, <1>6, <1>7, <1>8, <1>9, <1>10, <1>11, <1>12, <1>13,
     <1>14, <1>15, <1>16, <1>17, <1>18, <1>19, <1>20, <1>21, <1>22, <1>23, <1>24,
     <1>25, <1>26, <1>27, <1>28
     DEF HostNext, HostStep, OperationStep

(* The process that hands over does nothing more.                          *)
LEMMA HandoffStep ==
  ASSUME HostInv, [HostNext]_hostVars
  PROVE  HandoffIsDrained'
<1>0. HostTypes /\ HostServes
  BY DEF HostInv
<1>1. CASE ~Up /\ UNCHANGED hostVars
  BY <1>1 DEF HostInv, HandoffIsDrained, hostVars
<1>2. CASE ~Up /\ HostNext
  BY <1>2 DEF HostNext, HostStep, OperationStep, Up, HostStarts, HostStops, HostQuits,
       AppServes, HostDrains, ServeReturns, WaitIdle, HostCloses, Fetch, ReadBase, Commit,
       Accept, AwaitBarrier, Drain, CloseService, Pipeline, HandoffExits, FinishOperation,
       BeginOperation, ResponseFlushed, CheckReads, CheckCommits, HandlerEnters,
       HandlerLeaves, HandlerSavesJob, HandlerSpawnsWork, WorkEnds
<1>3. CASE Up
  <2>1. ASSUME NEW a \in Apps, HandoffExits(a)
        PROVE  HandoffIsDrained'
    BY <1>0, <2>1, HandoffExitsDoes DEF HostInv, Emptied, HandoffIsDrained
  <2>2. CASE ~(\E a \in Apps : HandoffExits(a))
    <3>1. CASE host' = host
      BY <1>3, <3>1 DEF Up, HandoffIsDrained
    <3>2. CASE HostStarts \/ HostQuits \/ ServeReturns \/ WaitIdle \/ HostStops \/ HostDrains
      BY <1>0, <3>2, HostStartsDoes, HostQuitsDoes, ServeReturnsDoes, WaitIdleDoes,
         HostStopsDoes, HostDrainsDoes DEF HandoffIsDrained
    <3>3. CASE AppServes \/ HostCloses
      BY <1>0, <3>3, AppServesDoes, HostClosesDoes DEF HandoffIsDrained
    <3> QED
      BY <2>2, <3>1, <3>2, <3>3 DEF HostNext, HostStep, OperationStep, hostVars, Fetch, ReadBase,
           Commit, Accept, AwaitBarrier, Drain, CloseService, Pipeline, FinishOperation,
           BeginOperation, ResponseFlushed, CheckReads, CheckCommits, HandlerEnters,
           HandlerLeaves, HandlerSavesJob, HandlerSpawnsWork, WorkEnds
  <2> QED BY <2>1, <2>2
<1> QED BY <1>1, <1>2, <1>3

LEMMA HostInvInit == HostInit => HostInv
<1> SUFFICES ASSUME HostInit PROVE HostInv
  OBVIOUS
<1>1. HostTypes
  <2>1. HostOK
    <3>1. 0 \in 0..MaxApps
      BY HostAssumption
    <3>2. host \in [kind : HostKinds, cur : {0}, built : {0}, state : {"stopped"}]
      BY DEF HostInit
    <3> QED BY <3>1, <3>2 DEF HostOK, HostStates
  <2>2. NoApp \in AppState /\ NoOperation \in MgrState /\ NoCheck \in ChkState
    BY DEF AppState, MgrState, ChkState, NoApp, NoOperation, NoCheck, OpSteps
  <2>3. hostSpent \in SpentState
    BY HostAssumption DEF HostInit, SpentState
  <2> QED BY <2>1, <2>2, <2>3 DEF HostInit, HostTypes
<1>2. HostServes /\ HandoffIsDrained
  <2>1. host.state = "stopped" /\ host.cur = 0 /\ host.built = 0
    BY DEF HostInit
  <2> QED BY <2>1 DEF HostServes, HandoffIsDrained
<1>3. ASSUME NEW a \in Apps PROVE TokenIsHeld(a) /\ Emptied(a) /\ Announced(a)
  BY <1>3 DEF HostInit, TokenIsHeld, Emptied, Announced, NoApp, NoOperation, NoCheck, Accepted, Gone, Up
<1> QED BY <1>1, <1>2, <1>3 DEF HostInv

LEMMA HostInvStep == HostInv /\ [HostNext]_hostVars => HostInv'
<1> SUFFICES ASSUME HostInv, [HostNext]_hostVars PROVE HostInv'
  OBVIOUS
<1>1. \A b \in Apps : TokenIsHeld(b)' /\ Emptied(b)' /\ Announced(b)'
  BY TokenIsHeldStep, EmptiedStep, AnnouncedStep
<1>2. HostTypes' /\ HostServes' /\ HandoffIsDrained'
  BY HostTypesStep, HostServesStep, HandoffStep
<1> QED BY <1>1, <1>2 DEF HostInv, Apps

LEMMA HostInvSafe == HostInv => HostSafe
<1> SUFFICES ASSUME HostInv PROVE HostSafe
  OBVIOUS
<1>1. HostTypeOK
  BY DEF HostInv, HostTypes, HostOK, HostStates, AppState, MgrState, ChkState, SpentState, HostTypeOK
<1>2. ClosedMeansJoined
  BY DEF HostInv, ClosedMeansJoined, Emptied
<1>3. ShownIsTrue
  BY DEF HostInv, ShownIsTrue, Announced
<1> QED BY <1>1, <1>2, <1>3 DEF HostSafe, HostInv

(* HostSafe, for any number of Apps, requests, checks and applies: the     *)
(* repository never closes under a goroutine, a process that hands over    *)
(* has drained its App, and the announced state is the true one.           *)
THEOREM HostTheorem == HostInit /\ [][HostNext]_hostVars => []HostSafe
<1>1. HostInit /\ [][HostNext]_hostVars => []HostInv
  BY HostInvInit, HostInvStep, PTL
<1> QED BY <1>1, HostInvSafe, PTL


-----------------------------------------------------------------------------
(* Events.                                                                 *)

(* A set of natural numbers that is not empty has a least element, and one *)
(* that is bounded a greatest.                                             *)
LEMMA LeastOf ==
  ASSUME NEW S \in SUBSET Nat, S # {}
  PROVE  \E m \in S : \A n \in S : m <= n
<1>1. PICK m \in S : \A n \in S : ~(<<n, m>> \in OpToRel(<, Nat))
  BY NatLessThanWellFounded, WFMin, Zenon
<1>2. \A n \in S : ~(n < m)
  BY <1>1 DEF OpToRel
<1> QED BY <1>2

LEMMA MaxOf ==
  ASSUME NEW N \in Nat, NEW S \in SUBSET (0..N), S # {}
  PROVE  Max(S) \in S /\ \A y \in S : y <= Max(S)
<1> DEFINE T == {N - y : y \in S}
<1>0. \A y \in S : y \in Nat /\ y <= N /\ N - y \in Nat
  OBVIOUS
<1>1. T \in SUBSET Nat /\ T # {}
  BY <1>0
<1>2. PICK t \in T : \A u \in T : t <= u
  <2> HIDE DEF T
  <2> QED BY <1>1, LeastOf
<1>3. PICK m \in S : t = N - m
  BY <1>2
<1>4. \A y \in S : m >= y
  <2> SUFFICES ASSUME NEW y \in S PROVE m >= y
    OBVIOUS
  <2>1. N - y \in T
    OBVIOUS
  <2>2. N - m <= N - y
    BY <1>2, <1>3, <2>1
  <2> QED BY <1>0, <2>2
<1> QED BY <1>3, <1>4 DEF Max

(* A connection k and its client cl when the last event is n: what the     *)
(* client has not seen of a live stream it holds in its channel, has got   *)
(* or has lost.                                                            *)
Shaped(k, cl, n) ==
    /\ k \in ConnType /\ cl \in ClientType
    /\ Len(k.channel) <= QueueCap /\ cl.seen <= n /\ k.delivered <= n
    /\ \A i \in 1..Len(k.channel) : k.channel[i] <= n
Ordered(k) ==
    \A i, j \in 1..Len(k.channel) : i < j => k.channel[i] < k.channel[j]
NoHole(cl) ==
    \A j \in Ids : cl.from < j /\ j <= cl.seen => j \in cl.got \cup cl.lost
Comes(k, n, j) == (k.open /\ j <= n) \/ \E i \in 1..Len(k.channel) : j <= k.channel[i]
Held(k, cl, n) ==
    k.at = "live" =>
      \A j \in Ids : cl.seen < j /\ Comes(k, n, j)
         => j \in cl.got \cup cl.lost \/ \E i \in 1..Len(k.channel) : k.channel[i] = j
Follows(k, cl) ==
    /\ k.at = "live" /\ ~k.replay => \A i \in 1..Len(k.channel) : cl.seen < k.channel[i]
    /\ k.at = "replaying" => k.replay
    /\ k.at # "none" /\ k.replay => k.delivered = cl.seen
Connected(k, cl, n) ==
    /\ Shaped(k, cl, n) /\ Ordered(k) /\ NoHole(cl) /\ Held(k, cl, n) /\ Follows(k, cl)

LEMMA NoConnIsConnected ==
  ASSUME NEW k, NEW cl, NEW n \in 0..MaxEvents, Connected(k, cl, n)
  PROVE  Connected(NoConn, cl, n)
<1>1. NoConn.channel = <<>> /\ Len(<<>>) = 0 /\ <<>> \in Seq(Ids)
  BY DEF NoConn
<1>2. /\ NoConn \in ConnType /\ NoConn.at = "none" /\ NoConn.delivered = 0
      /\ Len(NoConn.channel) = 0
  BY <1>1, EventsAssumption DEF NoConn, ConnType
<1> QED BY <1>2, EventsAssumption DEF Connected, Shaped, Ordered, NoHole, Comes, Held, Follows, ClientType

LEMMA ClosedOutlivesEvents ==
  ASSUME NEW k, NEW cl, NEW n \in 0..MaxEvents, Connected(k, cl, n), ~k.open
  PROVE  Connected(k, cl, n + 1)
<1>0. /\ k \in ConnType /\ cl \in ClientType /\ n \in Nat
      /\ cl.seen \in Nat /\ k.delivered \in Nat /\ Len(k.channel) \in Nat
      /\ \A i \in 1..Len(k.channel) : k.channel[i] \in Nat
  BY EventsAssumption DEF Connected, Shaped, Follows, Ids, ConnType, ClientType
<1>1. /\ cl.seen <= n + 1 /\ k.delivered <= n + 1
      /\ \A i \in 1..Len(k.channel) : k.channel[i] <= n + 1
  BY <1>0 DEF Connected, Shaped
<1> QED BY <1>0, <1>1 DEF Connected, Shaped, Ordered, NoHole, Comes, Held, Follows

LEMMA ClosingKeepsConnected ==
  ASSUME NEW k, NEW cl, NEW n \in 0..MaxEvents, Connected(k, cl, n)
  PROVE  Connected([k EXCEPT !.open = FALSE], cl, n)
<1> DEFINE k2 == [k EXCEPT !.open = FALSE]
<1>1. k \in ConnType
  BY DEF Connected, Shaped, Ordered, NoHole, Comes, Held, Follows
<1>2. /\ k2 \in ConnType /\ k2.at = k.at /\ k2.channel = k.channel /\ ~k2.open
      /\ k2.replay = k.replay /\ k2.delivered = k.delivered
  BY <1>1 DEF ConnType
<1> HIDE DEF k2
<1>3. Connected(k2, cl, n)
  BY <1>2 DEF Connected, Shaped, Ordered, NoHole, Comes, Held, Follows
<1> QED BY <1>3 DEF k2

LEMMA FanOutKeepsConnected ==
  ASSUME NEW k, NEW cl, NEW n \in 0..MaxEvents, n < MaxEvents, Connected(k, cl, n)
  PROVE  Connected(FannedOut(k, n + 1), cl, n + 1)
<1>0. /\ k \in ConnType /\ cl \in ClientType /\ n + 1 \in Ids /\ n \in Nat
      /\ cl.seen \in Nat /\ cl.from \in Nat
      /\ \A i \in 1..Len(k.channel) : k.channel[i] \in Ids
      /\ Len(k.channel) \in Nat /\ QueueCap \in Nat /\ Ids \subseteq Nat
  BY EventsAssumption DEF Connected, Shaped, Follows, Ids, ConnType, ClientType
<1>1. CASE ~k.open
  BY <1>1, ClosedOutlivesEvents DEF FannedOut
<1>2. CASE k.open /\ ~(Len(k.channel) < QueueCap)
  <2>1. FannedOut(k, n + 1) = [k EXCEPT !.open = FALSE]
    BY <1>2 DEF FannedOut
  <2>2. Connected([k EXCEPT !.open = FALSE], cl, n) /\ ~[k EXCEPT !.open = FALSE].open
    BY <1>0, ClosingKeepsConnected DEF ConnType
  <2> QED BY <2>1, <2>2, ClosedOutlivesEvents
<1>3. CASE k.open /\ Len(k.channel) < QueueCap
  <2> DEFINE k2 == [k EXCEPT !.channel = Append(k.channel, n + 1)]
             L == Len(k.channel)
  <2>1. FannedOut(k, n + 1) = k2
    BY <1>3 DEF FannedOut
  <2>2. k.channel \in Seq(Ids)
    BY <1>0 DEF ConnType
  <2>3. /\ Append(k.channel, n + 1) \in Seq(Ids) /\ Len(Append(k.channel, n + 1)) = L + 1
        /\ \A i \in 1..L : Append(k.channel, n + 1)[i] = k.channel[i]
        /\ Append(k.channel, n + 1)[L + 1] = n + 1
    BY <1>0, <2>2
  <2>4. /\ k2 \in ConnType /\ k2.at = k.at /\ k2.open
        /\ k2.replay = k.replay /\ k2.delivered = k.delivered
        /\ k2.channel = Append(k.channel, n + 1)
    BY <1>0, <1>3, <2>3 DEF ConnType
  <2>5. /\ Len(k2.channel) = L + 1 /\ k2.channel[L + 1] = n + 1
        /\ \A i \in 1..L : k2.channel[i] = k.channel[i]
    BY <2>3, <2>4
  <2> HIDE DEF k2
  <2>6. L \in Nat /\ L < QueueCap /\ \A i \in 1..(L + 1) : i \in 1..L \/ i = L + 1
    BY <1>0, <1>3
  <2> HIDE DEF L
  <2>7. \A i \in 1..L : k.channel[i] <= n /\ k.channel[i] \in Nat
    BY <1>0 DEF Connected, Shaped, Ordered, NoHole, Comes, Held, Follows, L
  <2>8. \A i \in 1..(L + 1) : k2.channel[i] <= n + 1 /\ k2.channel[i] \in Nat
    BY <1>0, <2>5, <2>6, <2>7
  <2>9. \A i, j \in 1..(L + 1) : i < j => k2.channel[i] < k2.channel[j]
    <3> SUFFICES ASSUME NEW i \in 1..(L + 1), NEW j \in 1..(L + 1), i < j
                 PROVE  k2.channel[i] < k2.channel[j]
      OBVIOUS
    <3>1. i \in 1..L
      BY <2>6
    <3>2. CASE j \in 1..L
      BY <2>5, <3>1, <3>2 DEF Connected, Shaped, Ordered, NoHole, Comes, Held, Follows, L
    <3>3. CASE j = L + 1
      BY <1>0, <2>5, <2>7, <3>1, <3>3
    <3> QED BY <2>6, <3>2, <3>3
  <2>10. ASSUME k.at = "live", NEW j \in Ids, cl.seen < j,
                (k2.open /\ j <= n + 1) \/ \E i \in 1..(L + 1) : j <= k2.channel[i]
         PROVE  j \in cl.got \cup cl.lost \/ \E i \in 1..(L + 1) : k2.channel[i] = j
    <3>1. j <= n + 1 /\ j \in Nat
      BY <1>0, <2>8, <2>10
    <3>2. CASE j = n + 1
      BY <2>5, <2>6, <3>2
    <3>3. CASE j <= n
      <4>1. j \in cl.got \cup cl.lost \/ \E i \in 1..L : k.channel[i] = j
        BY <1>3, <2>10, <3>3 DEF Connected, Shaped, Ordered, NoHole, Comes, Held, Follows, L
      <4> QED BY <2>5, <2>6, <4>1
    <3> QED BY <1>0, <3>1, <3>2, <3>3
  <2>11. ASSUME k.at = "live", ~k.replay, NEW i \in 1..(L + 1)
         PROVE  cl.seen < k2.channel[i]
    <3>1. CASE i \in 1..L
      BY <2>5, <2>11, <3>1 DEF Connected, Shaped, Ordered, NoHole, Comes, Held, Follows, L
    <3>2. CASE i = L + 1
      BY <1>0, <2>5, <3>2 DEF Connected, Shaped, Ordered, NoHole, Comes, Held, Follows
    <3> QED BY <2>6, <3>1, <3>2
  <2>12. /\ k.delivered \in Nat /\ cl.seen <= n /\ k.delivered <= n
    BY <1>0 DEF Connected, Shaped, Ordered, NoHole, Comes, Held, Follows, ConnType
  <2>13. Connected(k2, cl, n + 1)
    <3>1. /\ \A j \in Ids : cl.from < j /\ j <= cl.seen => j \in cl.got \cup cl.lost
          /\ k.at = "replaying" => k.replay
          /\ k.at # "none" /\ k.replay => k.delivered = cl.seen
      BY DEF Connected, Shaped, Ordered, NoHole, Comes, Held, Follows
    <3>2. /\ Len(k2.channel) <= QueueCap /\ cl.seen <= n + 1 /\ k2.delivered <= n + 1
      BY <1>0, <2>4, <2>5, <2>6, <2>12
    <3> QED BY <1>0, <2>4, <2>5, <2>8, <2>9, <2>10, <2>11, <3>1, <3>2 DEF Connected, Shaped, Ordered, NoHole, Comes, Held, Follows
  <2> QED BY <2>1, <2>13
<1> QED BY <1>0, <1>1, <1>2, <1>3 DEF ConnType

(* What a connection begins with.                                          *)
NewConnection(cl, resume, open) ==
    [at |-> IF resume THEN "replaying" ELSE "live", channel |-> <<>>,
     open |-> open, replay |-> resume, delivered |-> IF resume THEN cl.seen ELSE 0]
ConnectedClient(cl, resume, n) ==
    [cl EXCEPT !.connects = @ + 1, !.from = IF resume THEN @ ELSE n,
               !.seen = IF resume THEN @ ELSE n]

LEMMA ConnectIsConnected ==
  ASSUME NEW k, NEW cl, NEW n \in 0..MaxEvents, Connected(k, cl, n),
         NEW resume \in BOOLEAN, NEW open \in BOOLEAN, cl.connects < MaxConnects
  PROVE  Connected(NewConnection(cl, resume, open), ConnectedClient(cl, resume, n), n)
<1> DEFINE k2 == NewConnection(cl, resume, open)
           cl2 == ConnectedClient(cl, resume, n)
<1>0. /\ cl \in ClientType /\ cl.seen \in Nat /\ cl.from \in Nat /\ cl.seen <= n
      /\ cl.seen \in 0..MaxEvents /\ n \in Nat /\ Ids \subseteq Nat
      /\ cl.connects + 1 \in 0..MaxConnects
  <2>1. cl \in ClientType /\ cl.seen <= n
    BY DEF Connected, Shaped, Ordered, NoHole, Comes, Held, Follows
  <2>2. /\ cl.connects \in 0..MaxConnects /\ cl.seen \in 0..MaxEvents
        /\ cl.from \in 0..MaxEvents
    BY <2>1 DEF ClientType
  <2> QED BY <2>1, <2>2, EventsAssumption DEF Ids
<1>1. <<>> \in Seq(Ids) /\ Len(<<>>) = 0
  OBVIOUS
<1>2. ASSUME resume PROVE Connected(k2, cl2, n)
  <2>1. /\ k2 = [at |-> "replaying", channel |-> <<>>, open |-> open, replay |-> TRUE,
                 delivered |-> cl.seen]
        /\ cl2 = [cl EXCEPT !.connects = cl.connects + 1, !.from = cl.from,
                              !.seen = cl.seen]
    BY <1>2 DEF NewConnection, ConnectedClient
  <2>2. /\ k2 \in ConnType /\ k2.at = "replaying" /\ Len(k2.channel) = 0 /\ k2.replay
        /\ k2.delivered = cl.seen
    BY <1>0, <1>1, <2>1 DEF ConnType
  <2>3. /\ cl2 \in ClientType /\ cl2.seen = cl.seen /\ cl2.from = cl.from
        /\ cl2.got = cl.got /\ cl2.lost = cl.lost
    <3> DEFINE m == cl.connects + 1
    <3>1. m \in 0..MaxConnects /\ cl2 = [cl EXCEPT !.connects = m, !.from = cl.from,
                                                   !.seen = cl.seen]
      BY <1>0, <2>1
    <3> HIDE DEF m
    <3> QED BY <1>0, <3>1 DEF ClientType
  <2> HIDE DEF k2, cl2
  <2> QED BY <1>0, <2>2, <2>3, EventsAssumption DEF Connected, Shaped, Ordered, NoHole, Comes, Held, Follows
<1>3. ASSUME ~resume PROVE Connected(k2, cl2, n)
  <2>1. /\ k2 = [at |-> "live", channel |-> <<>>, open |-> open, replay |-> FALSE,
                 delivered |-> 0]
        /\ cl2 = [cl EXCEPT !.connects = cl.connects + 1, !.from = n, !.seen = n]
    BY <1>3 DEF NewConnection, ConnectedClient
  <2>2. /\ k2 \in ConnType /\ k2.at = "live" /\ Len(k2.channel) = 0 /\ ~k2.replay
        /\ k2.delivered = 0
    BY <1>0, <1>1, <2>1, EventsAssumption DEF ConnType
  <2>3. /\ cl2 \in ClientType /\ cl2.seen = n /\ cl2.from = n
    <3> DEFINE m == cl.connects + 1
    <3>1. m \in 0..MaxConnects /\ cl2 = [cl EXCEPT !.connects = m, !.from = n, !.seen = n]
      BY <1>0, <2>1
    <3> HIDE DEF m
    <3> QED BY <1>0, <3>1 DEF ClientType
  <2> HIDE DEF k2, cl2
  <2> QED BY <1>0, <2>2, <2>3, EventsAssumption DEF Connected, Shaped, Ordered, NoHole, Comes, Held, Follows
<1> QED BY <1>2, <1>3

LEMMA ReplayKeepsConnected ==
  ASSUME NEW k, NEW cl, NEW n \in 0..MaxEvents, Connected(k, cl, n), k.at = "replaying",
         NEW rows \in SUBSET (1..n),
         NEW last, last = Max({k.delivered} \cup rows),
         NEW coming, coming = rows \cup {id \in Range(k.channel) : id > last},
         NEW horizon, horizon = IF k.open THEN n ELSE Max({k.delivered} \cup coming)
  PROVE  Connected([k EXCEPT !.at = "live", !.delivered = last],
                   [cl EXCEPT !.got = @ \cup rows, !.seen = last,
                              !.lost = @ \cup ((k.delivered + 1)..horizon \ coming)], n)
<1> DEFINE after == k.delivered
           L == Len(k.channel)
<1>0. /\ k \in ConnType /\ cl \in ClientType /\ n \in Nat /\ Ids \subseteq Nat
      /\ L \in Nat /\ after \in 0..n /\ cl.seen = after /\ cl.from \in Nat
      /\ \A i \in 1..L : k.channel[i] \in Ids /\ k.channel[i] <= n
      /\ k.replay /\ Range(k.channel) = {k.channel[i] : i \in 1..L}
  <2>1. /\ k \in ConnType /\ cl \in ClientType /\ k.delivered <= n
        /\ \A i \in 1..L : k.channel[i] <= n
        /\ k.replay /\ cl.seen = after
    BY DEF Connected, Shaped, Follows
  <2>2. /\ n \in Nat /\ Ids \subseteq Nat
        /\ k.channel \in Seq(Ids) /\ after \in 0..MaxEvents /\ cl.from \in 0..MaxEvents
    BY <2>1, EventsAssumption DEF Ids, ConnType, ClientType
  <2>3. L \in Nat /\ (\A i \in 1..L : k.channel[i] \in Ids) /\ DOMAIN k.channel = 1..L
    BY <2>2
  <2>4. Range(k.channel) = {k.channel[i] : i \in 1..L}
    BY <2>3 DEF Range
  <2>5. cl.from \in Nat
    BY <2>2, EventsAssumption
  <2> HIDE DEF L
  <2> QED BY <2>1, <2>2, <2>3, <2>4, <2>5, EventsAssumption
<1>i. 1..n \subseteq 0..n /\ 0..n \subseteq 0..MaxEvents /\ 0..n \subseteq Nat
      /\ 1..n \subseteq Ids /\ n \in 0..n
  BY <1>0, EventsAssumption DEF Ids
<1>1. /\ last \in {after} \cup rows /\ \A y \in {after} \cup rows : y <= last
      /\ last \in 0..n
  <2>1. {after} \cup rows \in SUBSET (0..n) /\ {after} \cup rows # {}
    <3>1. after \in 0..n /\ rows \subseteq 0..n
      BY <1>0, <1>i
    <3> HIDE DEF after
    <3> QED BY <3>1
  <2>2. Max({after} \cup rows) \in {after} \cup rows
        /\ \A y \in {after} \cup rows : y <= Max({after} \cup rows)
    BY <1>0, <2>1, MaxOf
  <2> QED BY <2>1, <2>2
<1>2. /\ coming \subseteq 1..n
      /\ \A i \in 1..L : k.channel[i] > last => k.channel[i] \in coming
      /\ \A j \in coming : j <= last => j \in rows
  <2>1. \A i \in 1..L : k.channel[i] \in 1..n
    BY <1>0 DEF Ids
  <2>2. Range(k.channel) \subseteq 1..n
    BY <1>0, <2>1
  <2> HIDE DEF L
  <2>3. \A j \in 1..n : j > last => ~(j <= last)
    BY <1>1
  <2> QED BY <1>0, <1>1, <2>2, <2>3
<1>3. /\ horizon \in 0..n /\ last <= horizon
      /\ k.open => horizon = n
      /\ \A j \in coming : j <= horizon
  <2>1. CASE k.open
    BY <1>0, <1>1, <1>2, <2>1
  <2>2. CASE ~k.open
    <3>1. {after} \cup coming \in SUBSET (0..n) /\ {after} \cup coming # {}
      <4>1. after \in 0..n /\ coming \subseteq 0..n
        BY <1>0, <1>i, <1>2
      <4> HIDE DEF after
      <4> QED BY <4>1
    <3>2. horizon \in {after} \cup coming /\ \A y \in {after} \cup coming : y <= horizon
      BY <1>0, <2>2, <3>1, MaxOf
    <3> QED BY <1>1, <2>2, <3>1, <3>2
  <2> QED BY <2>1, <2>2
<1> DEFINE k2 == [k EXCEPT !.at = "live", !.delivered = last]
           lost == (after + 1)..horizon \ coming
           cl2 == [cl EXCEPT !.got = @ \cup rows, !.seen = last, !.lost = @ \cup lost]
<1>4. /\ k2 \in ConnType /\ k2.at = "live" /\ k2.channel = k.channel /\ k2.open = k.open
      /\ k2.replay /\ k2.delivered = last
  <2>1. last \in 0..MaxEvents
    BY <1>i, <1>1
  <2> QED BY <1>0, <2>1 DEF ConnType
<1>5. /\ cl2 \in ClientType /\ cl2.seen = last /\ cl2.from = cl.from
      /\ cl2.got = cl.got \cup rows /\ cl2.lost = cl.lost \cup lost
  <2>1. rows \subseteq Ids /\ lost \subseteq Ids /\ last \in 0..MaxEvents
    <3>1. (after + 1)..horizon \subseteq 1..n
      <4>1. after \in Nat /\ horizon \in 0..n /\ n \in Nat
        BY <1>0, <1>3
      <4> HIDE DEF after
      <4> QED BY <4>1
    <3> QED BY <1>i, <1>1, <3>1
  <2> HIDE DEF lost
  <2> QED BY <1>0, <2>1 DEF ClientType
<1>6. \A j \in Ids : after < j /\ j <= horizon => j \in lost \/ j \in coming
  BY <1>0, <1>3
<1>h. /\ n \in Nat /\ after \in Nat /\ last \in Nat /\ horizon \in Nat /\ after <= last
      /\ last <= horizon /\ (k.open => horizon = n) /\ L \in Nat
      /\ \A j \in Ids : j \in Nat
      /\ \A i \in 1..L : k.channel[i] \in Nat
      /\ \A j \in coming : j <= horizon
  BY <1>0, <1>i, <1>1, <1>3
<1> HIDE DEF k2, cl2, lost, after, L
<1>7. \A j \in Ids : cl2.from < j /\ j <= cl2.seen => j \in cl2.got \cup cl2.lost
  <2> SUFFICES ASSUME NEW j \in Ids, cl.from < j, j <= last
               PROVE  j \in cl2.got \cup cl2.lost
    BY <1>5
  <2>1. CASE j <= after
    BY <1>0, <1>5, <2>1 DEF Connected, Shaped, Ordered, NoHole, Comes, Held, Follows
  <2>2. CASE after < j
    <3>1. j \in lost \/ j \in coming
      BY <1>h, <1>6, <2>2
    <3> QED BY <1>2, <1>5, <3>1
  <2> QED BY <1>0, <2>1, <2>2
<1>8. ASSUME NEW j \in Ids, last < j,
             (k.open /\ j <= n) \/ \E i \in 1..L : j <= k.channel[i]
      PROVE  j \in cl2.got \cup cl2.lost \/ \E i \in 1..L : k.channel[i] = j
  <2>1. after < j
    BY <1>h, <1>8
  <2>2. j <= horizon
    <3>1. CASE k.open /\ j <= n
      BY <1>h, <3>1
    <3>2. CASE \E i \in 1..L : j <= k.channel[i]
      <4>1. PICK i \in 1..L : j <= k.channel[i]
        BY <3>2
      <4>2. k.channel[i] > last /\ k.channel[i] \in Nat
        BY <1>h, <1>8, <4>1
      <4>3. k.channel[i] <= horizon
        BY <1>h, <1>2, <4>2
      <4> QED BY <1>h, <4>1, <4>2, <4>3
    <3> QED BY <1>8, <3>1, <3>2
  <2>3. j \in lost \/ j \in coming
    BY <1>6, <2>1, <2>2
  <2>4. j \in coming => j \in rows \/ \E i \in 1..L : k.channel[i] = j
    BY <1>0
  <2> QED BY <1>5, <2>3, <2>4
<1>9. Connected(k2, cl2, n)
  <2>1. /\ Len(k2.channel) = L /\ L <= QueueCap /\ cl2.seen <= n /\ k2.delivered <= n
        /\ \A i \in 1..L : k2.channel[i] <= n
        /\ \A i, j \in 1..L : i < j => k2.channel[i] < k2.channel[j]
    BY <1>0, <1>1, <1>4, <1>5 DEF Connected, Shaped, Ordered, NoHole, Comes, Held, Follows, L
  <2>2. /\ k2.at = "live" /\ k2.channel = k.channel /\ (k2.open <=> k.open) /\ k2.replay
        /\ k2.delivered = cl2.seen /\ cl2.seen = last
    BY <1>4, <1>5
  <2>3. Shaped(k2, cl2, n) /\ Ordered(k2) /\ NoHole(cl2)
    BY <1>4, <1>5, <1>7, <2>1 DEF Shaped, Ordered, NoHole
  <2>4. Held(k2, cl2, n)
    BY <1>8, <2>1, <2>2 DEF Held, Comes
  <2>5. Follows(k2, cl2)
    BY <2>2 DEF Follows
  <2> QED BY <2>3, <2>4, <2>5 DEF Connected
<1> QED BY <1>9 DEF k2, cl2, after, lost

LEMMA DeliverKeepsConnected ==
  ASSUME NEW k, NEW cl, NEW n \in 0..MaxEvents, Connected(k, cl, n), k.at = "live",
         k.channel # <<>>,
         NEW id, id = Head(k.channel), NEW skip \in BOOLEAN,
         skip <=> k.replay /\ id <= k.delivered
  PROVE  Connected([k EXCEPT !.channel = Tail(@),
                             !.delivered = IF skip \/ id < @ THEN @ ELSE id],
                   IF skip THEN cl ELSE [cl EXCEPT !.got = @ \cup {id}, !.seen = id], n)
<1> DEFINE L == Len(k.channel)
           T == Tail(k.channel)
           d == IF skip \/ id < k.delivered THEN k.delivered ELSE id
           k2 == [k EXCEPT !.channel = T, !.delivered = d]
           cl2 == IF skip THEN cl ELSE [cl EXCEPT !.got = @ \cup {id}, !.seen = id]
<1>0. /\ k \in ConnType /\ cl \in ClientType /\ n \in Nat /\ Ids \subseteq Nat
      /\ k.channel \in Seq(Ids) /\ L \in Nat \ {0} /\ L <= QueueCap /\ QueueCap \in Nat
      /\ cl.seen \in 0..n /\ k.delivered \in 0..n /\ cl.from \in Nat
      /\ k.delivered \in 0..MaxEvents
  BY EventsAssumption DEF Connected, Shaped, Follows, Ids, ConnType, ClientType
<1>1. /\ T \in Seq(Ids) /\ Len(T) = L - 1 /\ \A i \in 1..(L - 1) : T[i] = k.channel[i + 1]
      /\ id = k.channel[1]
  BY <1>0
<1>2. /\ \A i \in 1..L : k.channel[i] \in Ids /\ k.channel[i] <= n
      /\ id \in Ids /\ id <= n
  BY <1>0, <1>1 DEF Connected, Shaped, Ordered, NoHole, Comes, Held, Follows
<1>3. /\ k2 \in ConnType /\ k2.at = "live" /\ k2.channel = T /\ k2.open = k.open
      /\ k2.replay = k.replay /\ k2.delivered = d
  <2>1. d \in 0..MaxEvents
    BY <1>0, <1>2 DEF Ids
  <2> HIDE DEF d, T
  <2> QED BY <1>0, <1>1, <2>1 DEF ConnType
<1>4. /\ cl2 \in ClientType /\ cl2.from = cl.from
      /\ skip => cl2 = cl
      /\ ~skip => cl2.seen = id /\ cl2.got = cl.got \cup {id} /\ cl2.lost = cl.lost
  <2>1. id \in 0..MaxEvents
    BY <1>2, EventsAssumption DEF Ids
  <2> QED BY <1>0, <1>2, <2>1 DEF ClientType
<1>5. \A i \in 1..(L - 1) : i + 1 \in 1..L /\ T[i] \in Ids /\ T[i] <= n /\ id < T[i]
  <2> SUFFICES ASSUME NEW i \in 1..(L - 1)
               PROVE  i + 1 \in 1..L /\ T[i] \in Ids /\ T[i] <= n /\ id < T[i]
    OBVIOUS
  <2>1. i + 1 \in 1..L /\ 1 \in 1..L /\ 1 < i + 1
    BY <1>0
  <2> QED BY <1>1, <1>2, <2>1 DEF Connected, Shaped, Ordered, NoHole, Comes, Held, Follows
<1>6. \A i \in 1..L : i = 1 \/ (i - 1 \in 1..(L - 1) /\ T[i - 1] = k.channel[i])
  BY <1>0, <1>1
<1>7. d = (IF skip \/ id < k.delivered THEN k.delivered ELSE id)
  OBVIOUS
<1> HIDE DEF L, T, d, k2, cl2
<1>n. /\ n \in Nat /\ L \in Nat /\ id \in Nat /\ cl.seen \in Nat /\ k.delivered \in Nat
      /\ \A j \in Ids : j \in Nat
      /\ \A i \in 1..L : k.channel[i] \in Nat
      /\ \A i \in 1..(L - 1) : T[i] \in Nat
      /\ cl.seen <= n /\ id <= n /\ k.delivered <= n
  <2>1. cl.seen \in 0..n /\ k.delivered \in 0..n /\ id \in Ids
    BY <1>0, <1>2
  <2>2. Ids \subseteq Nat /\ L \in Nat /\ n \in Nat
    BY <1>0
  <2>3. cl.seen \in Nat /\ k.delivered \in Nat /\ cl.seen <= n /\ k.delivered <= n
    BY <2>1, <2>2
  <2>4. id \in Nat /\ \A j \in Ids : j \in Nat
    BY <2>1, <2>2
  <2>5. (\A i \in 1..L : k.channel[i] \in Nat) /\ \A i \in 1..(L - 1) : T[i] \in Nat
    BY <1>2, <1>5, <2>2
  <2>6. id <= n
    BY <1>2
  <2> QED BY <2>2, <2>3, <2>4, <2>5, <2>6
<1>8. /\ \A i \in 1..(L - 1) : k2.channel[i] <= n
      /\ \A i, j \in 1..(L - 1) : i < j => k2.channel[i] < k2.channel[j]
      /\ Len(k2.channel) = L - 1 /\ L - 1 <= QueueCap
  <2>1. \A i, j \in 1..(L - 1) : i < j => T[i] < T[j]
    <3> SUFFICES ASSUME NEW i \in 1..(L - 1), NEW j \in 1..(L - 1), i < j PROVE T[i] < T[j]
      OBVIOUS
    <3>1. i + 1 \in 1..L /\ j + 1 \in 1..L /\ i + 1 < j + 1
      BY <1>0
    <3> QED BY <1>1, <3>1 DEF Connected, Shaped, Ordered, NoHole, Comes, Held, Follows, L
  <2> QED BY <1>0, <1>1, <1>3, <1>5, <2>1
<1>9. ASSUME skip PROVE Connected(k2, cl2, n)
  <2>1. id <= cl.seen /\ cl.seen = k.delivered /\ k.replay
    BY <1>9 DEF Connected, Shaped, Ordered, NoHole, Comes, Held, Follows
  <2>2. cl2 = cl /\ d = k.delivered
    BY <1>4, <1>7, <1>9
  <2>3. ASSUME NEW j \in Ids, cl.seen < j,
               (k.open /\ j <= n) \/ \E i \in 1..(L - 1) : j <= T[i]
        PROVE  j \in cl.got \cup cl.lost \/ \E i \in 1..(L - 1) : T[i] = j
    <3>1. (k.open /\ j <= n) \/ \E i \in 1..L : j <= k.channel[i]
      BY <1>1, <1>5, <2>3
    <3>2. j \in cl.got \cup cl.lost \/ \E i \in 1..L : k.channel[i] = j
      BY <2>3, <3>1 DEF Connected, Shaped, Ordered, NoHole, Comes, Held, Follows, L
    <3>3. j # id
      BY <1>0, <1>2, <2>1, <2>3
    <3> QED BY <1>1, <1>6, <3>2, <3>3
  <2>4. /\ \A j \in Ids : cl.from < j /\ j <= cl.seen => j \in cl.got \cup cl.lost
        /\ cl.seen <= n
    BY DEF Connected, Shaped, Ordered, NoHole, Comes, Held, Follows
  <2>5. /\ k2.at = "live" /\ k2.channel = T /\ (k2.open <=> k.open) /\ k2.replay
        /\ k2.delivered = cl2.seen /\ k2.delivered <= n
    BY <1>3, <1>n, <2>1, <2>2
  <2>6. Shaped(k2, cl2, n) /\ Ordered(k2) /\ NoHole(cl2)
    BY <1>3, <1>4, <1>8, <2>2, <2>4, <2>5 DEF Shaped, Ordered, NoHole
  <2>7. Held(k2, cl2, n)
    BY <1>1, <2>2, <2>3, <2>5 DEF Held, Comes
  <2>8. Follows(k2, cl2)
    BY <2>5 DEF Follows
  <2> QED BY <2>6, <2>7, <2>8 DEF Connected
<1>10. ASSUME ~skip PROVE Connected(k2, cl2, n)
  <2>1. cl.seen < id
    <3>1. CASE k.replay
      <4>1. cl.seen = k.delivered
        BY <3>1 DEF Connected, Shaped, Ordered, NoHole, Comes, Held, Follows
      <4> QED BY <1>0, <1>2, <1>10, <3>1, <4>1
    <3>2. CASE ~k.replay
      <4>1. 1 \in 1..L
        BY <1>0
      <4> QED BY <1>1, <3>2, <4>1 DEF Connected, Shaped, Ordered, NoHole, Comes, Held, Follows, L
    <3> QED BY <3>1, <3>2
  <2>2. cl2.seen = id /\ cl2.got = cl.got \cup {id} /\ cl2.lost = cl.lost
    BY <1>4, <1>10
  <2>3. k.replay => d = id
    <3>1. k.replay => cl.seen = k.delivered
      BY DEF Connected, Shaped, Ordered, NoHole, Comes, Held, Follows
    <3> QED BY <1>0, <1>2, <1>7, <1>10, <2>1, <3>1
  <2>4. ASSUME NEW j \in Ids, cl.from < j, j <= id
        PROVE  j \in cl2.got \cup cl2.lost
    <3>1. CASE j <= cl.seen
      BY <2>2, <2>4, <3>1 DEF Connected, Shaped, Ordered, NoHole, Comes, Held, Follows
    <3>2. CASE j = id
      BY <2>2, <3>2
    <3>3. CASE cl.seen < j /\ j < id
      <4>1. 1 \in 1..L /\ j <= k.channel[1]
        BY <1>0, <1>1, <2>4
      <4>2. j \in cl.got \cup cl.lost \/ \E i \in 1..L : k.channel[i] = j
        BY <3>3, <4>1 DEF Connected, Shaped, Ordered, NoHole, Comes, Held, Follows, L
      <4>3. \A i \in 1..L : k.channel[i] # j
        <5> SUFFICES ASSUME NEW i \in 1..L PROVE k.channel[i] # j
          OBVIOUS
        <5>1. CASE i = 1
          BY <1>n, <1>1, <3>3, <5>1
        <5>2. CASE i - 1 \in 1..(L - 1) /\ T[i - 1] = k.channel[i]
          BY <1>n, <1>5, <3>3, <5>2
        <5> QED BY <1>6, <5>1, <5>2
      <4> QED BY <2>2, <4>2, <4>3
    <3> QED BY <1>0, <1>2, <2>4, <3>1, <3>2, <3>3
  <2>5. ASSUME NEW j \in Ids, id < j,
               (k.open /\ j <= n) \/ \E i \in 1..(L - 1) : j <= T[i]
        PROVE  j \in cl2.got \cup cl2.lost \/ \E i \in 1..(L - 1) : T[i] = j
    <3>1. (k.open /\ j <= n) \/ \E i \in 1..L : j <= k.channel[i]
      BY <1>1, <1>5, <2>5
    <3>2. cl.seen < j /\ j # id
      BY <1>0, <1>2, <2>1, <2>5
    <3>3. j \in cl.got \cup cl.lost \/ \E i \in 1..L : k.channel[i] = j
      BY <3>1, <3>2 DEF Connected, Shaped, Ordered, NoHole, Comes, Held, Follows, L
    <3> QED BY <1>1, <1>6, <2>2, <3>2, <3>3
  <2>6. d <= n
    BY <1>n, <1>7
  <2>7. /\ k2.at = "live" /\ k2.channel = T /\ (k2.open <=> k.open)
        /\ (k2.replay <=> k.replay) /\ k2.delivered <= n /\ cl2.seen <= n
        /\ (k2.replay => k2.delivered = cl2.seen)
        /\ \A i \in 1..(L - 1) : cl2.seen < k2.channel[i]
    BY <1>3, <1>n, <1>5, <2>2, <2>3, <2>6
  <2>8. \A j \in Ids : cl2.from < j /\ j <= cl2.seen => j \in cl2.got \cup cl2.lost
    BY <1>4, <2>2, <2>4
  <2>9. \A j \in Ids : cl2.seen < j
           /\ ((k2.open /\ j <= n) \/ \E i \in 1..(L - 1) : j <= k2.channel[i])
           => j \in cl2.got \cup cl2.lost \/ \E i \in 1..(L - 1) : k2.channel[i] = j
    BY <2>2, <2>5, <2>7
  <2>10. Shaped(k2, cl2, n) /\ Ordered(k2) /\ NoHole(cl2)
    BY <1>3, <1>4, <1>8, <2>7, <2>8 DEF Shaped, Ordered, NoHole
  <2>11. Held(k2, cl2, n)
    BY <1>8, <2>9 DEF Held, Comes
  <2>12. Follows(k2, cl2)
    BY <1>8, <2>7 DEF Follows
  <2> QED BY <2>10, <2>11, <2>12 DEF Connected
<1>11. Connected(k2, cl2, n)
  <2>1. skip \/ ~skip
    OBVIOUS
  <2> QED BY <1>9, <1>10, <2>1
<1> QED BY <1>11 DEF k2, cl2, d, T

(* The inductive invariant of EventsSafe.                                  *)
JournalOK ==
    /\ journal \subseteq 1..lastEvent /\ lastEvent \in 0..MaxEvents
    /\ eventsStopping \in BOOLEAN /\ eventsClosed \in BOOLEAN
    /\ repoOpen \in BOOLEAN /\ publishing \in BOOLEAN
    /\ publishing => lastEvent < MaxEvents
ConnectionsOK ==
    /\ conn \in [EventClients -> ConnType] /\ client \in [EventClients -> ClientType]
    /\ \A c \in EventClients : Connected(conn[c], client[c], lastEvent)
EventsInv == JournalOK /\ ConnectionsOK

LEMMA OneConnectionChanges ==
  ASSUME ConnectionsOK, UNCHANGED lastEvent, NEW c \in EventClients, NEW k, NEW cl,
         Connected(k, cl, lastEvent),
         conn' = [conn EXCEPT ![c] = k], client' = [client EXCEPT ![c] = cl]
  PROVE  ConnectionsOK'
<1>1. k \in ConnType /\ cl \in ClientType
  BY DEF Connected, Shaped, Ordered, NoHole, Comes, Held, Follows
<1>2. /\ conn' \in [EventClients -> ConnType] /\ client' \in [EventClients -> ClientType]
      /\ conn'[c] = k /\ client'[c] = cl
      /\ \A b \in EventClients \ {c} : conn'[b] = conn[b] /\ client'[b] = client[b]
  BY <1>1 DEF ConnectionsOK
<1>3. ASSUME NEW b \in EventClients PROVE Connected(conn'[b], client'[b], lastEvent)
  BY <1>2 DEF ConnectionsOK
<1>4. ASSUME NEW b \in EventClients PROVE Connected(conn'[b], client'[b], lastEvent')
  BY <1>3
<1> QED BY <1>2, <1>4 DEF ConnectionsOK, Connected, Shaped, Ordered, NoHole, Comes, Held, Follows, ConnType, ClientType, Ids

LEMMA EventsInvInit == EventsInit => EventsInv
<1> SUFFICES ASSUME EventsInit PROVE EventsInv
  OBVIOUS
<1>1. JournalOK
  <2>1. lastEvent \in 0..(MaxEvents - 1) /\ MaxEvents \in Nat /\ journal = 1..lastEvent
    BY EventsAssumption DEF EventsInit
  <2>2. lastEvent \in 0..MaxEvents
    BY <2>1
  <2> QED BY <2>1, <2>2 DEF EventsInit, JournalOK
<1>2. /\ NoConn \in ConnType /\ NoConn.at = "none" /\ NoConn.delivered = 0
      /\ Len(NoConn.channel) = 0
  BY EventsAssumption DEF NoConn, ConnType
<1>3. ASSUME NEW s \in 0..lastEvent, NEW cl,
             cl = [seen |-> s, from |-> s, got |-> {}, lost |-> {}, connects |-> 0]
      PROVE  cl \in ClientType /\ Connected(NoConn, cl, lastEvent)
  <2>1. cl \in ClientType /\ cl.seen = s /\ cl.from = s
    BY <1>1, <1>3, EventsAssumption DEF ClientType, JournalOK
  <2>2. s <= lastEvent /\ s \in Nat /\ lastEvent \in Nat /\ Ids \subseteq Nat
    BY <1>1 DEF JournalOK, Ids
  <2> QED BY <1>1, <1>2, <2>1, <2>2, EventsAssumption DEF Connected, Shaped, Ordered, NoHole, Comes, Held, Follows, JournalOK
<1> DEFINE Fresh == {[seen |-> s, from |-> s, got |-> {}, lost |-> {}, connects |-> 0] :
                     s \in 0..lastEvent}
<1>4. \A cl \in Fresh : cl \in ClientType /\ Connected(NoConn, cl, lastEvent)
  BY <1>3
<1>5. client \in [EventClients -> Fresh] /\ conn = [c \in EventClients |-> NoConn]
  BY DEF EventsInit
<1> HIDE DEF Fresh
<1>6. ConnectionsOK
  BY <1>2, <1>4, <1>5 DEF ConnectionsOK
<1> QED BY <1>1, <1>6 DEF EventsInv

LEMMA EventsInvStep == EventsInv /\ [EventsNext]_eventsVars => EventsInv'
<1> SUFFICES ASSUME EventsInv, [EventsNext]_eventsVars PROVE EventsInv'
  OBVIOUS
<1>0. JournalOK /\ ConnectionsOK
  BY DEF EventsInv
<1>1. lastEvent \in 0..MaxEvents /\ MaxEvents \in Nat /\ lastEvent \in Nat
  BY <1>0, EventsAssumption DEF JournalOK
<1>c. ASSUME NEW c \in EventClients
      PROVE  /\ Connected(conn[c], client[c], lastEvent)
             /\ conn[c] \in ConnType /\ client[c] \in ClientType
  BY <1>0 DEF ConnectionsOK
<1>2. ASSUME UNCHANGED <<conn, client, lastEvent>> PROVE ConnectionsOK'
  BY <1>0, <1>2 DEF ConnectionsOK, Connected, Shaped, Ordered, NoHole, Comes, Held, Follows, ConnType, ClientType, Ids
<1>3. ASSUME UNCHANGED <<journal, lastEvent, eventsStopping, eventsClosed, repoOpen, publishing>>
      PROVE  JournalOK'
  BY <1>0, <1>3 DEF JournalOK
<1>4. CASE PublishStarts
  BY <1>0, <1>2, <1>4 DEF PublishStarts, JournalOK, EventsInv
<1>5. CASE Publish
  <2>1. CASE UNCHANGED <<journal, lastEvent, conn>>
    BY <1>0, <1>2, <1>5, <2>1 DEF Publish, JournalOK, EventsInv
  <2>2. CASE /\ lastEvent' = lastEvent + 1
             /\ journal' = journal \cup {lastEvent + 1}
             /\ conn' = [c \in EventClients |-> FannedOut(conn[c], lastEvent + 1)]
    <3>1. lastEvent < MaxEvents
      BY <1>0, <1>5 DEF Publish, JournalOK
    <3>2. JournalOK'
      <4>1. lastEvent + 1 \in 1..(lastEvent + 1) /\ 1..lastEvent \subseteq 1..(lastEvent + 1)
        BY <1>1
      <4>2. journal' \subseteq 1..lastEvent' /\ lastEvent' \in 0..MaxEvents
        BY <1>0, <1>1, <2>2, <3>1, <4>1 DEF JournalOK
      <4> QED BY <1>0, <1>5, <4>2 DEF JournalOK, Publish
    <3>3. ASSUME NEW c \in EventClients
          PROVE  Connected(FannedOut(conn[c], lastEvent + 1), client[c], lastEvent + 1)
      BY <1>1, <1>c, <3>1, FanOutKeepsConnected
    <3>4. ASSUME NEW c \in EventClients
          PROVE  /\ Connected(conn'[c], client'[c], lastEvent')
                 /\ conn'[c] \in ConnType /\ client'[c] \in ClientType
      <4>1. Connected(conn'[c], client'[c], lastEvent')
        BY <1>5, <2>2, <3>3 DEF Publish
      <4> QED BY <4>1 DEF Connected, Shaped, Ordered, NoHole, Comes, Held, Follows
    <3>5. ConnectionsOK'
      <4>1. client' = client
        BY <1>5 DEF Publish
      <4> QED BY <1>0, <2>2, <3>4, <4>1 DEF ConnectionsOK, Connected, Shaped, Ordered, NoHole, Comes, Held, Follows, ConnType, ClientType, Ids
    <3> QED BY <3>2, <3>5 DEF EventsInv
  <2> QED BY <1>5, <2>1, <2>2 DEF Publish
<1>6. CASE PruneEvents
  <2>1. journal' \subseteq journal
    <3>1. PICK n \in 1..lastEvent :
             journal' = {id \in journal : id > n} \cup
                        {id \in journal : Cardinality({j \in journal : j > id}) < KeepEvents}
      BY <1>6 DEF PruneEvents
    <3> QED BY <3>1
  <2>2. UNCHANGED <<lastEvent, eventsStopping, eventsClosed, repoOpen, publishing, conn, client>>
    BY <1>6 DEF PruneEvents
  <2> QED BY <1>0, <1>2, <2>1, <2>2 DEF JournalOK, EventsInv
<1>7. ASSUME NEW c \in EventClients, NEW resume \in BOOLEAN, Connect(c, resume)
      PROVE  EventsInv'
  <2> DEFINE k2 == NewConnection(client[c], resume, ~eventsClosed)
             cl2 == ConnectedClient(client[c], resume, lastEvent)
  <2>1. conn' = [conn EXCEPT ![c] = k2] /\ client' = [client EXCEPT ![c] = cl2]
    BY <1>0, <1>7 DEF Connect, ConnectionsOK, NewConnection, ConnectedClient
  <2>2. /\ client[c].connects < MaxConnects
        /\ UNCHANGED <<journal, lastEvent, eventsStopping, eventsClosed, repoOpen, publishing>>
    BY <1>7 DEF Connect
  <2>3. Connected(k2, cl2, lastEvent)
    <3>1. PICK open \in BOOLEAN : open = ~eventsClosed
      BY <1>0 DEF JournalOK
    <3> QED BY <1>1, <1>c, <2>2, <3>1, ConnectIsConnected
  <2> HIDE DEF k2, cl2
  <2> QED BY <1>0, <1>3, <2>1, <2>2, <2>3, OneConnectionChanges DEF EventsInv
<1>8. ASSUME NEW c \in EventClients, Replay(c) PROVE EventsInv'
  <2> DEFINE after == conn[c].delivered
             last(rows) == Max({after} \cup rows)
             coming(rows) == rows \cup {id \in Range(conn[c].channel) : id > last(rows)}
             horizon(rows) == IF conn[c].open THEN lastEvent ELSE Max({after} \cup coming(rows))
             k2(rows) == [conn[c] EXCEPT !.at = "live", !.delivered = last(rows)]
             cl2(rows) == [client[c] EXCEPT !.got = @ \cup rows, !.seen = last(rows),
                             !.lost = @ \cup ((after + 1)..horizon(rows) \ coming(rows))]
  <2>1. PICK rows \in {ListEvents(after), {}} :
          /\ conn' = [conn EXCEPT ![c].at = "live", ![c].delivered = last(rows)]
          /\ client' = [client EXCEPT ![c].got = @ \cup rows, ![c].seen = last(rows),
                          ![c].lost = @ \cup ((after + 1)..horizon(rows) \ coming(rows))]
    BY <1>8 DEF Replay
  <2>2. conn' = [conn EXCEPT ![c] = k2(rows)] /\ client' = [client EXCEPT ![c] = cl2(rows)]
    BY <1>0, <2>1 DEF ConnectionsOK
  <2>3. /\ conn[c].at = "replaying"
        /\ UNCHANGED <<journal, lastEvent, eventsStopping, eventsClosed, repoOpen, publishing>>
    BY <1>8 DEF Replay
  <2>4. rows \in SUBSET (1..lastEvent)
    BY <1>0, <2>1 DEF ListEvents, JournalOK
  <2>5. Connected(k2(rows), cl2(rows), lastEvent)
    BY <1>1, <1>c, <2>3, <2>4, ReplayKeepsConnected
  <2> HIDE DEF k2, cl2
  <2> QED BY <1>0, <1>3, <2>2, <2>3, <2>5, OneConnectionChanges DEF EventsInv
<1>9. ASSUME NEW c \in EventClients, Deliver(c) PROVE EventsInv'
  <2> DEFINE id == Head(conn[c].channel)
  <2>1. PICK skip \in BOOLEAN : skip <=> conn[c].replay /\ id <= conn[c].delivered
    OBVIOUS
  <2> DEFINE k2 == [conn[c] EXCEPT !.channel = Tail(@),
                       !.delivered = IF skip \/ id < @ THEN @ ELSE id]
             cl2 == IF skip THEN client[c]
                    ELSE [client[c] EXCEPT !.got = @ \cup {id}, !.seen = id]
  <2>2. conn' = [conn EXCEPT ![c] = k2] /\ client' = [client EXCEPT ![c] = cl2]
    <3>1. conn' = [conn EXCEPT ![c].channel = Tail(@),
                      ![c].delivered = IF skip \/ id < @ THEN @ ELSE id]
      BY <1>9, <2>1 DEF Deliver
    <3>2. client' = IF skip THEN client
                    ELSE [client EXCEPT ![c].got = @ \cup {id}, ![c].seen = id]
      BY <1>9, <2>1 DEF Deliver
    <3> HIDE DEF id
    <3> QED BY <1>0, <3>1, <3>2 DEF ConnectionsOK
  <2>3. /\ conn[c].at = "live" /\ conn[c].channel # <<>>
        /\ UNCHANGED <<journal, lastEvent, eventsStopping, eventsClosed, repoOpen, publishing>>
    BY <1>9 DEF Deliver
  <2>4. Connected(k2, cl2, lastEvent)
    BY <1>1, <1>c, <2>1, <2>3, DeliverKeepsConnected
  <2> HIDE DEF k2, cl2
  <2> QED BY <1>0, <1>3, <2>2, <2>3, <2>4, OneConnectionChanges DEF EventsInv
<1>10. ASSUME NEW c \in EventClients, StreamEnds(c) \/ HangUp(c) PROVE EventsInv'
  <2>1. /\ conn' = [conn EXCEPT ![c] = NoConn] /\ client' = client
        /\ UNCHANGED <<journal, lastEvent, eventsStopping, eventsClosed, repoOpen, publishing>>
    BY <1>10 DEF StreamEnds, HangUp
  <2>2. client' = [client EXCEPT ![c] = client[c]]
    BY <1>0, <2>1 DEF ConnectionsOK
  <2>3. Connected(NoConn, client[c], lastEvent)
    BY <1>1, <1>c, NoConnIsConnected
  <2> QED BY <1>0, <1>3, <2>1, <2>2, <2>3, OneConnectionChanges DEF EventsInv
<1>11. CASE CloseEventStreams
  <2>1. /\ conn' = [c \in EventClients |-> [conn[c] EXCEPT !.open = FALSE]] /\ eventsClosed' = TRUE
        /\ UNCHANGED <<journal, lastEvent, eventsStopping, repoOpen, publishing, client>>
    BY <1>11 DEF CloseEventStreams
  <2>2. ASSUME NEW c \in EventClients
        PROVE  Connected([conn[c] EXCEPT !.open = FALSE], client[c], lastEvent)
    BY <1>1, <1>c, ClosingKeepsConnected
  <2>3. ASSUME NEW c \in EventClients
        PROVE  /\ Connected(conn'[c], client'[c], lastEvent')
               /\ conn'[c] \in ConnType /\ client'[c] \in ClientType
    <3>1. Connected(conn'[c], client'[c], lastEvent')
      BY <2>1, <2>2
    <3> QED BY <3>1 DEF Connected, Shaped, Ordered, NoHole, Comes, Held, Follows
  <2>4. ConnectionsOK'
    BY <1>0, <2>1, <2>3 DEF ConnectionsOK, Connected, Shaped, Ordered, NoHole, Comes, Held, Follows, ConnType, ClientType, Ids
  <2> QED BY <1>0, <2>1, <2>4 DEF JournalOK, EventsInv
<1>12. CASE EventsStop
  BY <1>0, <1>2, <1>12 DEF EventsStop, JournalOK, EventsInv
<1>13. CASE UNCHANGED eventsVars
  BY <1>2, <1>3, <1>13 DEF eventsVars, EventsInv
<1> QED
  BY <1>4, <1>5, <1>6, <1>7, <1>8, <1>9, <1>10, <1>11, <1>12, <1>13 DEF EventsNext, Handler

LEMMA EventsInvSafe == EventsInv => EventsSafe
<1> SUFFICES ASSUME EventsInv PROVE EventsSafe
  OBVIOUS
<1>1. JournalOK /\ ConnectionsOK
  BY DEF EventsInv
<1>2. EventsTypeOK
  BY <1>1 DEF JournalOK, ConnectionsOK, Connected, Shaped, EventsTypeOK
<1>3. ASSUME NEW c \in EventClients, NEW j \in (client[c].from + 1)..client[c].seen
      PROVE  j \in client[c].got \cup client[c].lost
  <2>1. Connected(conn[c], client[c], lastEvent)
    BY <1>1 DEF ConnectionsOK
  <2>2. client[c].from \in 0..MaxEvents /\ client[c].seen \in 0..MaxEvents
    BY <2>1 DEF Connected, Shaped, Ordered, NoHole, Comes, Held, Follows, ClientType
  <2>3. j \in Ids /\ client[c].from < j /\ j <= client[c].seen
    BY <1>3, <2>2, EventsAssumption DEF Ids
  <2> QED BY <2>1, <2>3 DEF Connected, Shaped, Ordered, NoHole, Comes, Held, Follows
<1> QED BY <1>2, <1>3 DEF EventsSafe, NoSilentGap

(* EventsSafe, for any clients, queue, replay limit and number of events:  *)
(* what a client has seen leaves no hole that it was not told of.          *)
THEOREM EventsTheorem == EventsInit /\ [][EventsNext]_eventsVars => []EventsSafe
<1>1. EventsInit /\ [][EventsNext]_eventsVars => []EventsInv
  BY EventsInvInit, EventsInvStep, PTL
<1> QED BY <1>1, EventsInvSafe, PTL

-----------------------------------------------------------------------------
(* Families.                                                               *)

(* What is announced has been committed, and only the last change may be   *)
(* unannounced.                                                            *)
AnnouncedIsCommitted == announced <= catalog

(* The flight in its last step has read what was announced, or knows that  *)
(* it has not.                                                             *)
FlightIsCurrent ==
    /\ familyFlight.gen <= familyGen
    /\ familyFlight.at = "store" =>
         /\ familyFlight.built \in Versions
         /\ familyFlight.gen = familyGen => familyFlight.built >= announced

(* Nobody waits for more than was announced.                               *)
WaitersAreBounded ==
    \A c \in FamilyCallers : caller[c].at = "waiting" => caller[c].since <= announced

FamiliesInv ==
    FamiliesSafe /\ AnnouncedIsCommitted /\ FlightIsCurrent /\ WaitersAreBounded


(* Versions are integers, and so is the mark for no tiles.                 *)
LEMMA VersionsAreIntegers ==
    /\ Versions \subseteq Nat /\ NoTiles \in Int /\ 0 \in Versions
    /\ \A v \in Versions : v < MaxCatalog => v + 1 \in Versions
  BY FamiliesAssumption DEF Versions, NoTiles

(* So are the versions that a caller remembers.                            *)
LEMMA CallersRemember ==
  ASSUME NEW s \in CallerState
  PROVE  s.since \in Int /\ s.items \in Int
<1>1. s.since \in Versions \cup {NoTiles} /\ s.items \in Versions \cup {NoTiles}
  BY DEF CallerState
<1>2. Versions \cup {NoTiles} \subseteq Int
  BY VersionsAreIntegers
<1> QED BY <1>1, <1>2

(* Starting a flight keeps what is known of flights.                       *)
LEMMA StartedKeeps ==
  ASSUME FamiliesTypeOK, FlightIsCurrent
  PROVE  /\ Started \in [at: {"none", "begin", "build", "store", "fail"},
                         gen: Nat, built: Versions \cup {NoTiles}]
         /\ Started.gen <= familyGen
         /\ Started.at = "store" => Started = familyFlight
  BY VersionsAreIntegers DEF FamiliesTypeOK, FlightIsCurrent, Started, NoFlight

LEMMA InitHolds == FamiliesInit => FamiliesInv
<1> SUFFICES ASSUME FamiliesInit PROVE FamiliesInv
  OBVIOUS
<1>1. Idle \in CallerState
  BY DEF CallerState, Idle
<1>3. catalog \in Versions /\ announced \in Versions /\ familyGen \in Nat
  BY VersionsAreIntegers DEF FamiliesInit
<1>4. families \in [items: Versions \cup {NoTiles}, fresh: BOOLEAN]
  BY DEF FamiliesInit
<1>5. familyFlight \in [at: {"none", "begin", "build", "store", "fail"},
                        gen: Nat, built: Versions \cup {NoTiles}]
  BY DEF FamiliesInit, NoFlight
<1>6. buildErrors \in 0..MaxBuildErrors
  BY FamiliesAssumption DEF FamiliesInit
<1>7. caller \in [FamilyCallers -> CallerState]
  BY <1>1 DEF FamiliesInit
<1>8. unannounced \in BOOLEAN /\ famStopping \in BOOLEAN
  BY DEF FamiliesInit
<1>2. FreshIsCurrent /\ AnnouncedIsCommitted /\ FlightIsCurrent /\ WaitersAreBounded
  BY DEF FamiliesInit, FreshIsCurrent, AnnouncedIsCommitted, FlightIsCurrent,
         WaitersAreBounded, NoFlight, Idle
<1> QED BY <1>2, <1>3, <1>4, <1>5, <1>6, <1>7, <1>8 DEF FamiliesInv, FamiliesSafe, FamiliesTypeOK

(* A step that leaves the catalog, the announcements and the tiles alone,  *)
(* and gives callers nothing new.                                          *)
LEMMA CallersKeep ==
  ASSUME FamiliesInv, UNCHANGED <<announced, families>>, NEW c \in FamilyCallers, NEW r,
         caller' = [caller EXCEPT ![c] = r], r.at \notin {"given"},
         r.at = "waiting" => r.since <= announced,
         r \in CallerState
  PROVE  /\ FreshIsCurrent' /\ WaitersAreBounded'
         /\ caller' \in [FamilyCallers -> CallerState]
  BY DEF FamiliesInv, FamiliesSafe, FamiliesTypeOK, FreshIsCurrent, WaitersAreBounded

(* The waiters get what a flight has built, which is not older than what   *)
(* was announced, or nothing.                                              *)
LEMMA WaitersKeep ==
  ASSUME FamiliesInv, UNCHANGED announced, NEW status \in {"given", "failed"},
         NEW items \in Versions \cup {NoTiles}, caller' = WaitersGet(status, items),
         status = "given" => items >= announced,
         families'.fresh => families'.items >= announced
  PROVE  /\ FreshIsCurrent' /\ WaitersAreBounded'
         /\ caller' \in [FamilyCallers -> CallerState]
<1>1. caller' \in [FamilyCallers -> CallerState]
  BY DEF FamiliesInv, FamiliesSafe, FamiliesTypeOK, CallerState, WaitersGet
<1>2. \A c \in FamilyCallers :
         /\ caller[c].at = "waiting" => /\ caller'[c].at = status
                                        /\ caller'[c].items = items
                                        /\ caller'[c].since = caller[c].since
         /\ caller[c].at # "waiting" => caller'[c] = caller[c]
  BY DEF FamiliesInv, FamiliesSafe, FamiliesTypeOK, CallerState, WaitersGet
<1>3. WaitersAreBounded'
  BY <1>1, <1>2 DEF WaitersAreBounded
<1>4. \A c \in FamilyCallers : caller'[c].at = "given" => caller'[c].items >= caller'[c].since
  <2>1. \A c \in FamilyCallers : caller[c] \in CallerState
    BY DEF FamiliesInv, FamiliesSafe, FamiliesTypeOK
  <2>2. items \in Int /\ announced \in Int
    BY VersionsAreIntegers DEF FamiliesInv, FamiliesSafe, FamiliesTypeOK
  <2>3. \A c \in FamilyCallers : caller[c].since \in Int /\ caller[c].items \in Int
    BY <2>1, CallersRemember
  <2> QED BY <1>2, <2>2, <2>3 DEF FamiliesInv, FamiliesSafe, FreshIsCurrent, WaitersAreBounded
<1> QED BY <1>1, <1>3, <1>4 DEF FreshIsCurrent

LEMMA NextHolds == FamiliesInv /\ [FamiliesNext]_familiesVars => FamiliesInv'
<1> SUFFICES ASSUME FamiliesInv, [FamiliesNext]_familiesVars PROVE FamiliesInv'
  OBVIOUS
<1> USE DEF FamiliesInv, FamiliesSafe
<1>1. CASE CatalogChanges
  <2>1. FamiliesTypeOK'
    BY <1>1, VersionsAreIntegers DEF CatalogChanges, FamiliesTypeOK
  <2>2. AnnouncedIsCommitted'
    BY <1>1, VersionsAreIntegers DEF CatalogChanges, FamiliesTypeOK, AnnouncedIsCommitted
  <2> QED BY <1>1, <2>1, <2>2
    DEF CatalogChanges, FreshIsCurrent, FlightIsCurrent, WaitersAreBounded
<1>2. CASE RefreshFamilies
  <2>6. familyFlight' \in [at: {"none", "begin", "build", "store", "fail"},
                          gen: Nat, built: Versions \cup {NoTiles}]
    BY <1>2, StartedKeeps DEF RefreshFamilies
  <2>7. familyGen' \in Nat
    BY <1>2 DEF RefreshFamilies, FamiliesTypeOK
  <2>8. families' \in [items: Versions \cup {NoTiles}, fresh: BOOLEAN]
    <3> DEFINE I == Versions \cup {NoTiles}
    <3>1. families \in [items: I, fresh: BOOLEAN]
      BY DEF FamiliesTypeOK
    <3>2. families' = [families EXCEPT !.fresh = FALSE]
      BY <1>2 DEF RefreshFamilies
    <3> HIDE DEF I
    <3>3. families' \in [items: I, fresh: BOOLEAN]
      BY <3>1, <3>2
    <3> QED BY <3>3 DEF I
  <2>1. FamiliesTypeOK'
    BY <1>2, <2>6, <2>7, <2>8 DEF RefreshFamilies, FamiliesTypeOK
  <2>2. AnnouncedIsCommitted'
    BY <1>2, VersionsAreIntegers DEF RefreshFamilies, FamiliesTypeOK, AnnouncedIsCommitted
  <2>3. FlightIsCurrent'
    BY <1>2, StartedKeeps DEF RefreshFamilies, FamiliesTypeOK, FlightIsCurrent
  <2>4. FreshIsCurrent'
    BY <1>2 DEF RefreshFamilies, FreshIsCurrent, FamiliesTypeOK
  <2>5. WaitersAreBounded'
    <3>1. announced <= announced' /\ announced \in Nat /\ announced' \in Nat
      BY <1>2, VersionsAreIntegers DEF RefreshFamilies, AnnouncedIsCommitted, FamiliesTypeOK
    <3>2. \A c \in FamilyCallers : caller[c] \in CallerState
      BY DEF FamiliesTypeOK
    <3>3. \A c \in FamilyCallers : caller[c].since \in Int
      BY <3>2, CallersRemember
    <3> QED BY <1>2, <3>1, <3>3 DEF RefreshFamilies, WaitersAreBounded
  <2> QED BY <2>1, <2>2, <2>3, <2>4, <2>5
<1>3. CASE WarmFamilies
  BY <1>3, StartedKeeps
  DEF WarmFamilies, FamiliesTypeOK, AnnouncedIsCommitted, FlightIsCurrent, FreshIsCurrent,
      WaitersAreBounded
<1>4. ASSUME NEW c \in FamilyCallers, CatalogFamilies(c) PROVE FamiliesInv'
  <2> DEFINE r == [at |-> IF families.items # NoTiles THEN "served"
                          ELSE IF familyFlight'.at = "none" THEN "failed" ELSE "waiting",
                   items |-> families.items, since |-> announced]
  <2>1. caller' = [caller EXCEPT ![c] = r] /\ UNCHANGED <<announced, families>>
    BY <1>4 DEF CatalogFamilies
  <2>2. r \in CallerState
    BY DEF FamiliesTypeOK, CallerState
  <2>3. r.at # "given" /\ (r.at = "waiting" => r.since <= announced)
    BY VersionsAreIntegers DEF FamiliesTypeOK
  <2> HIDE DEF r
  <2>4. FreshIsCurrent' /\ WaitersAreBounded' /\ caller' \in [FamilyCallers -> CallerState]
    BY <2>1, <2>2, <2>3, CallersKeep
  <2>5. FamiliesTypeOK'
    BY <1>4, <2>4, StartedKeeps DEF CatalogFamilies, FamiliesTypeOK
  <2>6. AnnouncedIsCommitted' /\ FlightIsCurrent'
    BY <1>4, StartedKeeps DEF CatalogFamilies, AnnouncedIsCommitted, FlightIsCurrent
  <2> QED BY <2>4, <2>5, <2>6
<1>5. ASSUME NEW c \in FamilyCallers, CallerLeaves(c) \/ CallerReturns(c) PROVE FamiliesInv'
  <2>1. Idle \in CallerState
    BY DEF Idle, CallerState
  <2>2. FreshIsCurrent' /\ WaitersAreBounded' /\ caller' \in [FamilyCallers -> CallerState]
    BY <1>5, <2>1, CallersKeep DEF CallerLeaves, CallerReturns, Idle
  <2> QED BY <1>5, <2>2
    DEF CallerLeaves, CallerReturns, FamiliesTypeOK, AnnouncedIsCommitted, FlightIsCurrent
<1>6. CASE FlightBegins
  BY <1>6 DEF FlightBegins, FamiliesTypeOK, AnnouncedIsCommitted, FlightIsCurrent,
              FreshIsCurrent, WaitersAreBounded
<1>7. CASE FlightBuilds
  <2>1. familyFlight' \in [at: {"none", "begin", "build", "store", "fail"},
                            gen: Nat, built: Versions \cup {NoTiles}]
    BY <1>7 DEF FlightBuilds, FamiliesTypeOK
  <2>3. buildErrors' \in 0..MaxBuildErrors
    BY <1>7, FamiliesAssumption DEF FlightBuilds, FamiliesTypeOK
  <2>4. FamiliesTypeOK'
    BY <1>7, <2>1, <2>3 DEF FlightBuilds, FamiliesTypeOK
  <2>2. FlightIsCurrent'
    BY <1>7, VersionsAreIntegers
    DEF FlightBuilds, FamiliesTypeOK, FlightIsCurrent, AnnouncedIsCommitted
  <2> QED BY <1>7, <2>2, <2>4
    DEF FlightBuilds, AnnouncedIsCommitted, FreshIsCurrent, WaitersAreBounded
<1>8. CASE FlightStores /\ familyGen # familyFlight.gen
  <2>1. /\ families' = [items |-> familyFlight.built, fresh |-> FALSE]
        /\ familyFlight' = [NoFlight EXCEPT !.at = "begin"]
        /\ familyFlight.built \in Versions
        /\ UNCHANGED <<catalog, unannounced, announced, familyGen, famStopping, buildErrors, caller>>
    BY <1>8 DEF FlightStores, FlightIsCurrent
  <2>2. FamiliesTypeOK'
    BY <2>1 DEF FamiliesTypeOK, NoFlight
  <2>3. FlightIsCurrent'
    BY <2>1 DEF FlightIsCurrent, NoFlight, FamiliesTypeOK
  <2> QED BY <2>1, <2>2, <2>3 DEF AnnouncedIsCommitted, FreshIsCurrent, WaitersAreBounded
<1>9. CASE FlightStores /\ familyGen = familyFlight.gen
  <2>1. familyFlight.built \in Versions /\ familyFlight.built >= announced
    BY <1>9 DEF FlightStores, FlightIsCurrent
  <2>2. /\ families' = [items |-> familyFlight.built, fresh |-> TRUE]
        /\ familyFlight' = NoFlight /\ caller' = WaitersGet("given", familyFlight.built)
    BY <1>9 DEF FlightStores
  <2>3. FreshIsCurrent' /\ WaitersAreBounded' /\ caller' \in [FamilyCallers -> CallerState]
    BY <1>9, <2>1, <2>2, WaitersKeep DEF FlightStores
  <2> QED BY <1>9, <2>1, <2>2, <2>3
    DEF FlightStores, FamiliesTypeOK, AnnouncedIsCommitted, FlightIsCurrent, NoFlight
<1>10. CASE FlightFails
  <2>1. FreshIsCurrent' /\ WaitersAreBounded' /\ caller' \in [FamilyCallers -> CallerState]
    BY <1>10, WaitersKeep DEF FlightFails, FreshIsCurrent
  <2> QED BY <1>10, <2>1
    DEF FlightFails, FamiliesTypeOK, AnnouncedIsCommitted, FlightIsCurrent, NoFlight
<1>11. CASE FamiliesAge \/ FamiliesStop
  BY <1>11 DEF FamiliesAge, FamiliesStop, FamiliesTypeOK, AnnouncedIsCommitted,
               FlightIsCurrent, FreshIsCurrent, WaitersAreBounded
<1>12. CASE UNCHANGED familiesVars
  BY <1>12 DEF familiesVars, FamiliesTypeOK, AnnouncedIsCommitted, FlightIsCurrent,
               FreshIsCurrent, WaitersAreBounded
<1> QED BY <1>1, <1>2, <1>3, <1>4, <1>5, <1>6, <1>7, <1>8, <1>9, <1>10, <1>11, <1>12
  DEF FamiliesNext, FlightStep

(* Tiles that count as fresh show every change that was announced, and who *)
(* waited is given nothing older than what was announced before: however   *)
(* synchronizations, requests and computations interleave and fail         *)
(* (families.go: runFamilyFlight).                                         *)
THEOREM FamiliesTheorem == FamiliesSpec => []FamiliesSafe
<1>1. FamiliesSpec => []FamiliesInv
  BY InitHolds, NextHolds, PTL DEF FamiliesSpec
<1>2. FamiliesInv => FamiliesSafe
  BY DEF FamiliesInv
<1> QED BY <1>1, <1>2, PTL

-----------------------------------------------------------------------------
(* The portal.                                                             *)

Asking == {"idle", "settings", "links", "status", "promotions", "probe", "deliver", "commit"}

(* A donor is shown no promotions, and creatives only in a live slot.      *)
Clean(s) ==
    /\ s.donor => ~s.promotionLive /\ ~s.promotions
    /\ s.promotions => s.adsEnabled /\ s.promotionLive

CycleState == [at : CycleAt, next : HubState, g : 0..MaxKeyChanges, key : Keys,
               hourly : BOOLEAN]

(* The keys and what is counted of their changes: a refresh moves the      *)
(* generation at most once for every change.                               *)
KeysOK ==
    /\ apiKey \in Keys /\ lastKey \in Keys /\ donorKey \in Keys
    /\ keyChanges \in 0..MaxKeyChanges /\ generation \in 0..MaxKeyChanges
    /\ generation <= keyChanges /\ (apiKey # lastKey => generation < keyChanges)

(* A candidate that is committed is clean, and one that creatives are      *)
(* asked for allows them.                                                  *)
CycleOK ==
    /\ cycle \in CycleState
    /\ cycle.at \in {"probe", "deliver"} => cycle.next.adsEnabled /\ ~cycle.next.donor
    /\ cycle.at = "commit" => Clean(cycle.next)

HubOK ==
    /\ hub \in HubState /\ Clean(hub)
    /\ clock \in Times /\ expiry \in Times
    /\ hubCtxDone \in BOOLEAN /\ operation \in OperationAt

(* An event that is stale has been overlapped, and what no event on its    *)
(* way will tell has been told or overlapped.                              *)
EmitsOK ==
    /\ told \in BOOLEAN /\ overlapped \in BOOLEAN /\ emits \in [Emitters -> EmitState]
    /\ \A e \in Emitters : emits[e] = "stale" => overlapped
    /\ told \/ overlapped \/ \E e \in Emitters : emits[e] = "fresh"

(* An emitter that is still at work has nothing on its way.                *)
Quiet ==
    /\ cycle.at \in Asking => emits["run"] = "none"
    /\ operation = "calling" => emits["operation"] = "none"

(* The inductive invariant of PortalSafe.                                  *)
PortalInv == KeysOK /\ CycleOK /\ HubOK /\ EmitsOK /\ Quiet

LEMMA PortalConstants == 0 \in 0..MaxKeyChanges /\ 0 \in Times /\ EmptyHub \in HubState
BY PortalAssumption DEF Times, EmptyHub, HubState

LEMMA HubParts ==
  ASSUME NEW s \in HubState
  PROVE  /\ NoDonor(s) \in HubState /\ NoPromotions(s) \in HubState
         /\ ~NoDonor(s).donor /\ NoDonor(s).promotions = s.promotions
         /\ NoDonor(s).promotionLive = s.promotionLive /\ NoDonor(s).adsEnabled = s.adsEnabled
         /\ NoDonor(s).accountsEnabled = s.accountsEnabled
         /\ ~NoPromotions(s).promotions /\ ~NoPromotions(s).promotionLive
         /\ NoPromotions(s).donor = s.donor /\ NoPromotions(s).adsEnabled = s.adsEnabled
         /\ s.promotions \in BOOLEAN /\ s.promotionLive \in BOOLEAN /\ s.donor \in BOOLEAN
         /\ s.adsEnabled \in BOOLEAN /\ s.accountsEnabled \in BOOLEAN /\ s.donorUntil \in Times
BY PortalConstants DEF NoDonor, NoPromotions, HubState

LEMMA AnswerSets ==
  ASSUME NEW at, NEW next \in HubState, NEW then \in CycleAt, Answer(at, next, then),
         cycle \in CycleState
  PROVE  /\ cycle' \in CycleState /\ cycle.at = at
         /\ cycle'.at = then /\ cycle'.next = next
BY DEF Answer, CycleState

LEMMA ReturnedIsIdle ==
  ASSUME cycle \in CycleState, donorKey' \in Keys, cycle' = Returned
  PROVE  cycle' \in CycleState /\ cycle'.at \in {"notice", "select"}
<1>1. PICK at \in {"notice", "select"} : at = IF cycle.hourly THEN "notice" ELSE "select"
  OBVIOUS
<1>2. cycle' = [cycle EXCEPT !.at = at, !.next = EmptyHub, !.g = 0, !.key = donorKey',
                             !.hourly = FALSE]
  BY <1>1 DEF Returned
<1>3. at \in CycleAt
  BY DEF CycleAt
<1> QED BY <1>2, <1>3, PortalConstants DEF CycleState

(* What one answer makes of the candidate.                                 *)
LEMMA AnswersKeepCycle ==
  ASSUME CycleOK, KeysOK, donorKey' = donorKey, Answers
  PROVE  CycleOK' /\ cycle.at \in Asking
<1> DEFINE s == cycle.next
<1>0. cycle \in CycleState /\ s \in HubState /\ apiKey \in Keys /\ donorKey' \in Keys
  BY DEF CycleOK, KeysOK, CycleState
<1>a. /\ {"settings", "links", "status", "promotions", "probe", "deliver", "commit"}
           \subseteq CycleAt \cap Asking
      /\ "notice" \notin Asking /\ "select" \notin Asking
  BY DEF CycleAt, Asking
<1>1. CASE SettingsFail
  <2> DEFINE t == [s EXCEPT !.accountsEnabled = FALSE, !.adsEnabled = FALSE]
             u == NoDonor(NoPromotions(t))
  <2>1. t \in HubState
    BY <1>0 DEF HubState
  <2> HIDE DEF t
  <2>2. u \in HubState /\ Clean(u)
    BY <2>1, HubParts DEF Clean
  <2>3. Answer("settings", u, "commit")
    BY <1>1 DEF SettingsFail, t
  <2> HIDE DEF u
  <2> QED BY <1>0, <1>a, <2>2, <2>3, AnswerSets DEF CycleOK
<1>2. ASSUME NEW x \in BOOLEAN, NEW y \in BOOLEAN, SettingsAnswer(x, y)
      PROVE  CycleOK' /\ cycle.at \in Asking
  <2> DEFINE u == [s EXCEPT !.accountsEnabled = x, !.adsEnabled = y]
  <2>1. u \in HubState
    BY <1>0 DEF HubState
  <2>2. Answer("settings", u, "links")
    BY <1>2 DEF SettingsAnswer
  <2> HIDE DEF u
  <2> QED BY <1>0, <1>a, <2>1, <2>2, AnswerSets DEF CycleOK
<1>3. CASE LinksAnswer
  <2>1. CASE s.accountsEnabled
    <3>1. cycle.at = "links" /\ cycle' = [cycle EXCEPT !.at = "status", !.key = apiKey]
      BY <1>3, <2>1 DEF LinksAnswer
    <3>2. cycle' \in CycleState /\ cycle'.at = "status"
      BY <1>0, <1>a, <3>1 DEF CycleState
    <3> QED BY <1>a, <3>1, <3>2 DEF CycleOK
  <2>2. CASE ~s.accountsEnabled
    <3>1. Answer("links", NoDonor(s), "promotions")
      BY <1>3, <2>2 DEF LinksAnswer
    <3>2. NoDonor(s) \in HubState /\ "promotions" \in CycleAt
      BY <1>0, <1>a, HubParts
    <3>3. cycle' \in CycleState /\ cycle.at = "links" /\ cycle'.at = "promotions"
      BY <1>0, <3>1, <3>2, AnswerSets
    <3> QED BY <1>a, <3>3 DEF CycleOK
  <2> QED BY <2>1, <2>2
<1>4. ASSUME NEW d \in BOOLEAN, NEW until \in Times, StatusAnswer(d, until)
      PROVE  CycleOK' /\ cycle.at \in Asking
  <2> DEFINE u == IF d /\ (until = 0 \/ clock < until)
                  THEN [s EXCEPT !.donor = TRUE, !.donorUntil = until] ELSE NoDonor(s)
  <2>1. u \in HubState
    BY <1>0, HubParts DEF HubState
  <2>2. Answer("status", u, "promotions")
    BY <1>4 DEF StatusAnswer
  <2> HIDE DEF u
  <2> QED BY <1>0, <1>a, <2>1, <2>2, AnswerSets DEF CycleOK
<1>5. ASSUME NEW error \in Failures, StatusFails(error)
      PROVE  CycleOK' /\ cycle.at \in Asking
  <2>1. PICK b \in BOOLEAN : b = (s.accountsEnabled /\ error = "credentials")
    OBVIOUS
  <2> DEFINE t == [s EXCEPT !.accountsEnabled = b]
  <2>2. t \in HubState
    BY <1>0 DEF HubState
  <2>3. Answer("status", NoDonor(t), "promotions")
    BY <1>0, <1>5, <2>1 DEF StatusFails, HubState
  <2> HIDE DEF t
  <2>4. NoDonor(t) \in HubState /\ "promotions" \in CycleAt
    BY <1>a, <2>2, HubParts
  <2>5. cycle' \in CycleState /\ cycle.at = "status" /\ cycle'.at = "promotions"
    BY <1>0, <2>3, <2>4, AnswerSets
  <2> QED BY <1>a, <2>5 DEF CycleOK
<1>6. CASE PromotionsHidden
  <2>1. cycle' = [cycle EXCEPT !.next = NoPromotions(s), !.at = "commit"]
        /\ cycle.at = "promotions"
    BY <1>0, <1>6 DEF PromotionsHidden, CycleState
  <2>2. NoPromotions(s) \in HubState /\ Clean(NoPromotions(s))
    BY <1>0, HubParts DEF Clean
  <2>3. cycle' \in CycleState /\ cycle'.at = "commit" /\ cycle'.next = NoPromotions(s)
    BY <1>0, <1>a, <2>1, <2>2 DEF CycleState
  <2> QED BY <1>a, <2>1, <2>2, <2>3 DEF CycleOK
<1>7. CASE PromotionsChosen
  <2>1. PICK at \in {"deliver", "probe"} : cycle' = [cycle EXCEPT !.at = at]
    BY <1>7 DEF PromotionsChosen
  <2>2. cycle.at = "promotions" /\ s.adsEnabled /\ ~s.donor
    BY <1>7 DEF PromotionsChosen
  <2>3. cycle' \in CycleState /\ cycle'.at = at /\ cycle'.next = s
    BY <1>0, <1>a, <2>1 DEF CycleState
  <2> QED BY <1>a, <2>2, <2>3 DEF CycleOK
<1>8. ASSUME NEW ok \in BOOLEAN, ProbeAnswer(ok)
      PROVE  CycleOK' /\ cycle.at \in Asking
  <2>1. CASE ok
    <3>1. Answer("probe", s, "deliver")
      BY <1>8, <2>1 DEF ProbeAnswer
    <3> QED BY <1>0, <1>a, <3>1, AnswerSets DEF CycleOK
  <2>2. CASE ~ok
    <3> DEFINE u == [s EXCEPT !.promotions = FALSE]
    <3>1. Answer("probe", u, "commit") /\ cycle.at = "probe"
      BY <1>8, <2>2 DEF ProbeAnswer, Answer
    <3>2. u \in HubState /\ u.donor = s.donor /\ ~u.promotions
      BY <1>0 DEF HubState
    <3>3. Clean(u)
      BY <3>1, <3>2 DEF Clean, CycleOK
    <3> HIDE DEF u
    <3> QED BY <1>0, <1>a, <3>1, <3>2, <3>3, AnswerSets DEF CycleOK
  <2> QED BY <2>1, <2>2
<1>9. ASSUME NEW ok \in BOOLEAN, NEW creatives \in BOOLEAN, DeliverAnswer(ok, creatives)
      PROVE  CycleOK' /\ cycle.at \in Asking
  <2> DEFINE u == IF ok THEN [s EXCEPT !.promotions = creatives, !.promotionLive = TRUE]
                  ELSE NoPromotions(s)
  <2>1. Answer("deliver", u, "commit") /\ cycle.at = "deliver"
    BY <1>9 DEF DeliverAnswer, Answer
  <2>2. s.adsEnabled /\ ~s.donor
    BY <2>1 DEF CycleOK
  <2>3. u \in HubState /\ Clean(u)
    <3>1. CASE ok
      BY <1>0, <2>2, <3>1 DEF HubState, Clean
    <3>2. CASE ~ok
      BY <1>0, <3>2, HubParts DEF Clean
    <3> QED BY <3>1, <3>2
  <2> HIDE DEF u
  <2> QED BY <1>0, <1>a, <2>1, <2>3, AnswerSets DEF CycleOK
<1>10. ASSUME NEW at \in {"settings", "links", "status", "probe", "deliver"}, GateFails(at)
       PROVE  CycleOK' /\ cycle.at \in Asking
  <2>1. cycle.at = at /\ cycle' = Returned
    BY <1>10 DEF GateFails
  <2>2. cycle' \in CycleState /\ cycle'.at \in {"notice", "select"}
    BY <1>0, <2>1, ReturnedIsIdle
  <2> QED BY <1>a, <2>1, <2>2 DEF CycleOK
<1> QED
  BY <1>1, <1>2, <1>3, <1>4, <1>5, <1>6, <1>7, <1>8, <1>9, <1>10 DEF Answers

(* The key a refresh begins with.                                          *)
LEMMA BeginKeepsCycle ==
  ASSUME PortalInv, NEW hourly \in BOOLEAN, BeginRefresh(hourly),
         UNCHANGED <<apiKey, keyChanges, donorKey>>
  PROVE  KeysOK' /\ CycleOK' /\ cycle'.at = "settings"
<1>1. /\ generation' \in 0..MaxKeyChanges /\ generation' <= keyChanges
      /\ lastKey' = apiKey
  <2>1. /\ keyChanges \in 0..MaxKeyChanges /\ generation \in 0..MaxKeyChanges
        /\ generation <= keyChanges /\ (apiKey # lastKey => generation < keyChanges)
        /\ MaxKeyChanges \in Nat
    BY PortalAssumption DEF PortalInv, KeysOK
  <2>2. /\ apiKey = lastKey => generation' = generation
        /\ apiKey # lastKey => generation' = generation + 1
        /\ lastKey' = apiKey
    BY DEF BeginRefresh
  <2> QED BY <2>1, <2>2
<1>2. KeysOK'
  BY <1>1 DEF PortalInv, KeysOK
<1>3. cycle' \in CycleState /\ cycle'.at = "settings"
  <2>1. "settings" \in CycleAt /\ hub \in HubState /\ donorKey \in Keys /\ cycle \in CycleState
    BY DEF PortalInv, HubOK, CycleOK, KeysOK, CycleAt
  <2>2. cycle' = [cycle EXCEPT !.at = "settings", !.next = hub, !.g = generation',
                               !.key = donorKey, !.hourly = hourly]
    BY DEF BeginRefresh
  <2> QED BY <1>1, <2>1, <2>2 DEF CycleState
<1> QED BY <1>2, <1>3 DEF CycleOK

(* What a change of the hub's state does to the events.                    *)
LEMMA SetHubKeepsEmits ==
  ASSUME EmitsOK, NEW s \in HubState, NEW emitter \in Emitters, NEW announce,
         SetHub(s, emitter, announce), emits[emitter] = "none",
         announce \/ Shown(s) = Shown(hub)
  PROVE  /\ EmitsOK' /\ hub' = s
         /\ \A e \in Emitters \ {emitter} : emits[e] = "none" => emits'[e] = "none"
<1>1. /\ hub' = s
      /\ emits' = [e \in Emitters |->
                     IF e = emitter THEN (IF announce THEN "fresh" ELSE "none")
                     ELSE IF emits[e] = "fresh" /\ Shown(s) # Shown(hub) THEN "stale"
                     ELSE emits[e]]
      /\ told' = (told /\ Shown(s) = Shown(hub))
      /\ overlapped' = IF announce THEN \E e \in Emitters \ {emitter} : emits[e] # "none"
                       ELSE overlapped
  BY DEF SetHub
<1>2. /\ emits \in [Emitters -> EmitState] /\ told \in BOOLEAN /\ overlapped \in BOOLEAN
      /\ \A e \in Emitters : emits[e] = "stale" => overlapped
      /\ told \/ overlapped \/ \E e \in Emitters : emits[e] = "fresh"
  BY DEF EmitsOK
<1>3. CASE announce
  <2>1. emits' = [e \in Emitters |->
                    IF e = emitter THEN "fresh"
                    ELSE IF emits[e] = "fresh" /\ Shown(s) # Shown(hub) THEN "stale"
                    ELSE emits[e]]
    BY <1>1, <1>3
  <2>2. overlapped' = (\E e \in Emitters \ {emitter} : emits[e] # "none")
    BY <1>1, <1>3
  <2>3. told' \in BOOLEAN /\ overlapped' \in BOOLEAN
    BY <1>1, <2>2
  <2> HIDE DEF Shown
  <2>4. emits' \in [Emitters -> EmitState] /\ emits'[emitter] = "fresh"
    BY <1>2, <2>1 DEF EmitState
  <2>5. ASSUME NEW e \in Emitters, emits'[e] = "stale" PROVE overlapped'
    <3>1. e # emitter /\ emits[e] # "none"
      BY <2>1, <2>5
    <3> QED BY <2>2, <3>1
  <2>6. \A e \in Emitters \ {emitter} : emits[e] = "none" => emits'[e] = "none"
    BY <2>1
  <2> QED BY <1>1, <2>3, <2>4, <2>5, <2>6 DEF EmitsOK
<1>4. CASE ~announce
  <2>1. Shown(s) = Shown(hub)
    BY <1>4
  <2>2. emits' = emits
    <3>1. \A e \in Emitters : emits'[e] = emits[e]
      BY <1>1, <1>4, <2>1
    <3>2. emits' = [e \in Emitters |-> emits'[e]]
      BY <1>1
    <3> QED BY <1>2, <3>1, <3>2
  <2>3. overlapped' = overlapped /\ (told' <=> told)
    BY <1>1, <1>4, <2>1
  <2>4. told' \in BOOLEAN
    BY <1>1
  <2>5. told' \/ overlapped' \/ \E e \in Emitters : emits'[e] = "fresh"
    BY <1>2, <2>2, <2>3
  <2>6. overlapped' \in BOOLEAN /\ \A e \in Emitters : emits'[e] = "stale" => overlapped'
    BY <1>2, <2>2, <2>3
  <2>7. EmitsOK'
    BY <1>2, <2>2, <2>4, <2>5, <2>6 DEF EmitsOK
  <2> QED BY <1>1, <2>2, <2>7
<1> QED BY <1>3, <1>4

LEMMA EmitKeepsEmits ==
  ASSUME EmitsOK, NEW e \in Emitters, emit(e)
  PROVE  EmitsOK' /\ \A f \in Emitters : emits[f] = "none" => emits'[f] = "none"
<1>1. /\ emits[e] # "none" /\ told' = (emits[e] = "fresh")
      /\ emits' = [emits EXCEPT ![e] = "none"]
      /\ overlapped' = (overlapped /\ (~told' \/ \E f \in Emitters : emits'[f] # "none"))
  BY DEF emit
<1>2. /\ emits \in [Emitters -> EmitState] /\ told \in BOOLEAN /\ overlapped \in BOOLEAN
      /\ \A f \in Emitters : emits[f] = "stale" => overlapped
  BY DEF EmitsOK
<1>3. /\ emits' \in [Emitters -> EmitState] /\ emits'[e] = "none"
      /\ \A f \in Emitters \ {e} : emits'[f] = emits[f]
  BY <1>1, <1>2 DEF EmitState
<1>4. told' \in BOOLEAN /\ overlapped' \in BOOLEAN
  BY <1>1
<1>5. ASSUME NEW f \in Emitters, emits'[f] = "stale" PROVE overlapped'
  <2>1. f # e /\ emits[f] = "stale" /\ emits'[f] # "none"
    BY <1>3, <1>5
  <2>2. overlapped
    BY <1>2, <2>1
  <2> QED BY <1>1, <2>1, <2>2
<1>6. told' \/ overlapped'
  <2>1. CASE emits[e] = "fresh"
    BY <1>1, <2>1
  <2>2. CASE emits[e] = "stale"
    <3>1. overlapped /\ ~told'
      BY <1>1, <1>2, <2>2
    <3> QED BY <1>1, <3>1
  <2> QED BY <1>1, <1>2, <2>1, <2>2 DEF EmitState
<1>7. EmitsOK'
  BY <1>3, <1>4, <1>5, <1>6 DEF EmitsOK
<1> QED BY <1>3, <1>7

LEMMA PortalInvInit == PortalInit => PortalInv
<1> SUFFICES ASSUME PortalInit PROVE PortalInv
  OBVIOUS
<1>1. apiKey \in Keys
  BY PortalAssumption DEF PortalInit
<1>2. KeysOK
  BY <1>1, PortalConstants DEF PortalInit, KeysOK
<1>3. CycleOK
  <2>1. cycle = [at |-> "idle", next |-> EmptyHub, g |-> 0, key |-> apiKey, hourly |-> FALSE]
    BY DEF PortalInit
  <2>2. "idle" \in CycleAt
    BY DEF CycleAt
  <2> QED BY <1>1, <2>1, <2>2, PortalConstants DEF CycleOK, CycleState
<1>4. HubOK
  BY PortalConstants DEF PortalInit, HubOK, Clean, EmptyHub, OperationAt
<1>5. EmitsOK /\ Quiet
  BY DEF PortalInit, EmitsOK, Quiet, EmitState, Emitters
<1> QED BY <1>2, <1>3, <1>4, <1>5 DEF PortalInv

LEMMA PortalInvStep == PortalInv /\ [PortalNext]_portalVars => PortalInv'
<1> SUFFICES ASSUME PortalInv, [PortalNext]_portalVars PROVE PortalInv'
  OBVIOUS
<1>0. /\ KeysOK /\ CycleOK /\ HubOK /\ EmitsOK /\ Quiet
      /\ "run" \in Emitters /\ "operation" \in Emitters
      /\ "select" \notin Asking /\ "notice" \notin Asking /\ "ended" \notin Asking
      /\ "settings" \in Asking /\ "idle" \in Asking /\ "commit" \in Asking
  BY DEF PortalInv, Emitters, Asking
\* What stays with the variables that it is about.
<1>k. ASSUME UNCHANGED <<apiKey, keyChanges, lastKey, generation, donorKey>> PROVE KeysOK'
  BY <1>0, <1>k DEF KeysOK
<1>c. ASSUME UNCHANGED cycle PROVE CycleOK'
  BY <1>0, <1>c DEF CycleOK
<1>h. ASSUME UNCHANGED <<hub, clock, expiry, hubCtxDone, operation>> PROVE HubOK'
  BY <1>0, <1>h DEF HubOK
<1>e. ASSUME UNCHANGED <<emits, told, overlapped>> PROVE EmitsOK'
  BY <1>0, <1>e DEF EmitsOK
<1>1. CASE RunStarts
  <2>1. /\ BeginRefresh(FALSE) /\ cycle.at = "idle"
        /\ UNCHANGED <<apiKey, keyChanges, clock, hub, expiry, operation, hubCtxDone,
                       emits, told, overlapped, donorKey>>
    BY <1>1 DEF RunStarts
  <2>2. KeysOK' /\ CycleOK' /\ cycle'.at = "settings"
    BY <2>1, BeginKeepsCycle
  <2>3. Quiet'
    BY <1>0, <2>1, <2>2 DEF Quiet
  <2> QED BY <1>h, <1>e, <2>1, <2>2, <2>3 DEF PortalInv
<1>2. CASE CycleStep
  <2>1. /\ Answers
        /\ UNCHANGED <<apiKey, keyChanges, clock, hub, lastKey, generation, expiry, operation,
                       hubCtxDone, emits, told, overlapped, donorKey>>
    BY <1>2 DEF CycleStep
  <2>2. CycleOK' /\ cycle.at \in Asking
    BY <1>0, <2>1, AnswersKeepCycle
  <2>3. Quiet'
    BY <1>0, <2>1, <2>2 DEF Quiet
  <2> QED BY <1>k, <1>h, <1>e, <2>1, <2>2, <2>3 DEF PortalInv
<1>3. CASE commit
  <2> DEFINE s == cycle.next
             announce == snapshotChanged(hub, s)
  <2>1. /\ cycle.at = "commit" /\ SetHub(s, "run", announce) /\ donorKey' = cycle.key
        /\ cycle' = Returned
        /\ UNCHANGED <<apiKey, keyChanges, clock, lastKey, generation, expiry, operation,
                       hubCtxDone>>
    BY <1>3 DEF commit
  <2>2. /\ s \in HubState /\ Clean(s) /\ cycle \in CycleState /\ cycle.key \in Keys
        /\ emits["run"] = "none"
    BY <1>0, <2>1 DEF CycleOK, CycleState, Quiet
  <2>3. announce \/ Shown(s) = Shown(hub)
    <3>1. CASE ~announce
      <4>1. /\ hub.accountsEnabled = s.accountsEnabled /\ hub.adsEnabled = s.adsEnabled
            /\ hub.promotionLive = s.promotionLive /\ hub.donor = s.donor
        BY <3>1 DEF snapshotChanged
      <4>2. (s.adsEnabled /\ s.promotionLive) = (hub.adsEnabled /\ hub.promotionLive)
        BY <4>1
      <4> QED BY <4>1, <4>2 DEF Shown
    <3> QED BY <3>1
  <2> HIDE DEF announce, s
  <2>4. /\ EmitsOK' /\ hub' = s
        /\ \A e \in Emitters \ {"run"} : emits[e] = "none" => emits'[e] = "none"
    BY <1>0, <2>1, <2>2, <2>3, SetHubKeepsEmits
  <2>5. cycle' \in CycleState /\ cycle'.at \in {"notice", "select"}
    BY <2>1, <2>2, ReturnedIsIdle
  <2>6. KeysOK' /\ HubOK'
    BY <1>0, <2>1, <2>2, <2>4 DEF KeysOK, HubOK
  <2>7. CycleOK' /\ Quiet'
    BY <1>0, <2>1, <2>4, <2>5 DEF CycleOK, Quiet
  <2> QED BY <2>4, <2>6, <2>7 DEF PortalInv
<1>4. CASE RefreshNotice \/ RunEnds
  <2>1. PICK at \in {"select", "ended"} : cycle' = [cycle EXCEPT !.at = at]
    BY <1>4 DEF RefreshNotice, RunEnds
  <2>2. UNCHANGED <<apiKey, keyChanges, clock, hub, lastKey, generation, expiry,
                    operation, hubCtxDone, emits, told, overlapped, donorKey>>
    BY <1>4 DEF RefreshNotice, RunEnds
  <2>3. cycle' \in CycleState /\ cycle'.at = at
    BY <1>0, <2>1 DEF CycleOK, CycleState, CycleAt
  <2>4. CycleOK' /\ Quiet'
    BY <1>0, <2>1, <2>2, <2>3 DEF CycleOK, Quiet
  <2> QED BY <1>k, <1>h, <1>e, <2>2, <2>4 DEF PortalInv
<1>5. CASE Loop
  <2>0. /\ cycle.at = "select" /\ emits["run"] = "none"
        /\ UNCHANGED <<apiKey, keyChanges, clock, operation, hubCtxDone, donorKey>>
    BY <1>5 DEF Loop
  <2>1. CASE /\ BeginRefresh(TRUE) \/ BeginRefresh(FALSE)
             /\ UNCHANGED <<expiry, hub, emits, told, overlapped>>
    <3>1. KeysOK' /\ CycleOK' /\ cycle'.at = "settings"
      BY <2>0, <2>1, BeginKeepsCycle
    <3>2. Quiet'
      BY <1>0, <2>0, <2>1 DEF Quiet
    <3> QED BY <1>h, <1>e, <2>0, <2>1, <3>1, <3>2 DEF PortalInv
  <2>2. CASE /\ ArmExpiry
             /\ UNCHANGED <<lastKey, generation, cycle, hub, emits, told, overlapped>>
    <3>1. expiry' \in Times
      BY <1>0, <2>2, PortalConstants DEF ArmExpiry, HubOK, HubState
    <3>2. HubOK' /\ Quiet'
      BY <1>0, <2>0, <2>2, <3>1 DEF HubOK, Quiet
    <3> QED BY <1>k, <1>c, <1>e, <2>0, <2>2, <3>2 DEF PortalInv
  <2>3. CASE /\ expiry' = 0 /\ UNCHANGED <<hub, emits, told, overlapped>>
             /\ UNCHANGED <<lastKey, generation, cycle>>
    <3>1. HubOK' /\ Quiet'
      BY <1>0, <2>0, <2>3, PortalConstants DEF HubOK, Quiet
    <3> QED BY <1>k, <1>c, <1>e, <2>0, <2>3, <3>1 DEF PortalInv
  <2>4. CASE /\ expiry' = 0 /\ SetHub(NoDonor(hub), "run", TRUE)
             /\ UNCHANGED <<lastKey, generation, cycle>>
    <3>1. NoDonor(hub) \in HubState /\ Clean(NoDonor(hub))
      BY <1>0, HubParts DEF HubOK, Clean
    <3>2. /\ EmitsOK' /\ hub' = NoDonor(hub)
          /\ \A e \in Emitters \ {"run"} : emits[e] = "none" => emits'[e] = "none"
      BY <1>0, <2>0, <2>4, <3>1, SetHubKeepsEmits
    <3>3. HubOK' /\ Quiet'
      BY <1>0, <2>0, <2>4, <3>1, <3>2, PortalConstants DEF HubOK, Quiet
    <3> QED BY <1>k, <1>c, <2>0, <2>4, <3>2, <3>3 DEF PortalInv
  <2> QED BY <1>5, <2>1, <2>2, <2>3, <2>4 DEF Loop
<1>6. ASSUME NEW e \in Emitters, emit(e) PROVE PortalInv'
  <2>1. EmitsOK' /\ \A f \in Emitters : emits[f] = "none" => emits'[f] = "none"
    BY <1>0, <1>6, EmitKeepsEmits
  <2>2. UNCHANGED <<apiKey, keyChanges, clock, hub, lastKey, generation,
                    cycle, expiry, operation, hubCtxDone, donorKey>>
    BY <1>6 DEF emit
  <2>3. Quiet'
    BY <1>0, <2>1, <2>2 DEF Quiet
  <2> QED BY <1>k, <1>c, <1>h, <2>1, <2>2, <2>3 DEF PortalInv
<1>7. CASE OperationStarts
  <2>1. /\ operation' = "calling" /\ emits["operation"] = "none"
        /\ UNCHANGED <<apiKey, keyChanges, clock, hub, lastKey, generation,
                       cycle, expiry, hubCtxDone, emits, told, overlapped, donorKey>>
    BY <1>7 DEF OperationStarts
  <2>2. HubOK' /\ Quiet'
    BY <1>0, <2>1 DEF HubOK, Quiet, OperationAt
  <2> QED BY <1>k, <1>c, <1>e, <2>1, <2>2 DEF PortalInv
<1>8. ASSUME NEW error \in Failures \cup {"none"}, OperationAnswers(error) PROVE PortalInv'
  <2>1. /\ operation = "calling" /\ operation' = "none"
        /\ UNCHANGED <<apiKey, keyChanges, clock, lastKey, generation, cycle,
                       expiry, hubCtxDone, donorKey>>
    BY <1>8 DEF OperationAnswers
  <2>2. CASE UNCHANGED <<hub, emits, told, overlapped>>
    <3>1. HubOK' /\ Quiet'
      BY <1>0, <2>1, <2>2 DEF HubOK, Quiet, OperationAt
    <3> QED BY <1>k, <1>c, <1>e, <2>1, <2>2, <3>1 DEF PortalInv
  <2>3. CASE SetHub(NoDonor([hub EXCEPT !.accountsEnabled = FALSE]), "operation",
                    hub.accountsEnabled \/ hub.donor)
    <3> DEFINE t == [hub EXCEPT !.accountsEnabled = FALSE]
               announce == hub.accountsEnabled \/ hub.donor
    <3>1. /\ t \in HubState /\ ~t.accountsEnabled /\ t.adsEnabled = hub.adsEnabled
          /\ t.promotions = hub.promotions /\ t.promotionLive = hub.promotionLive
      BY <1>0 DEF HubOK, HubState
    <3>2. SetHub(NoDonor(t), "operation", announce)
      BY <2>3
    <3> HIDE DEF t
    <3>3. NoDonor(t) \in HubState /\ Clean(NoDonor(t))
      BY <1>0, <3>1, HubParts DEF HubOK, Clean
    <3>4. announce \/ Shown(NoDonor(t)) = Shown(hub)
      <4>1. CASE ~announce
        <5>1. /\ ~hub.accountsEnabled /\ ~hub.donor
              /\ hub.accountsEnabled \in BOOLEAN /\ hub.donor \in BOOLEAN
          BY <1>0, <4>1 DEF HubOK, HubState
        <5>2. /\ NoDonor(t).accountsEnabled = FALSE /\ NoDonor(t).donor = FALSE
              /\ NoDonor(t).adsEnabled = hub.adsEnabled
              /\ NoDonor(t).promotionLive = hub.promotionLive
          BY <3>1, <3>3, HubParts DEF HubState
        <5>3. hub.accountsEnabled = FALSE /\ hub.donor = FALSE
          BY <5>1
        <5> QED BY <5>2, <5>3 DEF Shown
      <4> QED BY <4>1
    <3>5. emits["operation"] = "none"
      BY <1>0, <2>1 DEF Quiet
    <3> HIDE DEF announce
    <3>6. /\ EmitsOK' /\ hub' = NoDonor(t)
          /\ \A e \in Emitters \ {"operation"} : emits[e] = "none" => emits'[e] = "none"
      BY <1>0, <3>2, <3>3, <3>4, <3>5, SetHubKeepsEmits
    <3>7. HubOK' /\ Quiet'
      BY <1>0, <2>1, <3>3, <3>6 DEF HubOK, Quiet, OperationAt
    <3> QED BY <1>k, <1>c, <2>1, <3>6, <3>7 DEF PortalInv
  <2> QED BY <1>8, <2>2, <2>3 DEF OperationAnswers
<1>9. CASE PortalEnvironment
  <2>1. UNCHANGED <<hub, lastKey, generation, cycle, expiry, operation,
                    emits, told, overlapped, donorKey>>
    BY <1>9 DEF PortalEnvironment
  <2>2. /\ keyChanges' \in 0..MaxKeyChanges /\ apiKey' \in Keys
        /\ (apiKey' = apiKey /\ keyChanges' = keyChanges) \/ keyChanges' = keyChanges + 1
        /\ clock' \in Times /\ hubCtxDone' \in BOOLEAN
    <3>0. /\ clock \in 0..MaxClock /\ keyChanges \in 0..MaxKeyChanges /\ MaxClock \in Nat
          /\ MaxKeyChanges \in Nat /\ apiKey \in Keys /\ hubCtxDone \in BOOLEAN
      BY <1>0, PortalAssumption DEF KeysOK, HubOK, Times
    <3>1. CASE /\ keyChanges < MaxKeyChanges /\ keyChanges' = keyChanges + 1
               /\ apiKey' \in Keys \ {apiKey} /\ UNCHANGED <<clock, hubCtxDone>>
      BY <3>0, <3>1 DEF Times
    <3>2. CASE clock < MaxClock /\ clock' = clock + 1
               /\ UNCHANGED <<apiKey, keyChanges, hubCtxDone>>
      BY <3>0, <3>2 DEF Times
    <3>3. CASE hubCtxDone' = TRUE /\ UNCHANGED <<apiKey, keyChanges, clock>>
      BY <3>0, <3>3 DEF Times
    <3> QED BY <1>9, <3>1, <3>2, <3>3 DEF PortalEnvironment
  <2>3. KeysOK'
    BY <1>0, <2>1, <2>2, PortalAssumption DEF KeysOK
  <2>4. HubOK' /\ Quiet'
    BY <1>0, <2>1, <2>2 DEF HubOK, Quiet
  <2> QED BY <1>c, <1>e, <2>1, <2>3, <2>4 DEF PortalInv
<1>10. CASE UNCHANGED portalVars
  <2>1. UNCHANGED <<apiKey, keyChanges, clock, hub, lastKey, generation, cycle, expiry,
                    operation, hubCtxDone, emits, told, overlapped, donorKey>>
    BY <1>10 DEF portalVars
  <2>2. Quiet'
    BY <1>0, <2>1 DEF Quiet
  <2> QED BY <1>k, <1>c, <1>h, <1>e, <2>1, <2>2 DEF PortalInv
<1> QED
  BY <1>1, <1>2, <1>3, <1>4, <1>5, <1>6, <1>7, <1>8, <1>9, <1>10
     DEF PortalNext, RunStep, EndCall

LEMMA PortalInvSafe == PortalInv => PortalSafe
<1> SUFFICES ASSUME PortalInv PROVE PortalSafe
  OBVIOUS
<1>1. PortalTypeOK
  BY DEF PortalInv, KeysOK, CycleOK, CycleState, HubOK, EmitsOK, PortalTypeOK
<1>2. DonorSeesNoPromotions
  BY DEF PortalInv, HubOK, Clean, DonorSeesNoPromotions
<1>3. ToldOfChanges
  <2> SUFFICES ASSUME \A e \in Emitters : emits[e] = "none" PROVE told \/ overlapped
    BY DEF ToldOfChanges
  <2>1. told \/ overlapped \/ \E e \in Emitters : emits[e] = "fresh"
    BY DEF PortalInv, EmitsOK
  <2> QED BY <2>1
<1> QED BY <1>1, <1>2, <1>3 DEF PortalSafe

(* PortalSafe, for any keys, clock and changes of the key: a donor sees no *)
(* promotions whatever the cycle, an account operation and the expiry      *)
(* timer do to the state between them, and clients are told of what they   *)
(* are shown, unless two emitters overlapped.                              *)
THEOREM PortalTheorem == PortalInit /\ [][PortalNext]_portalVars => []PortalSafe
<1>1. PortalInit /\ [][PortalNext]_portalVars => []PortalInv
  BY PortalInvInit, PortalInvStep, PTL
<1> QED BY <1>1, PortalInvSafe, PTL
================================================================================
