-------------------------------- MODULE Host --------------------------------
(***************************************************************************)
(* The life of the server process: composition.App (listener, integration  *)
(* loops, Service.Close), its update coordinator (updates.Manager: token,  *)
(* cached status, response barrier, the install pipeline) and its two      *)
(* hosts, the headless runServe and the desktop Supervisor.                *)
(*                                                                         *)
(* What an installation does to the disk is module Updates; here it is     *)
(* one step that works or fails.  A desktop host builds a new App for      *)
(* every Start, so that an operation of an earlier App may still run.      *)
(***************************************************************************)
EXTENDS Naturals

CONSTANTS
    HostKinds,      \* the hosts of this instance: "serve", "gui"
    MaxApps,        \* bound on the Apps one process builds
    MaxApplies,     \* bound on accepted or refused apply requests
    MaxChecks,      \* bound on checks of the notify-only loop
    MaxRequests     \* bound on requests that start background work

ASSUME HostAssumption ==
    /\ HostKinds \subseteq {"serve", "gui"}
    /\ MaxApps \in Nat \ {0} /\ MaxApplies \in Nat /\ MaxChecks \in Nat
    /\ MaxRequests \in Nat

Apps == 1..MaxApps

VARIABLES
    host,       \* the host: its kind, its state, the App it serves (0: none)
    app,        \* per App: listener, request, background work, service
    mgr,        \* per App: the coordinator
    chk,        \* per App: a check beside the operation
    hostSpent   \* the bounds: applies, checks and requests so far

hostVars == <<host, app, mgr, chk, hostSpent>>

NoApp == [listen |-> FALSE, handler |-> "none", work |-> FALSE,
          service |-> "none", forced |-> FALSE]
NewApp == [NoApp EXCEPT !.listen = TRUE, !.service = "open"]
NoOperation == [token |-> FALSE, shown |-> FALSE, op |-> "none", base |-> FALSE,
          barrier |-> "none", torn |-> FALSE, failed |-> FALSE]
NoCheck == [pc |-> "off", base |-> FALSE, torn |-> FALSE]

OpSteps == {"none", "fetch", "base", "commit", "accept", "barrier", "drain", "close",
            "download", "activate", "handoff", "failed"}
\* The steps of an operation that the status has announced
Accepted == {"barrier", "drain", "close", "download", "activate", "handoff"}

HostTypeOK ==
    /\ host \in [kind : HostKinds, cur : 0..MaxApps, built : 0..MaxApps,
                 state : {"stopped", "starting", "running", "draining", "stopping",
                          "waiting", "returned", "handed off", "quit"}]
    /\ app \in [Apps -> [listen : BOOLEAN, handler : {"none", "in", "saved"},
                         work : BOOLEAN, forced : BOOLEAN,
                         service : {"none", "open", "closed", "aborted"}]]
    /\ mgr \in [Apps -> [token : BOOLEAN, shown : BOOLEAN, op : OpSteps, base : BOOLEAN,
                         barrier : {"none", "armed", "open"}, torn : BOOLEAN,
                         failed : BOOLEAN]]
    /\ chk \in [Apps -> [pc : {"off", "read"}, base : BOOLEAN, torn : BOOLEAN]]
    /\ hostSpent \in [applies : 0..MaxApplies, checks : 0..MaxChecks,
                      requests : 0..MaxRequests]

HostInit ==
    /\ host \in [kind : HostKinds, cur : {0}, built : {0}, state : {"stopped"}]
    /\ app = [a \in Apps |-> NoApp]
    /\ mgr = [a \in Apps |-> NoOperation]
    /\ chk = [a \in Apps |-> NoCheck]
    /\ hostSpent = [applies |-> 0, checks |-> 0, requests |-> 0]

Up == host.state \notin {"returned", "handed off", "quit"}
SetOp(a, pc) == mgr' = [mgr EXCEPT ![a].op = pc]

-----------------------------------------------------------------------------
(* The App: requests, background work, Service.Close.                      *)

HandlerEnters(a) ==
    /\ Up /\ app[a].listen /\ app[a].handler = "none"
    /\ hostSpent.requests < MaxRequests
    /\ app' = [app EXCEPT ![a].handler = "in"]
    /\ hostSpent' = [hostSpent EXCEPT !.requests = @ + 1]
    /\ UNCHANGED <<host, mgr, chk>>

HandlerLeaves(a) ==
    /\ Up /\ app[a].handler = "in"
    /\ app' = [app EXCEPT ![a].handler = "none"]
    /\ UNCHANGED <<host, mgr, chk, hostSpent>>

\* SyncCatalog saves its job, which a closed repository refuses ...
HandlerSavesJob(a) ==
    /\ Up /\ app[a].handler = "in" /\ app[a].service # "closed"
    /\ app' = [app EXCEPT ![a].handler = "saved"]
    /\ UNCHANGED <<host, mgr, chk, hostSpent>>

\* ... and then adds its goroutine to the wait group.
HandlerSpawnsWork(a) ==
    /\ Up /\ app[a].handler = "saved"
    /\ app' = [app EXCEPT ![a].handler = "in", ![a].work = TRUE]
    /\ UNCHANGED <<host, mgr, chk, hostSpent>>

WorkEnds(a) ==
    /\ Up /\ app[a].work
    /\ app' = [app EXCEPT ![a].work = FALSE]
    /\ UNCHANGED <<host, mgr, chk, hostSpent>>

\* Mutant: the repository is closed without waiting for the workers.
ServiceClosedUnjoined(a, timeout) ==
    [app EXCEPT ![a].service = IF timeout THEN "aborted" ELSE "closed"]

\* joinAndClose: the workers end and the repository closes, or the deadline
\* passes and everything stays open; the first result is kept for ever.
ServiceClosed(a, timeout) ==
    [app EXCEPT ![a].service =
        IF @ \in {"closed", "aborted"} THEN @
        ELSE IF timeout /\ app[a].work THEN "aborted" ELSE "closed"]

MayClose(a, timeout) ==
    \/ app[a].service \in {"closed", "aborted"}
    \/ timeout = app[a].work

\* http.Server.Shutdown returns: the handlers are gone, or its deadline passed.
Drained(a, timeout) == timeout = (app[a].handler # "none")

-----------------------------------------------------------------------------
(* The update coordinator.                                                 *)

\* beginOperation: the token, for StartupApply or for a request.
BeginOperation(a) ==
    /\ Up /\ app[a].service = "open" /\ ~mgr[a].token
    /\ hostSpent.applies < MaxApplies
    /\ mgr' = [mgr EXCEPT ![a].token = TRUE, ![a].op = "fetch", ![a].failed = FALSE]
    /\ hostSpent' = [hostSpent EXCEPT !.applies = @ + 1]
    /\ UNCHANGED <<host, app, chk>>

Fetch(a) ==
    /\ Up /\ mgr[a].op = "fetch"
    /\ \E ok \in BOOLEAN : SetOp(a, IF ok THEN "base" ELSE "failed")
    /\ UNCHANGED <<host, app, chk, hostSpent>>

\* baseStatus and commit take the mutex one after the other.
ReadBase(a) ==
    /\ Up /\ mgr[a].op = "base"
    /\ mgr' = [mgr EXCEPT ![a].op = "commit", ![a].base = mgr[a].shown]
    /\ UNCHANGED <<host, app, chk, hostSpent>>

\* The fetched release is newer, or the operation ends as a no-op.
Commit(a) ==
    /\ Up /\ mgr[a].op = "commit"
    /\ \E newer \in BOOLEAN :
         mgr' = [mgr EXCEPT ![a].shown = newer /\ mgr[a].base,
                            ![a].op = IF newer THEN "accept" ELSE "none",
                            ![a].token = newer]
    /\ UNCHANGED <<host, app, chk, hostSpent>>

\* applyAccepted: a request arms the barrier, the startup apply has it open.
Accept(a) ==
    /\ Up /\ mgr[a].op = "accept"
    /\ \E b \in {"armed", "open"} :
         mgr' = [mgr EXCEPT ![a].op = "barrier", ![a].shown = TRUE, ![a].barrier = b,
                            ![a].torn = FALSE]
    /\ chk' = [chk EXCEPT ![a].torn = chk[a].pc = "read"]
    /\ UNCHANGED <<host, app, hostSpent>>

ResponseFlushed(a) ==
    /\ Up /\ mgr[a].barrier = "armed"
    /\ mgr' = [mgr EXCEPT ![a].barrier = "open"]
    /\ UNCHANGED <<host, app, chk, hostSpent>>

\* Mutant: a lost flush is waited for.
AwaitBarrierForever(a) ==
    /\ Up /\ mgr[a].op = "barrier" /\ mgr[a].barrier = "open"
    /\ SetOp(a, "drain")
    /\ app' = [app EXCEPT ![a].listen = FALSE]
    /\ UNCHANGED <<host, chk, hostSpent>>

\* awaitBarrier ends with the flush or with its own timer; Shutdown then
\* closes the listener, before anything is downloaded.
AwaitBarrier(a) ==
    /\ Up /\ mgr[a].op = "barrier"
    /\ SetOp(a, "drain")
    /\ app' = [app EXCEPT ![a].listen = FALSE]
    /\ UNCHANGED <<host, chk, hostSpent>>

Drain(a) ==
    /\ Up /\ mgr[a].op = "drain"
    /\ \E timeout \in BOOLEAN :
         /\ Drained(a, timeout)
         /\ app' = [app EXCEPT ![a].forced = @ \/ timeout]
    /\ SetOp(a, "close")
    /\ UNCHANGED <<host, chk, hostSpent>>

\* Mutant: an aborted join is not an error.
CloseServiceAnyway(a) ==
    /\ Up /\ mgr[a].op = "close"
    /\ \E timeout \in BOOLEAN :
         /\ MayClose(a, timeout)
         /\ app' = ServiceClosed(a, timeout)
         /\ SetOp(a, "download")
    /\ UNCHANGED <<host, chk, hostSpent>>

\* Service.Close runs in any case; the drain's error comes first.
CloseService(a) ==
    /\ Up /\ mgr[a].op = "close"
    /\ \E timeout \in BOOLEAN :
         /\ MayClose(a, timeout)
         /\ app' = ServiceClosed(a, timeout)
         /\ SetOp(a, IF app[a].forced \/ app'[a].service = "aborted"
                     THEN "failed" ELSE "download")
    /\ UNCHANGED <<host, chk, hostSpent>>

\* Download, verification, activation and handoff, each of which may fail.
Pipeline(a) ==
    /\ Up
    /\ \E step \in {<<"download", "activate">>, <<"activate", "handoff">>} :
         /\ mgr[a].op = step[1]
         /\ \E ok \in BOOLEAN : SetOp(a, IF ok THEN step[2] ELSE "failed")
    /\ UNCHANGED <<host, app, chk, hostSpent>>

\* exitProcess ends whatever the process is doing.
HandoffExits(a) ==
    /\ Up /\ mgr[a].op = "handoff"
    /\ host' = [host EXCEPT !.state = "handed off", !.cur = a]
    /\ UNCHANGED <<app, mgr, chk, hostSpent>>

\* Mutant: the status keeps announcing the operation.
FinishOperationSilently(a) ==
    /\ Up /\ mgr[a].op = "failed"
    /\ mgr' = [mgr EXCEPT ![a] = [NoOperation EXCEPT !.failed = TRUE, !.shown = mgr[a].shown]]
    /\ UNCHANGED <<host, app, chk, hostSpent>>

\* finishOperation: token, barrier and announcement go, the failure is
\* published (a service that is stopping drops it).
FinishOperation(a) ==
    /\ Up /\ mgr[a].op = "failed"
    /\ mgr' = [mgr EXCEPT ![a] = [NoOperation EXCEPT !.failed = TRUE]]
    /\ chk' = [chk EXCEPT ![a].torn = chk[a].pc = "read" /\ chk[a].base]
    /\ UNCHANGED <<host, app, hostSpent>>

\* A check of the loop, or of a request, beside the operation: what it read of
\* the announcement may be outdated when it commits.
CheckReads(a) ==
    /\ Up /\ app[a].service # "none" /\ chk[a].pc = "off"
    /\ hostSpent.checks < MaxChecks
    /\ chk' = [chk EXCEPT ![a] = [pc |-> "read", base |-> mgr[a].shown, torn |-> FALSE]]
    /\ hostSpent' = [hostSpent EXCEPT !.checks = @ + 1]
    /\ UNCHANGED <<host, app, mgr>>

CheckCommits(a) ==
    /\ Up /\ chk[a].pc = "read"
    /\ mgr' = [mgr EXCEPT ![a].shown = chk[a].base,
                          ![a].torn = @ \/ chk[a].torn]
    /\ chk' = [chk EXCEPT ![a] = NoCheck]
    /\ UNCHANGED <<host, app, hostSpent>>

-----------------------------------------------------------------------------
(* The hosts.                                                              *)

\* runServe once; the Supervisor from stopped (a failed start is stopped too).
HostStarts ==
    /\ host.state = "stopped" /\ host.built < MaxApps
    /\ host.kind = "serve" => host.built = 0
    /\ host' = [host EXCEPT !.state = "starting"]
    /\ UNCHANGED <<app, mgr, chk, hostSpent>>

\* The composition is assembled and serves, or the start fails.
AppServes ==
    /\ host.state = "starting"
    /\ \/ /\ host' = [host EXCEPT !.state = "running", !.cur = host.built + 1,
                                  !.built = @ + 1]
          /\ app' = [app EXCEPT ![host.built + 1] = NewApp]
       \/ /\ host' = [host EXCEPT !.state = IF host.kind = "serve" THEN "returned"
                                            ELSE "stopped"]
          /\ app' = app
    /\ UNCHANGED <<mgr, chk, hostSpent>>

\* A signal, Stop or Quit: Shutdown closes the listener.
HostStops ==
    /\ host.state = "running"
    /\ host' = [host EXCEPT !.state = "draining"]
    /\ app' = [app EXCEPT ![host.cur].listen = FALSE]
    /\ UNCHANGED <<mgr, chk, hostSpent>>

HostDrains ==
    /\ host.state = "draining"
    /\ \E timeout \in BOOLEAN :
         /\ Drained(host.cur, timeout)
         /\ app' = [app EXCEPT ![host.cur].forced = @ \/ timeout]
    /\ host' = [host EXCEPT !.state = IF host.kind = "serve" THEN "waiting" ELSE "stopping"]
    /\ UNCHANGED <<mgr, chk, hostSpent>>

\* Serve returns when its listener is closed, also by the coordinator, and
\* runServe then waits for the operation to end, or for its timer.
ServeReturns ==
    /\ host.kind = "serve" /\ host.state = "running" /\ ~app[host.cur].listen
    /\ host' = [host EXCEPT !.state = "waiting"]
    /\ UNCHANGED <<app, mgr, chk, hostSpent>>

WaitIdle ==
    /\ host.state = "waiting"
    /\ host' = [host EXCEPT !.state = "stopping"]
    /\ UNCHANGED <<app, mgr, chk, hostSpent>>

\* App.Close ends the host: the process, or only the App of the desktop.  The
\* desktop gives Shutdown and Close one deadline between them, so that after a
\* drain that used it up Close may give up before it closes anything.
HostCloses ==
    /\ host.state = "stopping"
    /\ \/ \E timeout \in BOOLEAN :
            /\ MayClose(host.cur, timeout)
            /\ app' = ServiceClosed(host.cur, timeout)
       \/ /\ host.kind = "gui" /\ app[host.cur].forced
          /\ app' = app
    /\ host' = [host EXCEPT !.state = IF host.kind = "serve" THEN "returned" ELSE "stopped",
                            !.cur = IF host.kind = "serve" THEN @ ELSE 0]
    /\ UNCHANGED <<mgr, chk, hostSpent>>

\* Quit stops a running server first; in any other state Stop refuses and the
\* application ends at once.
HostQuits ==
    /\ host.kind = "gui" /\ Up /\ host.state # "running"
    /\ host' = [host EXCEPT !.state = "quit"]
    /\ UNCHANGED <<app, mgr, chk, hostSpent>>

OperationStep(a) ==
    \/ Fetch(a) \/ ReadBase(a) \/ Commit(a) \/ Accept(a) \/ AwaitBarrier(a)
    \/ Drain(a) \/ CloseService(a) \/ Pipeline(a) \/ HandoffExits(a) \/ FinishOperation(a)

HostStep == AppServes \/ HostDrains \/ ServeReturns \/ WaitIdle \/ HostCloses

HostNext ==
    \/ HostStarts \/ HostStops \/ HostQuits \/ HostStep
    \/ \E a \in Apps : \/ OperationStep(a) \/ BeginOperation(a) \/ ResponseFlushed(a)
                       \/ CheckReads(a) \/ CheckCommits(a)
                       \/ HandlerEnters(a) \/ HandlerLeaves(a) \/ HandlerSavesJob(a)
                       \/ HandlerSpawnsWork(a) \/ WorkEnds(a)

\* Operations and the host's own steps are bounded by deadlines; nothing makes
\* a handler or a worker end.
HostFairness ==
    /\ \A a \in Apps : WF_hostVars(OperationStep(a))
    /\ WF_hostVars(HostStep)

-----------------------------------------------------------------------------
(* Properties.                                                             *)

\* The repository never closes under a goroutine of the service, whatever the
\* coordinator, a signal, Stop and a request do at the same time; only a drain
\* that timed out leaves a handler that may start one afterwards.
ClosedMeansJoined ==
    \A a \in Apps : app[a].service = "closed" => ~app[a].work \/ app[a].forced

\* The process that hands over has drained its own App: no handler, no worker,
\* a closed repository.
HandoffIsDrained ==
    host.state = "handed off" =>
        LET a == app[host.cur]
        IN  a.handler = "none" /\ ~a.work /\ a.service = "closed"

\* The announced state is the true one, unless a check was between its two
\* looks at the status when an operation was accepted or ended.
ShownIsTrue ==
    \A a \in Apps : \/ mgr[a].torn
                    \/ /\ mgr[a].op \in Accepted => mgr[a].shown
                       /\ mgr[a].shown => mgr[a].op \in Accepted \cup {"failed"}

\* Every accepted or refused operation gives its token back or ends the process.
OperationsEnd == \A a \in Apps : mgr[a].token ~> (~mgr[a].token \/ ~Up)

\* What a host promises of its service at every moment.
HostSafe == HostTypeOK /\ ClosedMeansJoined /\ HandoffIsDrained /\ ShownIsTrue
=============================================================================
