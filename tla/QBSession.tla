------------------------------- MODULE QBSession -------------------------------
(***************************************************************************)
(* The session of the qBittorrent adapter with its daemon: Client.login    *)
(* and Client.do, while the household edits the settings and the daemon    *)
(* ends sessions.  The daemon is external.                                 *)
(***************************************************************************)
EXTENDS Naturals

CONSTANT MaxSettings    \* bound: changes of the settings and ended sessions

ASSUME QBSessionAssumption == MaxSettings \in Nat

VARIABLES
    login,      \* the settings; what the client has of them; the session
    request,    \* a request on its way through do: [at, clean]
    settled     \* changes so far

qbSessionVars == <<login, request, settled>>

QBSessionInit ==
    /\ login = [set |-> "good", seen |-> "none", logged |-> FALSE, authless |-> FALSE,
                cookie |-> FALSE, valid |-> FALSE]
    /\ request = [at |-> "rest", clean |-> TRUE] /\ settled = 0

(* The household edits the settings, or the daemon forgets its sessions.   *)
(* Without credentials the daemon may be one that asks for none.           *)
SettingsChange ==
    /\ settled < MaxSettings /\ settled' = settled + 1
    /\ \/ \E s \in {"good", "wrong", "half", "none needed", "none"} :
             login' = [login EXCEPT !.set = s]
       \/ login' = [login EXCEPT !.valid = FALSE]
    /\ request' = [request EXCEPT !.clean = FALSE]

RequestBegins ==
    /\ request.at = "rest" /\ request' = [at |-> "login", clean |-> TRUE]
    /\ UNCHANGED <<login, settled>>

(* Settings that changed end the session.                                  *)
StillLogged == login.logged /\ login.seen = login.set

(* The second request is refused unsent to a client without credentials.   *)
Sends ==
    request' = [request EXCEPT !.at = IF @ = "login" THEN "send"
                                      ELSE IF login'.authless THEN "rejected" ELSE "resend"]
Refused == request' = [request EXCEPT !.at = "rejected"]
Logged(on, authless, cookie, valid) ==
    login' = [set |-> login.set, seen |-> login.set, logged |-> on,
              authless |-> authless, cookie |-> cookie, valid |-> valid]

(* A cookie of an earlier session counts as authenticated.                 *)
Login ==
    /\ request.at \in {"login", "again"}
    /\ \/ StillLogged /\ UNCHANGED login /\ Sends
       \/ /\ ~StillLogged /\ login.set \in {"none", "none needed"}
          /\ Logged(TRUE, TRUE, login.cookie, login.valid) /\ Sends
       \/ /\ ~StillLogged /\ login.set = "good"
          /\ Logged(TRUE, FALSE, TRUE, TRUE) /\ Sends
       \/ /\ ~StillLogged /\ login.set = "wrong"
          /\ Logged(login.cookie, FALSE, login.cookie, login.valid)
          /\ IF login.cookie THEN Sends ELSE Refused
       \/ /\ ~StillLogged /\ login.set = "half"
          /\ Refused /\ Logged(FALSE, FALSE, login.cookie, login.valid)
    /\ UNCHANGED settled

Answers == login.set = "none needed" \/ login.valid

\* Mutant: a 403 keeps the session it was refused with.
SendKeeping ==
    /\ request.at \in {"send", "resend"} /\ UNCHANGED <<settled, login>>
    /\ \/ Answers /\ request' = [request EXCEPT !.at = "answered"]
       \/ ~Answers /\ request.at = "send" /\ request' = [request EXCEPT !.at = "again"]
       \/ ~Answers /\ request.at = "resend" /\ Refused

(* do: a 403 drops the session and logs in again for a second request, the *)
(* last.                                                                   *)
Send ==
    /\ request.at \in {"send", "resend"} /\ UNCHANGED settled
    /\ \/ /\ Answers
          /\ request' = [request EXCEPT !.at = "answered"] /\ UNCHANGED login
       \/ /\ ~Answers /\ request.at = "send"
          /\ request' = [request EXCEPT !.at = "again"]
          /\ login' = [login EXCEPT !.logged = FALSE]
       \/ ~Answers /\ request.at = "resend" /\ Refused /\ UNCHANGED login

RequestEnds ==
    /\ request.at \in {"answered", "rejected"}
    /\ request' = [at |-> "rest", clean |-> TRUE]
    /\ UNCHANGED <<login, settled>>

QBSessionNext == SettingsChange \/ RequestBegins \/ Login \/ Send \/ RequestEnds

QBSessionSpec == QBSessionInit /\ [][QBSessionNext]_qbSessionVars

(* Right settings are enough: a request is refused for its session only    *)
(* when the settings do not let it in, or changed or expired on its way,   *)
(* whatever was logged in, forgotten or entered before.                    *)
RejectedForCause ==
    (request.at = "rejected" /\ request.clean) =>
       login.set \notin {"good", "none needed"}
================================================================================
