------------------------------ MODULE Dashboard ------------------------------
(***************************************************************************)
(* The dashboard server: it loads one snapshot of the evidence, checks it  *)
(* against the records it names, freezes what it will show and answers     *)
(* read requests from that, one handler thread per connection.             *)
(***************************************************************************)
EXTENDS Naturals, FiniteSets

CONSTANTS Clients,      \* who connects to the server
          Limits,       \* values of --max-requests, 0 for none
          MaxAsks,      \* requests in a behaviour
          MaxChanges    \* edits of the files, requests that fail

ASSUME LimitsAssumption == Limits \subseteq Nat
ASSUME BoundsAssumption == MaxAsks \in Nat /\ MaxChanges \in Nat

VARIABLES
  disk,      \* the versions of snapshot, records and assets in the repository
  view,      \* what the server has frozen
  phase,     \* "off", "loading", "ready", "closing", "closed" or "invalid"
  limit, turns,
  conn,      \* of each client: "none", "queued", "open", "asked", "refused" or "gone"
  query,     \* the request it waits for
  answer,    \* the last answer it got
  asks, changes

files   == <<disk, changes>>
server  == <<view, phase, limit, turns>>
clients == <<conn, query, answer, asks>>
dashboard == <<files, server, clients>>

Files    == {"snapshot", "records", "assets"}
Requests == {"read", "host", "route", "write"}
Nothing  == [snapshot |-> 0, assets |-> 0]

ServerInit ==
  /\ disk = [f \in Files |-> 1] /\ changes = 0
  /\ view = Nothing /\ phase = "off" /\ limit \in Limits /\ turns = 0
  /\ conn = [c \in Clients |-> "none"]
  /\ query = [c \in Clients |-> "read"]
  /\ answer = [c \in Clients |-> [status |-> 0, body |-> Nothing]]
  /\ asks = 0

-----------------------------------------------------------------------------
\* A snapshot names the digest of every record; one that differs from the
\* file is a drift, and nothing is served.
Valid(d) == d["snapshot"] = d["records"]

LoadSnapshot ==
  /\ phase = "off"
  /\ phase' = IF Valid(disk) THEN "loading" ELSE "invalid"
  /\ view' = IF Valid(disk) THEN [Nothing EXCEPT !.snapshot = disk["snapshot"]] ELSE Nothing
  /\ UNCHANGED <<files, limit, turns, clients>>

\* The assets are read later and have no digest; then the socket is bound.
Bind ==
  /\ phase = "loading"
  /\ phase' = "ready" /\ turns' = 0
  /\ view' = [view EXCEPT !.assets = disk["assets"]]
  /\ UNCHANGED <<files, limit, clients>>

Connect(c) ==
  /\ conn[c] = "none" /\ phase \in {"ready", "closing", "closed"}
  /\ conn' = [conn EXCEPT ![c] = IF phase = "ready" THEN "queued" ELSE "refused"]
  /\ UNCHANGED <<files, server, query, answer, asks>>

\* One turn of the server: a connection is given a thread, or, when the turns
\* are limited, the wait of ten seconds passes without one.
MayTurn == phase = "ready" /\ (limit = 0 \/ turns < limit)
Turn    == turns' = IF limit = 0 THEN turns ELSE turns + 1
Accept(c) ==
  /\ MayTurn /\ conn[c] = "queued" /\ Turn
  /\ conn' = [conn EXCEPT ![c] = "open"]
  /\ UNCHANGED <<files, view, phase, limit, query, answer, asks>>
\* Mutant of WaitPasses: a wait without a request is not counted.
WaitPassesUncounted ==
  /\ MayTurn /\ limit # 0 /\ UNCHANGED turns
  /\ \A c \in Clients : conn[c] # "queued"
  /\ UNCHANGED <<files, view, phase, limit, clients>>

WaitPasses ==
  /\ MayTurn /\ limit # 0 /\ Turn
  /\ \A c \in Clients : conn[c] # "queued"
  /\ UNCHANGED <<files, view, phase, limit, clients>>

\* A connection is kept open: more than one request may come on it.
Ask(c, q) ==
  /\ conn[c] = "open"
  /\ conn' = [conn EXCEPT ![c] = "asked"] /\ query' = [query EXCEPT ![c] = q]
  /\ UNCHANGED <<files, server, answer>>

Status(q) ==
  CASE q = "write" -> 405 [] q = "host" -> 421 [] q = "route" -> 404 [] q = "read" -> 200
Body(q) == IF q = "read" THEN view ELSE Nothing

Answer(c) ==
  /\ conn[c] = "asked"
  /\ conn' = [conn EXCEPT ![c] = "open"]
  /\ answer' = [answer EXCEPT ![c] = [status |-> Status(query[c]), body |-> Body(query[c])]]
  /\ UNCHANGED <<files, server, query, asks>>

\* The client closes its connection, and the handler ends.
Leave(c) ==
  /\ conn[c] \in {"open", "refused"}
  /\ conn' = [conn EXCEPT ![c] = IF conn[c] = "open" THEN "none" ELSE "gone"]
  /\ UNCHANGED <<files, server, query, answer, asks>>

\* What was not accepted is reset with the socket, and closing waits for the
\* handler threads.
Stop ==
  /\ phase = "ready"
  /\ phase' = "closing"
  /\ conn' = [c \in Clients |-> IF conn[c] = "queued" THEN "refused" ELSE conn[c]]
  /\ UNCHANGED <<files, view, limit, turns, query, answer, asks>>
\* Mutant of Handled: closing does not wait for the handlers.
HandledAnyhow == TRUE

Handled == \A c \in Clients : conn[c] \notin {"open", "asked"}
Close ==
  /\ phase = "closing" /\ Handled
  /\ phase' = "closed"
  /\ UNCHANGED <<files, view, limit, turns, clients>>

\* After the last turn the server stops; an interrupt may stop it at any time.
LastTurn  == limit # 0 /\ turns = limit /\ Stop
Interrupt == Stop

Edit ==
  /\ changes < MaxChanges /\ changes' = changes + 1
  /\ \E fs \in {{"records"}, {"snapshot", "records"}, {"assets"}} :
       disk' = [f \in Files |-> IF f \in fs THEN disk[f] + 1 ELSE disk[f]]
  /\ UNCHANGED <<server, clients>>

Handle(c) == Accept(c) \/ Answer(c)
Client(c) ==
  \/ (Connect(c) \/ Leave(c))
  \/ asks < MaxAsks /\ asks' = asks + 1 /\ \E q \in Requests : Ask(c, q)

-----------------------------------------------------------------------------
\* A request that was accepted is answered: the server does not close on it,
\* whether its last turn, an interrupt or a shutdown ends it
\* (dashboard_surface.py:286).
NothingCutOff == phase = "closed" => \A c \in Clients : conn[c] # "asked"
=============================================================================
