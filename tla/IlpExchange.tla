---------------------------- MODULE IlpExchange ----------------------------
(***************************************************************************)
(* The exchange between the daemon's window thread, when the mapping is    *)
(* MAPPING_ILP, and the ILP server (src/ilp_server): connecting with       *)
(* retries, the request, the solver thread and its timeout, the answer.    *)
(*                                                                         *)
(* Requests are numbered; a request has a connection of its own.  What the *)
(* solver finds is any member of Placements (IlpPlacement is about that).  *)
(* The bytes of an int on the connection are halves, low half first: a     *)
(* read of an int may return one of them.  The request and the packet      *)
(* before the ints arrive whole or not at all.                             *)
(***************************************************************************)
EXTENDS TierInfo, FiniteSets

CONSTANTS
  NrRegions,        \* nr_regions, the same in every window
  Solutions,        \* bound: the placements the solver may find, by index
  MaxRequests,      \* bound: windows, over all daemons
  MaxDaemons,       \* bound: how often a daemon is started
  MaxRetries,       \* the 3000 retries of connect
  MaxTears,         \* bound: ints torn apart on their way to the daemon
  ScriptMayFail,    \* start_fresh_ilp_server.sh may leave the old server
  RemoteMode        \* REMOTE_MODE: connect may fail for other reasons

Regions == 1..NrRegions
Requests == 1..MaxRequests

ASSUME ExchangeAssumption ==
  /\ NrRegions \in Nat \ {0}
  /\ Solutions # {} /\ Solutions \subseteq [Regions -> 0..NrTiers - 1]
  /\ MaxRequests \in Nat /\ MaxDaemons \in Nat
  /\ MaxRetries \in Nat /\ MaxTears \in Nat
  /\ ScriptMayFail \in BOOLEAN /\ RemoteMode \in BOOLEAN

VARIABLES
  cpc,              \* where process_regions is, or "idle", or "ended"
  dst,              \* dst_virt_tier of each region
  before,           \* history: dst when the request was made
  req,              \* the number of the last request
  retries,          \* connect retries left
  next,             \* the region whose tier is read next
  failed,           \* DataPacket::failed, as received
  daemons,          \* daemons started so far
  tears,            \* ints torn apart so far
  backlog,          \* connections of the server's queue, not yet accepted
  sent,             \* requests that were sent to their end
  header,           \* DataPacket on the way to the daemon
  down,             \* halves of ints on the way to the daemon
  reset,            \* the connection has ended on the server's side
  spc,              \* where the server's main is, or "down", or "starting"
  sfor,             \* the request whose connection is new_socket
  dp,               \* dp is not null
  placed,           \* skd_ilp->dst_tiers
  snext,            \* the region whose tier is written next
  solver,           \* the solver thread of each request
  solved            \* history: what was found for request `req'

daemonVars == <<cpc, dst, before, req, retries, next, failed, daemons, tears>>
netVars == <<backlog, sent, header, down, reset>>
serverVars == <<spc, sfor, dp, placed, snext, solver, solved>>
vars == <<daemonVars, netVars, serverVars>>

DST_IGNORE == -3

\* Ints as two halves, and back.
Half == 65536
Halves(v) == <<v % Half, (v \div Half) % Half>>
IntOf(low, high) == (IF high >= Half \div 2 THEN high - Half ELSE high) * Half + low

Init ==
  /\ cpc = "ended"
  /\ dst = [r \in Regions |-> NoTier] /\ before = dst
  /\ req = 0 /\ retries = 0 /\ next = 1 /\ failed = FALSE
  /\ daemons = 0 /\ tears = 0
  /\ backlog = <<>> /\ sent = {} /\ header = "none" /\ down = <<>>
  /\ reset = FALSE
  /\ spc = "down" /\ sfor = 0 /\ dp = FALSE /\ placed = <<>> /\ snext = 1
  /\ solver = [q \in Requests |-> "none"] /\ solved = <<>>

(***************************************************************************)
(* The daemon.                                                             *)
(***************************************************************************)

Asking == {"connect", "send", "receive", "regions"}
Listening == spc \notin {"down", "starting"}
Active(q) == solver[q] \in {"running", "placed"}

\* What is left of a server process that ends: its threads end with it.
Stopped == [q \in Requests |-> IF Active(q) THEN "done" ELSE solver[q]]

\* start_fresh_ilp_server.sh kills the server there is and has a new one
\* started, which may take its time.  Its result is only printed.
Replaces_IfDown(works) == works /\ spc = "down"
Replaces(works) == works

StartDaemon ==
  /\ cpc = "ended" /\ daemons < MaxDaemons
  /\ daemons' = daemons + 1
  /\ cpc' = "idle"
  /\ dst' = [r \in Regions |-> NoTier]
  /\ \E works \in {TRUE, ~ScriptMayFail} :
       LET new == Replaces(works)
       IN  /\ spc' = IF new THEN "starting" ELSE spc
           /\ solver' = IF new THEN Stopped ELSE solver
           /\ dp' = (dp /\ ~new)
           /\ placed' = IF new THEN <<>> ELSE placed
           /\ backlog' = IF new THEN <<>> ELSE backlog
  /\ UNCHANGED <<before, req, retries, next, failed, tears, sent, header, down,
                 reset, sfor, snext, solved>>

\* process_regions begins; the connection is a new one.
Ask ==
  /\ cpc = "idle" /\ req < MaxRequests
  /\ cpc' = "connect"
  /\ req' = req + 1
  /\ retries' = MaxRetries
  /\ before' = dst
  /\ next' = 1
  /\ header' = "none" /\ down' = <<>> /\ reset' = FALSE
  /\ solved' = <<>>
  /\ UNCHANGED <<dst, failed, daemons, tears, backlog, sent,
                 spc, sfor, dp, placed, snext, solver>>

\* connect succeeds as soon as the server listens; accept comes later.
Connect ==
  /\ cpc = "connect" /\ Listening
  /\ cpc' = "send"
  /\ backlog' = Append(backlog, req)
  /\ UNCHANGED <<dst, before, req, retries, next, failed, daemons, tears,
                 sent, header, down, reset, serverVars>>

Refused ==
  /\ cpc = "connect" /\ ~Listening /\ retries > 0
  /\ retries' = retries - 1
  /\ UNCHANGED <<cpc, dst, before, req, next, failed, daemons, tears, netVars,
                 serverVars>>

\* process_regions returns -1, and its caller ends the daemon.
GiveUp ==
  /\ cpc = "connect"
  /\ RemoteMode \/ (~Listening /\ retries = 0)
  /\ cpc' = "ended"
  /\ UNCHANGED <<dst, before, req, retries, next, failed, daemons, tears,
                 netVars, serverVars>>

\* The results of send are not looked at; on a connection that was reset a
\* send may end the daemon (SIGPIPE).
Send ==
  /\ cpc = "send"
  /\ cpc' \in {"receive"} \union (IF reset THEN {"ended"} ELSE {})
  /\ sent' = IF cpc' = "receive" THEN sent \union {req} ELSE sent
  /\ UNCHANGED <<dst, before, req, retries, next, failed, daemons, tears,
                 backlog, header, down, reset, serverVars>>

\* If nothing can be read, the packet stays as its constructor made it.
ReceiveHeader ==
  /\ cpc = "receive" /\ (header # "none" \/ reset)
  /\ failed' = (header = "failed")
  /\ cpc' = "regions"
  /\ UNCHANGED <<dst, before, req, retries, next, daemons, tears, netVars,
                 serverVars>>

\* A read returns n halves: both, one, or none on a connection that has ended.
MayRead(n) ==
  /\ n <= Len(down)
  /\ n = 0 => (reset /\ down = <<>>)
  /\ (n = 1 /\ Len(down) > 1) => tears < MaxTears

\* An int of which the first n halves have been read.
Overlaid(old, n) ==
  CASE n = 0 -> old
    [] n = 1 -> IntOf(down[1], Halves(old)[2])
    [] n = 2 -> IntOf(down[1], down[2])

InRange_Any(v) == v < NrTiers
InRange(v) == v \in 0..NrTiers - 1

Taken_AsIs(v) == v
Taken(v) == IdOf(v)

\* The tier of a region is read into dst_virt_tier, whatever it held.  One out
\* of range is thrown as a char pointer, which nobody catches.  After a
\* failure the ints are read and ignored.
ReceiveRegion ==
  /\ cpc = "regions" /\ next <= NrRegions
  /\ \E n \in 0..2 :
       /\ MayRead(n)
       /\ down' = SubSeq(down, n + 1, Len(down))
       /\ tears' = IF n = 1 /\ Len(down) > 1 THEN tears + 1 ELSE tears
       /\ LET v == Overlaid(dst[next], n)
          IN  /\ cpc' = IF failed \/ InRange(v) THEN "regions" ELSE "ended"
              /\ dst' = IF failed \/ ~InRange(v) THEN dst
                        ELSE [dst EXCEPT ![next] = Taken(v)]
  /\ next' = next + 1
  /\ UNCHANGED <<before, req, retries, failed, daemons, backlog, sent, header,
                 reset, serverVars>>

\* process_regions closes and returns; -1 ends the daemon.
Return ==
  /\ cpc = "regions" /\ next > NrRegions
  /\ cpc' = IF failed THEN "ended" ELSE "idle"
  /\ UNCHANGED <<dst, before, req, retries, next, failed, daemons, tears,
                 netVars, serverVars>>

\* The pushers carry out some of the recommendations, or fix_regions makes
\* the regions anew.
Migrate ==
  /\ cpc = "idle"
  /\ \E gone \in SUBSET {r \in Regions : dst[r] # NoTier} \ {{}} :
       dst' = [r \in Regions |-> IF r \in gone THEN NoTier ELSE dst[r]]
  /\ UNCHANGED <<cpc, before, req, retries, next, failed, daemons, tears,
                 netVars, serverVars>>

\* The target exits, or the daemon is told to stop: main ends the process.
DaemonEnds ==
  /\ cpc # "ended"
  /\ cpc' = "ended"
  /\ UNCHANGED <<dst, before, req, retries, next, failed, daemons, tears,
                 netVars, serverVars>>

(***************************************************************************)
(* The server.                                                             *)
(***************************************************************************)

\* Nobody reads from the connection of request q any more.
Gone(q) == q # req \/ cpc \notin Asking

\* The SKD_ILP of request `sfor' exists.
HasObject == spc \in {"solve", "header", "send"}

\* init_connection; the process exits if it cannot listen, or if the
\* threshold it was given is not between 0 and 1.
Listen ==
  /\ spc = "starting"
  /\ spc' \in {"accept", "down"}
  /\ UNCHANGED <<daemonVars, netVars, sfor, dp, placed, snext, solver, solved>>

Accept ==
  /\ spc = "accept" /\ backlog # <<>>
  /\ spc' = "read"
  /\ sfor' = Head(backlog)
  /\ backlog' = Tail(backlog)
  /\ UNCHANGED <<daemonVars, sent, header, down, reset, dp, placed, snext,
                 solver, solved>>

\* What main sets up for a request: dp and a new SKD_ILP.
Fresh_KeepsOld == [dp |-> dp, placed |-> placed]
Fresh == [dp |-> FALSE, placed |-> <<>>]

\* read_data takes what there is, also from a client that has gone; then a
\* thread is started to solve it.
ReadData ==
  /\ spc = "read" /\ (sfor \in sent \/ Gone(sfor))
  /\ spc' = "solve"
  /\ dp' = Fresh.dp /\ placed' = Fresh.placed
  /\ solver' = [solver EXCEPT ![sfor] = "running"]
  /\ UNCHANGED <<daemonVars, netVars, sfor, snext, solved>>

\* The solver of q writes dst_tiers.  The SKD_ILP of an abandoned solver has
\* been deleted: the write may hit that of a later request, or nothing.
SolverPlaces(q) ==
  /\ solver[q] = "running"
  /\ \E s \in Solutions :
       /\ placed' \in IF ~HasObject THEN {placed}
                      ELSE IF q = sfor THEN {s} ELSE {s, placed}
       /\ solved' = IF q = req THEN s ELSE solved
  /\ solver' = [solver EXCEPT ![q] = "placed"]
  /\ UNCHANGED <<daemonVars, netVars, spc, sfor, dp, snext>>

\* ... and dp, which is the same variable of main in every turn of its loop.
SolverPublishes(q) ==
  /\ solver[q] = "placed"
  /\ solver' = [solver EXCEPT ![q] = "done"]
  /\ dp' = TRUE
  /\ UNCHANGED <<daemonVars, netVars, spc, sfor, placed, snext, solved>>

\* Not optimal within the solver's own limit, or not feasible.
SolverFails(q) ==
  /\ solver[q] = "running"
  /\ solver' = [solver EXCEPT ![q] = "done"]
  /\ dp' = FALSE
  /\ UNCHANGED <<daemonVars, netVars, spc, sfor, placed, snext, solved>>

\* The states of the solver in which main stops waiting: the timeout is not
\* the solver's, which goes on.
WaitEnds_Done == {"done"}
WaitEnds == {"done", "running", "placed"}

Wait ==
  /\ spc = "solve" /\ solver[sfor] \in WaitEnds
  /\ spc' = "header"
  /\ UNCHANGED <<daemonVars, netVars, sfor, dp, placed, snext, solver, solved>>

\* send_results looks at dp and writes the packet.
SendHeader ==
  /\ spc = "header"
  /\ spc' = "send"
  /\ snext' = 1
  /\ placed' = IF dp THEN placed ELSE [r \in Regions |-> DST_IGNORE]
  /\ header' = IF Gone(sfor) THEN header ELSE IF dp THEN "ok" ELSE "failed"
  /\ UNCHANGED <<daemonVars, backlog, sent, down, reset, sfor, dp, solver, solved>>

\* One tier after the other.  A write from an empty dst_tiers fails (EFAULT)
\* and is not noticed.
SendRegion ==
  /\ spc = "send" /\ snext <= NrRegions
  /\ snext' = snext + 1
  /\ down' = IF Gone(sfor) \/ placed = <<>> THEN down
             ELSE down \o Halves(placed[snext])
  /\ UNCHANGED <<daemonVars, backlog, sent, header, reset, spc, sfor, dp, placed,
                 solver, solved>>

\* The connection stays open.
Cleanup ==
  /\ spc = "send" /\ snext > NrRegions
  /\ spc' = "accept"
  /\ placed' = <<>>
  /\ UNCHANGED <<daemonVars, netVars, sfor, dp, snext, solver, solved>>

\* The server is killed, interrupted, writes to a client that has gone, or
\* uses memory it has freed.  What it has written may be lost from some point.
ServerEnds ==
  /\ spc # "down"
  /\ spc' = "down"
  /\ solver' = Stopped /\ dp' = FALSE /\ placed' = <<>> /\ backlog' = <<>>
  /\ reset' = (cpc \in Asking \ {"connect"})
  /\ \E k \in 0..Len(down) : down' = SubSeq(down, 1, k)
  /\ header' \in IF down' = <<>> THEN {header, "none"} ELSE {header}
  /\ UNCHANGED <<daemonVars, sent, sfor, snext, solved>>

(***************************************************************************)
(* The specification.                                                      *)
(***************************************************************************)

DaemonStep ==
  \/ Connect \/ Refused \/ GiveUp \/ Send
  \/ ReceiveHeader \/ ReceiveRegion \/ Return

ServerStep == Accept \/ ReadData \/ Wait \/ SendHeader \/ SendRegion \/ Cleanup

Solver(q) == SolverPlaces(q) \/ SolverPublishes(q) \/ SolverFails(q)

\* The end of the modelled behaviour.
Finished ==
  /\ cpc = "ended" /\ daemons = MaxDaemons
  /\ UNCHANGED vars

Next ==
  \/ StartDaemon \/ Ask \/ DaemonStep \/ Migrate \/ DaemonEnds
  \/ Listen \/ ServerStep \/ ServerEnds
  \/ \E q \in Requests : Solver(q)
  \/ Finished

Spec == Init /\ [][Next]_vars

\* The window thread and the server's main thread run, and time passes for
\* the timeout.  The solver need not ever finish.
Fairness == WF_vars(DaemonStep) /\ WF_vars(ServerStep)

FairSpec == Spec /\ Fairness

(***************************************************************************)
(* Properties.                                                             *)
(***************************************************************************)

TypeOK ==
  /\ cpc \in Asking \union {"idle", "ended"}
  /\ dst \in [Regions -> TierIds \union {NoTier}]
  /\ before \in [Regions -> TierIds \union {NoTier}]
  /\ req \in 0..MaxRequests
  /\ retries \in 0..MaxRetries
  /\ next \in 1..NrRegions + 1
  /\ failed \in BOOLEAN /\ dp \in BOOLEAN /\ reset \in BOOLEAN
  /\ daemons \in 0..MaxDaemons
  /\ tears \in 0..MaxTears
  /\ backlog \in Seq(Requests)
  /\ sent \subseteq Requests
  /\ header \in {"none", "ok", "failed"}
  /\ down \in Seq(0..Half - 1)
  /\ spc \in {"down", "starting", "accept", "read", "solve", "header", "send"}
  /\ sfor \in 0..MaxRequests
  /\ spc \in {"read", "solve", "header", "send"} => sfor # 0
  /\ placed \in {<<>>, [r \in Regions |-> DST_IGNORE]} \union Solutions
  /\ snext \in 1..NrRegions + 1
  /\ solver \in [Requests -> {"none", "running", "placed", "done"}]
  /\ solved \in {<<>>} \union Solutions

\* The solver that is still running after its request timed out writes to
\* memory that main reuses for the next request (dp, skd_ilp).  It never runs
\* beside a later request: the answer of a request that timed out ends the
\* daemon, and the next one replaces the server.
LateSolverAlone == \A q \in Requests : Active(q) => q = sfor

\* The service that the exchange provides, as the window thread sees it.
IdsOf(p) == [r \in DOMAIN p |-> IdOf(p[r])]
Status == IF cpc \in Asking THEN "waiting" ELSE cpc
Rec ==
  CASE cpc = "idle" -> dst
    [] cpc \in Asking -> before
    [] cpc = "ended" -> [r \in Regions |-> NoTier]
Answer == IF cpc \in Asking THEN IdsOf(solved) ELSE <<>>

Service == INSTANCE IlpService WITH
  Placements <- {IdsOf(s) : s \in Solutions},
  status <- Status, rec <- Rec, answer <- Answer

\* A request is answered by what was computed for it or the daemon ends,
\* whatever the server, the solver's timeout and the connection do.
ImplementsService == Service!Spec

\* The window thread is not left waiting: a solver that does not end, a
\* server that goes away and one that never comes up all give it an end.
Responsive == cpc \in Asking ~> cpc \in {"idle", "ended"}

\* `Receive updated objects from the server', in an `order [that] must be
\* maintained' (mapping_ilp.cpp): the tier a region is given by an answer was
\* computed for that region, or is the one it had before.
AnswersAreOwn ==
  cpc = "regions" /\ ~failed =>
    \A r \in 1..next - 1 :
      dst[r] = before[r] \/ (solved # <<>> /\ dst[r] = IdOf(solved[r]))

=============================================================================
