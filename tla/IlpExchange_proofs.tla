------------------------- MODULE IlpExchange_proofs -------------------------
(***************************************************************************)
(* Proofs about IlpExchange, for any number of regions, requests, daemons  *)
(* and retries, and any set of placements the solver may find.             *)
(***************************************************************************)
EXTENDS IlpExchange, SequenceTheorems, TLAPS

(***************************************************************************)
(* Types.                                                                  *)
(***************************************************************************)

\* The vector of tiers has an id of the table at each of its indices.
LEMMA IdsOfTable == NrTiers \in Nat /\ \A v \in 0..NrTiers - 1 : IdOf(v) \in TierIds
  <1>1. CASE EnableNtier
    <2>1. TierVector = <<0, 1, 10, 11, 12>> /\ NrTiers = 5
      BY <1>1 DEF TierVector, NrTiers
    <2>2. TierIds = {0, 1} \union {10 + i : i \in 0..2}
      BY <1>1 DEF TierIds, ByteTiers, CompressedTiers, COMPRESSED_TIERS_BASE,
                  FAST_NODE, SLOW_NODE
    <2>3. {0, 1, 10, 11, 12} \subseteq TierIds
      <3>1. 10 + 0 = 10 /\ 10 + 1 = 11 /\ 10 + 2 = 12
        OBVIOUS
      <3>2. 0 \in 0..2 /\ 1 \in 0..2 /\ 2 \in 0..2
        OBVIOUS
      <3> QED
        BY <2>2, <3>1, <3>2
    <2>4. ASSUME NEW v \in 0..4
          PROVE  TierVector[v + 1] \in {0, 1, 10, 11, 12}
      BY <2>1
    <2> QED
      BY <2>1, <2>3, <2>4 DEF IdOf
  <1>2. CASE ~EnableNtier
    <2>1. TierVector = <<0, 1>> /\ NrTiers = 2
      BY <1>2 DEF TierVector, NrTiers
    <2> QED
      BY <2>1 DEF IdOf, TierIds, ByteTiers, FAST_NODE, SLOW_NODE
  <1> QED
    BY <1>1, <1>2

\* Division with remainder.
LEMMA DivMod ==
  ASSUME NEW x \in Int, NEW h \in Nat \ {0}
  PROVE  /\ x \div h \in Int
         /\ x % h \in 0..h - 1
         /\ x = h * (x \div h) + (x % h)
  OBVIOUS

\* The quotient and the remainder of -1.
LEMMA MinusOne ==
  ASSUME NEW x \in Int, x = -1, NEW h \in Nat, h > 1
  PROVE  x \div h = -1 /\ x % h = h - 1
  <1>1. x \div h \in Int /\ x % h \in 0..h - 1 /\ x = h * (x \div h) + (x % h)
    BY DivMod
  <1>2. x \div h = -1
    BY <1>1
  <1> QED
    BY <1>1, <1>2

\* The two halves of an int.
LEMMA HalvesType ==
  ASSUME NEW v \in Int
  PROVE  Halves(v) \in Seq(0..Half - 1)
  <1>1. Half \in Nat \ {0}
    BY DEF Half
  <1>2. v % Half \in 0..Half - 1 /\ v \div Half \in Int
    BY <1>1, DivMod
  <1>3. (v \div Half) % Half \in 0..Half - 1
    BY <1>1, <1>2, DivMod
  <1> QED
    BY <1>2, <1>3 DEF Halves

\* A server process that ends leaves no solver of its own active.
LEMMA StoppedType ==
  ASSUME solver \in [Requests -> {"none", "running", "placed", "done"}]
  PROVE  /\ Stopped \in [Requests -> {"none", "running", "placed", "done"}]
         /\ \A q \in Requests : Stopped[q] \in {"none", "done"}
  BY DEF Stopped, Active

\* What is left of a sequence after some of it was read, or lost.
LEMMA PartType ==
  ASSUME NEW S, NEW s \in Seq(S), NEW m \in Nat \ {0}, NEW n \in 0..Len(s)
  PROVE  /\ SubSeq(s, m, n) \in Seq(S)
         /\ Len(SubSeq(s, m, n)) = IF m <= n THEN n - m + 1 ELSE 0
         /\ \A i \in 1..n - m + 1 : SubSeq(s, m, n)[i] = s[m + i - 1]
  <1>1. \A i \in m..n : s[i] \in S
    OBVIOUS
  <1>2. n \in Int /\ m \in Int
    OBVIOUS
  <1> QED
    BY <1>1, <1>2, SubSeqProperties

\* What the server has to write of a placement are ints.
LEMMA PlacedInts ==
  ASSUME TypeOK, placed # <<>>, NEW r \in Regions
  PROVE  placed[r] \in Int
  <1>1. CASE placed = [s \in Regions |-> DST_IGNORE]
    BY <1>1 DEF DST_IGNORE
  <1>2. CASE placed \in Solutions
    BY <1>2, ExchangeAssumption, IdsOfTable
  <1> QED
    BY <1>1, <1>2 DEF TypeOK

DaemonTypes ==
  /\ cpc \in Asking \union {"idle", "ended"}
  /\ dst \in [Regions -> TierIds \union {NoTier}]
  /\ before \in [Regions -> TierIds \union {NoTier}]
  /\ req \in 0..MaxRequests
  /\ retries \in 0..MaxRetries
  /\ next \in 1..NrRegions + 1
  /\ failed \in BOOLEAN
  /\ daemons \in 0..MaxDaemons
  /\ tears \in 0..MaxTears

NetTypes ==
  /\ backlog \in Seq(Requests)
  /\ sent \subseteq Requests
  /\ header \in {"none", "ok", "failed"}
  /\ down \in Seq(0..Half - 1)
  /\ reset \in BOOLEAN

ServerTypes ==
  /\ spc \in {"down", "starting", "accept", "read", "solve", "header", "send"}
  /\ sfor \in 0..MaxRequests
  /\ spc \in {"read", "solve", "header", "send"} => sfor # 0
  /\ dp \in BOOLEAN
  /\ placed \in {<<>>, [r \in Regions |-> DST_IGNORE]} \union Solutions
  /\ snext \in 1..NrRegions + 1
  /\ solver \in [Requests -> {"none", "running", "placed", "done"}]
  /\ solved \in {<<>>} \union Solutions

\* The types fall apart along the parts of the state.
LEMMA TypeParts == TypeOK <=> DaemonTypes /\ NetTypes /\ ServerTypes
  BY DEF TypeOK, DaemonTypes, NetTypes, ServerTypes

\* A daemon that asks has numbered its request.
Numbered == cpc \in Asking => req # 0

\* Every step keeps the types of the daemon's part.
LEMMA DaemonTypeNext == TypeOK /\ Numbered /\ [Next]_vars => DaemonTypes' /\ Numbered'
  <1> SUFFICES ASSUME TypeOK, Numbered, [Next]_vars
               PROVE  DaemonTypes' /\ Numbered'
    OBVIOUS
  <1>0. DaemonTypes
    BY TypeParts
  <1> USE ExchangeAssumption DEF DaemonTypes, Numbered, Asking
  <1>1. CASE StartDaemon
    BY <1>0, <1>1 DEF StartDaemon
  <1>2. CASE Ask
    BY <1>0, <1>2 DEF Ask
  <1>3. CASE Connect \/ Refused \/ GiveUp
    BY <1>0, <1>3 DEF Connect, Refused, GiveUp
  <1>4. CASE Send \/ ReceiveHeader \/ Return
    BY <1>0, <1>4 DEF Send, ReceiveHeader, Return
  <1>5. CASE ReceiveRegion
    <2>1. next \in Regions /\ next' \in 1..NrRegions + 1
      BY <1>0, <1>5 DEF ReceiveRegion, Regions
    <2>2. PICK n \in 0..2 :
            /\ MayRead(n)
            /\ tears' = IF n = 1 /\ Len(down) > 1 THEN tears + 1 ELSE tears
            /\ LET v == Overlaid(dst[next], n)
               IN  /\ cpc' = IF failed \/ InRange(v) THEN "regions" ELSE "ended"
                   /\ dst' = IF failed \/ ~InRange(v) THEN dst
                             ELSE [dst EXCEPT ![next] = Taken(v)]
      BY <1>5 DEF ReceiveRegion
    <2>3. dst' \in [Regions -> TierIds \union {NoTier}]
      <3>1. ASSUME NEW v, InRange(v)
            PROVE  Taken(v) \in TierIds
        BY <3>1, IdsOfTable DEF InRange, Taken
      <3> QED
        BY <1>0, <2>1, <2>2, <3>1
    <2>4. tears' \in 0..MaxTears
      BY <1>0, <2>2 DEF MayRead
    <2>5. cpc' \in {"regions", "ended"}
      BY <2>2
    <2> QED
      BY <1>0, <1>5, <2>1, <2>3, <2>4, <2>5 DEF ReceiveRegion
  <1>6. CASE Migrate
    BY <1>0, <1>6 DEF Migrate
  <1>7. CASE DaemonEnds
    BY <1>0, <1>7 DEF DaemonEnds
  <1>8. CASE UNCHANGED daemonVars
    BY <1>0, <1>8 DEF daemonVars
  <1>9. CASE Listen \/ ServerStep \/ ServerEnds \/ \E q \in Requests : Solver(q)
    <2>1. UNCHANGED daemonVars
      BY <1>9 DEF Listen, ServerStep, Accept, ReadData, Wait, SendHeader, SendRegion,
                  Cleanup, ServerEnds, Solver, SolverPlaces, SolverPublishes, SolverFails
    <2> QED
      BY <1>8, <2>1
  <1> QED
    BY <1>1, <1>2, <1>3, <1>4, <1>5, <1>6, <1>7, <1>8, <1>9
    DEF Next, DaemonStep, Finished, vars

\* Every step keeps the types of the connection's part.
LEMMA NetTypeNext == TypeOK /\ Numbered /\ [Next]_vars => NetTypes'
  <1> SUFFICES ASSUME TypeOK, Numbered, [Next]_vars
               PROVE  NetTypes'
    OBVIOUS
  <1>0. NetTypes /\ DaemonTypes /\ ServerTypes
    BY TypeParts
  <1>a. <<>> \in Seq(Requests) /\ <<>> \in Seq(0..Half - 1)
    OBVIOUS
  <1> USE DEF NetTypes
  <1> HIDE DEF Half
  <1>1. CASE StartDaemon \/ Ask
    BY <1>0, <1>1, <1>a DEF StartDaemon, Ask
  <1>2. CASE Connect
    <2>1. req \in Requests
      BY <1>0, <1>2, ExchangeAssumption DEF Connect, DaemonTypes, Numbered, Asking, Requests
    <2>2. Append(backlog, req) \in Seq(Requests)
      BY <1>0, <2>1
    <2> QED
      BY <1>0, <1>2, <2>2 DEF Connect
  <1>3. CASE Send
    <2>1. req \in Requests
      BY <1>0, <1>3, ExchangeAssumption DEF Send, DaemonTypes, Numbered, Asking, Requests
    <2> QED
      BY <1>0, <1>3, <2>1 DEF Send
  <1>4. CASE ReceiveRegion
    <2>1. PICK n \in 0..2 : n <= Len(down) /\ down' = SubSeq(down, n + 1, Len(down))
      BY <1>4 DEF ReceiveRegion, MayRead
    <2>2. n + 1 \in Nat \ {0} /\ Len(down) \in 0..Len(down)
      BY <1>0
    <2>3. down \in Seq(0..Half - 1)
      BY <1>0
    <2>4. SubSeq(down, n + 1, Len(down)) \in Seq(0..Half - 1)
      BY <2>2, <2>3, PartType
    <2> QED
      BY <1>0, <1>4, <2>1, <2>4 DEF ReceiveRegion
  <1>5. CASE Accept
    <2>1. Tail(backlog) \in Seq(Requests)
      BY <1>0, <1>5 DEF Accept
    <2> QED
      BY <1>0, <1>5, <2>1 DEF Accept
  <1>6. CASE SendHeader
    BY <1>0, <1>6 DEF SendHeader
  <1>7. CASE SendRegion
    <2>1. CASE Gone(sfor) \/ placed = <<>>
      BY <1>0, <1>7, <2>1 DEF SendRegion
    <2>2. CASE ~(Gone(sfor) \/ placed = <<>>)
      <3>1. snext \in Regions
        BY <1>0, <1>7, ExchangeAssumption DEF SendRegion, ServerTypes, Regions
      <3>2. Halves(placed[snext]) \in Seq(0..Half - 1)
        BY <2>2, <3>1, PlacedInts, HalvesType
      <3>3. down' = down \o Halves(placed[snext])
        BY <1>7, <2>2 DEF SendRegion
      <3>4. down' \in Seq(0..Half - 1)
        BY <1>0, <3>2, <3>3, ConcatProperties
      <3> QED
        BY <1>0, <1>7, <3>4 DEF SendRegion
    <2> QED
      BY <2>1, <2>2
  <1>8. CASE ServerEnds
    <2>1. PICK k \in 0..Len(down) : down' = SubSeq(down, 1, k)
      BY <1>8 DEF ServerEnds
    <2>2. down \in Seq(0..Half - 1) /\ 1 \in Nat \ {0}
      BY <1>0
    <2>3. down' \in Seq(0..Half - 1)
      BY <2>1, <2>2, PartType
    <2> QED
      BY <1>0, <1>8, <1>a, <2>3 DEF ServerEnds
  <1>9. CASE UNCHANGED netVars
    BY <1>0, <1>9 DEF netVars
  <1>10. CASE Refused \/ GiveUp \/ ReceiveHeader \/ Return \/ Migrate \/ DaemonEnds
    BY <1>9, <1>10 DEF Refused, GiveUp, ReceiveHeader, Return, Migrate, DaemonEnds
  <1>11. CASE Listen \/ ReadData \/ Wait \/ Cleanup \/ \E q \in Requests : Solver(q)
    BY <1>9, <1>11 DEF Listen, ReadData, Wait, Cleanup, Solver, SolverPlaces,
                       SolverPublishes, SolverFails, netVars
  <1> QED
    BY <1>1, <1>2, <1>3, <1>4, <1>5, <1>6, <1>7, <1>8, <1>9, <1>10, <1>11
    DEF Next, DaemonStep, ServerStep, Finished, vars

\* Every step keeps the types of the server's part.
LEMMA ServerTypeNext == TypeOK /\ [Next]_vars => ServerTypes'
  <1> SUFFICES ASSUME TypeOK, [Next]_vars
               PROVE  ServerTypes'
    OBVIOUS
  <1>0. ServerTypes /\ NetTypes
    BY TypeParts
  <1> USE DEF ServerTypes
  <1>1. CASE StartDaemon
    <2>1. PICK works \in {TRUE, ~ScriptMayFail} :
            /\ spc' = IF Replaces(works) THEN "starting" ELSE spc
            /\ solver' = IF Replaces(works) THEN Stopped ELSE solver
            /\ dp' = (dp /\ ~Replaces(works))
            /\ placed' = IF Replaces(works) THEN <<>> ELSE placed
      BY <1>1 DEF StartDaemon
    <2>2. UNCHANGED <<sfor, snext, solved>>
      BY <1>1 DEF StartDaemon
    <2> QED
      BY <1>0, <2>1, <2>2, StoppedType
  <1>2. CASE Ask
    BY <1>0, <1>2 DEF Ask
  <1>3. CASE Listen \/ Wait
    BY <1>0, <1>3 DEF Listen, Wait
  <1>4. CASE Accept
    <2>1. Head(backlog) \in Requests
      BY <1>0, <1>4 DEF Accept, NetTypes
    <2>2. sfor' \in 0..MaxRequests /\ sfor' # 0
      BY <1>4, <2>1, ExchangeAssumption DEF Accept, Requests
    <2> QED
      BY <1>0, <1>4, <2>2 DEF Accept
  <1>5. CASE ReadData
    BY <1>0, <1>5 DEF ReadData, Fresh
  <1>6. CASE SendHeader
    BY <1>0, <1>6, ExchangeAssumption DEF SendHeader
  <1>7. CASE SendRegion \/ Cleanup
    BY <1>0, <1>7, ExchangeAssumption DEF SendRegion, Cleanup
  <1>8. CASE ServerEnds
    <2>1. dp' = FALSE /\ placed' = <<>> /\ solver' = Stopped /\ spc' = "down"
      BY <1>8 DEF ServerEnds
    <2>2. UNCHANGED <<sfor, snext, solved>>
      BY <1>8 DEF ServerEnds
    <2> QED
      BY <1>0, <2>1, <2>2, StoppedType
  <1>9. ASSUME NEW q \in Requests, Solver(q)
        PROVE  ServerTypes'
    <2>1. CASE SolverPlaces(q)
      <3>1. PICK s \in Solutions :
              /\ placed' \in IF ~HasObject THEN {placed}
                             ELSE IF q = sfor THEN {s} ELSE {s, placed}
              /\ solved' = IF q = req THEN s ELSE solved
        BY <2>1 DEF SolverPlaces
      <3>2. placed' \in {s, placed} /\ solved' \in {s, solved}
        BY <3>1
      <3> QED
        BY <1>0, <2>1, <3>2 DEF SolverPlaces
    <2>2. CASE SolverPublishes(q) \/ SolverFails(q)
      BY <1>0, <2>2 DEF SolverPublishes, SolverFails
    <2> QED
      BY <1>9, <2>1, <2>2 DEF Solver
  <1>10. CASE UNCHANGED serverVars
    BY <1>0, <1>10 DEF serverVars
  <1>11. CASE DaemonStep \/ Migrate \/ DaemonEnds
    BY <1>10, <1>11 DEF DaemonStep, Connect, Refused, GiveUp, Send, ReceiveHeader,
                        ReceiveRegion, Return, Migrate, DaemonEnds
  <1> QED
    BY <1>1, <1>2, <1>3, <1>4, <1>5, <1>6, <1>7, <1>8, <1>9, <1>10, <1>11
    DEF Next, ServerStep, Finished, vars

\* The types hold throughout.
LEMMA ExchangeTypes == Spec => [](TypeOK /\ Numbered)
  <1>1. Init => TypeOK /\ Numbered
    <2> SUFFICES ASSUME Init
                 PROVE  TypeOK /\ Numbered
      OBVIOUS
    <2>1. <<>> \in Seq(Requests) /\ <<>> \in Seq(0..Half - 1)
      OBVIOUS
    <2>2. 0 \in 0..MaxRequests /\ 0 \in 0..MaxRetries /\ 0 \in 0..MaxDaemons
          /\ 0 \in 0..MaxTears /\ 1 \in 1..NrRegions + 1
      BY ExchangeAssumption
    <2>3. DaemonTypes /\ Numbered
      <3>1. dst \in [Regions -> TierIds \union {NoTier}] /\ before = dst
        BY DEF Init
      <3> QED
        BY <2>2, <3>1 DEF Init, DaemonTypes, Numbered, Asking
    <2>4. NetTypes
      BY <2>1 DEF Init, NetTypes
    <2>5. ServerTypes
      BY <2>2 DEF Init, ServerTypes
    <2> QED
      BY <2>3, <2>4, <2>5, TypeParts
  <1>2. TypeOK /\ Numbered /\ [Next]_vars => TypeOK' /\ Numbered'
    <2>1. DaemonTypes' /\ NetTypes' /\ ServerTypes' => TypeOK'
      BY DEF TypeOK, DaemonTypes, NetTypes, ServerTypes
    <2> QED
      BY <2>1, DaemonTypeNext, NetTypeNext, ServerTypeNext
  <1> QED
    BY <1>1, <1>2, PTL DEF Spec

\* Every state of the exchange is well typed: in particular the tiers that the
\* daemon takes from an answer are ids of its table, also when ints are torn.
THEOREM ExchangeTypeCorrect == Spec => []TypeOK
  BY ExchangeTypes, PTL

(***************************************************************************)
(* A solver that was abandoned never runs beside a later request, provided *)
(* that start_fresh_ilp_server.sh does replace the server.  A connection   *)
(* in the queue, and a request being served, is the last one, and has no   *)
(* answer yet; a solver that is active still is that request's, and if its *)
(* server went on without it, the daemon was sent a failure.               *)
(***************************************************************************)

Unanswered == cpc # "ended" => header = "none" /\ ~reset
Serving == {"read", "solve", "header"}

QueueInv ==
  backlog # <<>> =>
    /\ backlog = <<req>>
    /\ cpc \in {"send", "receive", "ended"}
    /\ Unanswered
    /\ spc \notin Serving \union {"down", "starting"}
    /\ \A q \in Requests : ~Active(q)

ServeInv ==
  spc \in Serving =>
    /\ sfor = req
    /\ cpc \in {"send", "receive", "ended"}
    /\ Unanswered

ConnectInv == cpc = "connect" => header = "none" /\ ~reset

SolverInv ==
  \A q \in Requests : Active(q) =>
    /\ q = sfor /\ q = req
    /\ ~dp
    /\ spc \notin {"down", "starting", "read"}
    /\ cpc \in {"send", "receive", "regions", "ended"}
    /\ cpc # "ended" => ~reset /\ header # "ok"
    /\ cpc = "regions" => failed

LateInv == QueueInv /\ ServeInv /\ ConnectInv /\ SolverInv

\* Every step keeps the abandoned solver alone.
LEMMA LateNext ==
  ASSUME ~ScriptMayFail, TypeOK, LateInv, [Next]_vars
  PROVE  LateInv'
  <1>0. ServerTypes /\ NetTypes /\ DaemonTypes
    BY TypeParts
  <1> USE DEF LateInv, QueueInv, ServeInv, ConnectInv, SolverInv, Unanswered,
              Serving, Active
  <1>1. CASE StartDaemon
    <2>1. /\ spc' = "starting" /\ solver' = Stopped /\ backlog' = <<>>
          /\ cpc' = "idle"
      BY <1>1 DEF StartDaemon, Replaces
    <2>2. \A q \in Requests : solver'[q] \in {"none", "done"}
      BY <1>0, <2>1, StoppedType DEF ServerTypes
    <2> QED
      BY <2>1, <2>2
  <1>2. CASE Ask
    <2>1. backlog' = <<>> /\ spc' \notin Serving /\ \A q \in Requests : ~Active(q)
      BY <1>2 DEF Ask
    <2>2. header' = "none" /\ reset' = FALSE
      BY <1>2 DEF Ask
    <2>3. \A q \in Requests : ~Active(q)'
      BY <1>2, <2>1 DEF Ask
    <2> QED
      BY <2>1, <2>2, <2>3
  <1>3. CASE Connect
    <2>1. backlog = <<>> /\ spc \notin Serving /\ \A q \in Requests : ~Active(q)
      BY <1>3 DEF Connect
    <2>2. backlog' = <<req>> /\ cpc' = "send" /\ req' = req
      BY <1>3, <2>1 DEF Connect
    <2>3. spc' = spc /\ spc \notin {"down", "starting"} /\ solver' = solver
      BY <1>3 DEF Connect, Listening, serverVars
    <2>4. header' = "none" /\ ~reset'
      BY <1>3 DEF Connect
    <2> QED
      BY <2>1, <2>2, <2>3, <2>4
  <1>4. CASE Refused \/ GiveUp \/ DaemonEnds
    BY <1>4 DEF Refused, GiveUp, DaemonEnds, netVars, serverVars
  <1>5. CASE Send
    BY <1>5 DEF Send, serverVars
  <1>6. CASE ReceiveHeader
    <2>1. backlog = <<>> /\ spc \notin Serving
      BY <1>6 DEF ReceiveHeader
    <2>2. failed' = (header = "failed") /\ cpc' = "regions"
      BY <1>6 DEF ReceiveHeader
    <2>3. UNCHANGED <<req, backlog, header, reset, spc, sfor, dp, solver>>
      BY <1>6 DEF ReceiveHeader, netVars, serverVars
    <2>4. ASSUME NEW q \in Requests, Active(q)
          PROVE  header = "failed"
      BY <1>0, <1>6, <2>4 DEF ReceiveHeader, NetTypes
    <2>5. SolverInv'
      BY <1>6, <2>2, <2>3, <2>4 DEF ReceiveHeader
    <2>6. QueueInv' /\ ServeInv' /\ ConnectInv'
      BY <2>1, <2>2, <2>3
    <2> QED
      BY <2>5, <2>6
  <1>7. CASE ReceiveRegion
    <2>1. cpc = "regions" /\ cpc' \in {"regions", "ended"}
      BY <1>7 DEF ReceiveRegion
    <2>2. UNCHANGED <<req, failed, backlog, header, reset, serverVars>>
      BY <1>7 DEF ReceiveRegion
    <2> QED
      BY <2>1, <2>2 DEF serverVars
  <1>8. CASE Return
    BY <1>8 DEF Return, netVars, serverVars
  <1>9. CASE Migrate
    BY <1>9 DEF Migrate, netVars, serverVars
  <1>10. CASE Listen
    BY <1>10 DEF Listen, daemonVars, netVars
  <1>11. CASE Accept
    <2>1. backlog = <<req>> /\ sfor' = req /\ backlog' = <<>>
      BY <1>11 DEF Accept
    <2>2. \A q \in Requests : ~Active(q)'
      BY <1>11 DEF Accept
    <2> QED
      BY <1>11, <2>1, <2>2 DEF Accept, daemonVars
  <1>12. CASE ReadData
    <2>1. backlog = <<>> /\ \A q \in Requests : ~Active(q)
      BY <1>12 DEF ReadData
    <2>2. \A q \in Requests : Active(q)' => q = sfor
      BY <1>0, <1>12, <2>1 DEF ReadData, ServerTypes
    <2>3. dp' = FALSE
      BY <1>12 DEF ReadData, Fresh
    <2> QED
      BY <1>12, <2>1, <2>2, <2>3 DEF ReadData, daemonVars, netVars
  <1>13. CASE Wait
    BY <1>13 DEF Wait, daemonVars, netVars
  <1>14. CASE SendHeader
    <2>1. backlog = <<>> /\ backlog' = <<>>
      BY <1>14 DEF SendHeader
    <2>2. cpc # "ended" => header' = IF dp THEN "ok" ELSE "failed"
      BY <1>14 DEF SendHeader, Gone, Asking
    <2>3. spc' = "send" /\ cpc # "connect"
      BY <1>14 DEF SendHeader
    <2>4. UNCHANGED <<daemonVars, reset, sfor, dp, solver>>
      BY <1>14 DEF SendHeader
    <2>5. \A q \in Requests : Active(q) => ~dp
      OBVIOUS
    <2> QED
      BY <2>1, <2>2, <2>3, <2>4, <2>5 DEF daemonVars
  <1>15. CASE SendRegion \/ Cleanup
    BY <1>15 DEF SendRegion, Cleanup, daemonVars, netVars
  <1>16. CASE ServerEnds
    <2>1. spc' = "down" /\ backlog' = <<>> /\ solver' = Stopped
      BY <1>16 DEF ServerEnds
    <2>2. \A q \in Requests : ~Active(q)'
      BY <1>0, <2>1, StoppedType DEF ServerTypes
    <2>3. cpc = "connect" => header' = "none" /\ ~reset'
      <3>1. header' \in {header, "none"}
        BY <1>16 DEF ServerEnds
      <3>2. reset' = (cpc \in Asking \ {"connect"})
        BY <1>16 DEF ServerEnds
      <3> QED
        BY <3>1, <3>2
    <2> QED
      BY <1>16, <2>1, <2>2, <2>3 DEF ServerEnds, daemonVars
  <1>17. ASSUME NEW q \in Requests, Solver(q)
         PROVE  LateInv'
    <2>1. Active(q)
      BY <1>17 DEF Solver, SolverPlaces, SolverPublishes, SolverFails
    <2>2. \A p \in Requests : Active(p)' => Active(p)
      BY <1>0, <1>17
      DEF Solver, SolverPlaces, SolverPublishes, SolverFails, ServerTypes
    <2>3. UNCHANGED <<daemonVars, netVars, spc, sfor>>
      BY <1>17 DEF Solver, SolverPlaces, SolverPublishes, SolverFails
    <2>4. dp' = dp \/ \A p \in Requests : ~Active(p)'
      BY <1>0, <1>17, <2>1
      DEF Solver, SolverPlaces, SolverPublishes, SolverFails, ServerTypes
    <2> HIDE DEF Active
    <2> QED
      BY <2>1, <2>2, <2>3, <2>4 DEF daemonVars, netVars
  <1>18. CASE UNCHANGED vars
    BY <1>18 DEF vars, daemonVars, netVars, serverVars
  <1> QED
    BY <1>1, <1>2, <1>3, <1>4, <1>5, <1>6, <1>7, <1>8, <1>9, <1>10, <1>11, <1>12,
       <1>13, <1>14, <1>15, <1>16, <1>17, <1>18
    DEF Next, DaemonStep, ServerStep, Finished

\* What the abandoned solver would write to belongs to no later request.
LEMMA LateAlways == ASSUME ~ScriptMayFail PROVE Spec => []LateInv
  <1>1. Init => LateInv
    BY DEF Init, LateInv, QueueInv, ServeInv, ConnectInv, SolverInv, Serving, Active
  <1>2. TypeOK /\ LateInv /\ [Next]_vars => LateInv'
    BY LateNext
  <1> QED
    BY <1>1, <1>2, ExchangeTypes, PTL DEF Spec

\* If the script does replace the server when a daemon starts, a solver that
\* is still active after its timeout is that of the last connection served:
\* no later request shares dp and skd_ilp with it.
THEOREM LateSolverIsAlone == ASSUME ~ScriptMayFail PROVE Spec => []LateSolverAlone
  <1>1. LateInv => LateSolverAlone
    BY DEF LateInv, SolverInv, LateSolverAlone
  <1> QED
    BY <1>1, LateAlways, PTL

(***************************************************************************)
(* The exchange implements the service, provided that the script replaces  *)
(* the server and ints arrive whole while the server lives.  The tiers on  *)
(* the connection are those that were found for the request, beginning     *)
(* with the region that is read next; a server that goes away leaves a     *)
(* beginning of them.                                                      *)
(***************************************************************************)

OrderInv ==
  /\ sfor <= req
  /\ cpc = "connect" \/ backlog # <<>> => sfor < req

OpenInv ==
  cpc \in {"connect", "send", "receive"} =>
    /\ next = 1
    /\ dst = before
    /\ header = "none" => down = <<>>
    /\ spc = "send" /\ sfor = req => header # "none"

ResetInv == reset /\ cpc \in Asking => spc = "down"

UnsolvedInv ==
  cpc \in Asking =>
    /\ cpc = "connect" \/ backlog # <<>> \/ spc = "read" => solved = <<>>
    /\ solver[req] = "running" => solved = <<>>

Found == solved # <<>> /\ placed = solved

ResultInv ==
  cpc \in Asking /\ spc \in {"solve", "header"} =>
    /\ solver[req] = "placed" => Found
    /\ dp => Found

\* The daemon has been sent an answer, or has gone on without one.
Answered ==
  \/ cpc \in {"send", "receive"} /\ header = "ok"
  \/ cpc = "regions" /\ ~failed

\* The region whose tier the i-th half on the connection belongs to.
RegionAt(i) == next + (i - 1) \div 2

StreamInv ==
  Answered =>
    /\ \A i \in 1..Len(down) :
         /\ solved # <<>>
         /\ RegionAt(i) <= NrRegions
         /\ down[i] = IF i % 2 = 1 THEN solved[RegionAt(i)] ELSE 0
    /\ spc = "send" /\ sfor = req =>
         Found /\ next <= snext /\ Len(down) = 2 * (snext - next)

AdoptInv ==
  cpc = "regions" =>
    \A r \in Regions :
      \/ dst[r] = before[r] /\ (r < next /\ ~failed => dst[r] # NoTier)
      \/ r < next /\ solved # <<>> /\ dst[r] = IdOf(solved[r])

AnswerInv ==
  /\ OrderInv /\ OpenInv /\ ResetInv
  /\ UnsolvedInv /\ ResultInv
  /\ StreamInv /\ AdoptInv

\* A placement that the solver finds gives every region a tier of the table.
LEMMA SolutionFacts ==
  ASSUME NEW s \in Solutions
  PROVE  /\ s # <<>> /\ DOMAIN s = Regions /\ Regions # {}
         /\ \A r \in Regions : s[r] \in 0..NrTiers - 1 /\ IdOf(s[r]) \in TierIds
  <1>1. s \in [Regions -> 0..NrTiers - 1]
    BY ExchangeAssumption
  <1>2. 1 \in Regions
    BY ExchangeAssumption DEF Regions
  <1>3. s # <<>>
    BY <1>1, <1>2
  <1> QED
    BY <1>1, <1>2, <1>3, IdsOfTable

\* The ids 0 and 1 are their own indices; no other id is an index.
LEMMA SmallIds ==
  ASSUME NEW v \in TierIds \union {NoTier}, v \in 0..NrTiers - 1
  PROVE  IdOf(v) = v
  <1>1. v \in {-1, 0, 1, 10, 11, 12}
    BY DEF TierIds, ByteTiers, CompressedTiers, COMPRESSED_TIERS_BASE, FAST_NODE,
           SLOW_NODE, NoTier
  <1>2. NrTiers <= 5
    BY DEF NrTiers, TierVector
  <1>3. v \in {0, 1}
    BY <1>1, <1>2, IdsOfTable
  <1>4. TierVector[0 + 1] = 0 /\ TierVector[1 + 1] = 1
    BY DEF TierVector
  <1> QED
    BY <1>3, <1>4 DEF IdOf

\* The halves of the index of a tier, and of what a region held before.
LEMMA HalvesOfTiers ==
  /\ NrTiers \in 0..5
  /\ \A v \in 0..5 : Halves(v) = <<v, 0>> /\ IntOf(v, 0) = v
  /\ \A v \in TierIds : Halves(v)[2] = 0
  /\ \A v \in 0..5 : IntOf(v, Halves(NoTier)[2]) < 0
  <1>1. NrTiers \in 0..5
    BY DEF NrTiers, TierVector
  <1>2. \A v \in 0..5 : v % 65536 = v /\ v \div 65536 = 0
    OBVIOUS
  <1>3. 0 % 65536 = 0 /\ 65536 \div 2 = 32768
    OBVIOUS
  <1>4. \A v \in 0..5 : Halves(v) = <<v, 0>> /\ IntOf(v, 0) = v
    BY <1>2, <1>3 DEF Halves, IntOf, Half
  <1>5. \A v \in TierIds : Halves(v)[2] = 0
    <2>1. TierIds \subseteq 0..12
      BY DEF TierIds, ByteTiers, CompressedTiers, COMPRESSED_TIERS_BASE, FAST_NODE,
             SLOW_NODE
    <2>2. \A v \in 0..12 : v \div 65536 = 0
      OBVIOUS
    <2> QED
      BY <2>1, <2>2, <1>3 DEF Halves, Half
  <1>6. Halves(NoTier)[2] = Half - 1
    <2>1. NoTier \in Int /\ NoTier = -1 /\ Half \in Nat /\ Half > 1
      BY DEF NoTier, Half
    <2>2. Halves(NoTier)[2] = (NoTier \div Half) % Half
      BY DEF Halves
    <2> HIDE DEF NoTier, Half
    <2>3. NoTier \div Half = -1
      BY <2>1, MinusOne
    <2>4. (NoTier \div Half) % Half = Half - 1
      BY <2>1, <2>3, MinusOne
    <2> QED
      BY <2>2, <2>4
  <1>7. \A v \in 0..5 : IntOf(v, Halves(NoTier)[2]) < 0
    BY <1>3, <1>6 DEF IntOf, Half
  <1> QED
    BY <1>1, <1>4, <1>5, <1>7

\* Every step keeps the order of the requests, and what is known before the
\* daemon has an answer.
LEMMA OpenNext ==
  ASSUME TypeOK, LateInv, OrderInv, OpenInv, [Next]_vars
  PROVE  OrderInv' /\ OpenInv'
  <1>0. DaemonTypes /\ NetTypes /\ ServerTypes
    BY TypeParts
  <1>a. req \in Nat /\ sfor \in Nat
    BY <1>0, ExchangeAssumption DEF DaemonTypes, ServerTypes
  <1> USE DEF OrderInv, OpenInv
  <1>1. CASE StartDaemon
    BY <1>1 DEF StartDaemon, Replaces
  <1>2. CASE Ask
    BY <1>2, <1>a DEF Ask
  <1>3. CASE Connect
    BY <1>3, <1>a DEF Connect, serverVars
  <1>4. CASE Refused \/ GiveUp \/ Return \/ Migrate \/ DaemonEnds
    BY <1>4, <1>a DEF Refused, GiveUp, Return, Migrate, DaemonEnds, netVars, serverVars
  <1>5. CASE Send
    BY <1>5, <1>a DEF Send, serverVars
  <1>6. CASE ReceiveHeader \/ ReceiveRegion
    BY <1>6, <1>a DEF ReceiveHeader, ReceiveRegion, netVars, serverVars
  <1>7. CASE Listen \/ Wait \/ Cleanup
    BY <1>7, <1>a DEF Listen, Wait, Cleanup, daemonVars, netVars
  <1>8. CASE Accept
    <2>1. backlog = <<req>> /\ cpc \in {"send", "receive", "ended"}
      BY <1>8 DEF Accept, LateInv, QueueInv
    <2>2. sfor' = req /\ backlog' = <<>>
      BY <1>8, <2>1 DEF Accept
    <2> QED
      BY <1>8, <1>a, <2>1, <2>2 DEF Accept, daemonVars
  <1>9. CASE ReadData
    BY <1>9, <1>a DEF ReadData, daemonVars, netVars
  <1>10. CASE SendHeader
    <2>1. cpc # "ended" => header' \in {"ok", "failed"}
      BY <1>10 DEF SendHeader, Gone, Asking, LateInv, ServeInv, Serving
    <2> QED
      BY <1>10, <1>a, <2>1 DEF SendHeader, daemonVars
  <1>11. CASE SendRegion
    <2>1. header = "none" /\ cpc \in {"connect", "send", "receive"} => down' = down
      BY <1>11 DEF SendRegion, Gone
    <2> QED
      BY <1>11, <1>a, <2>1 DEF SendRegion, daemonVars
  <1>12. CASE ServerEnds
    <2>1. spc' = "down" /\ backlog' = <<>> /\ UNCHANGED <<daemonVars, sfor>>
      BY <1>12 DEF ServerEnds
    <2>2. down = <<>> => down' = <<>>
      <3>1. PICK k \in 0..Len(down) : down' = SubSeq(down, 1, k)
        BY <1>12 DEF ServerEnds
      <3>2. ASSUME down = <<>>
            PROVE  down' = <<>>
        <4>1. k = 0
          BY <3>2
        <4> QED
          BY <3>1, <4>1, SubSeqEmpty
      <3> QED
        BY <3>2
    <2>3. header' \in IF down' = <<>> THEN {header, "none"} ELSE {header}
      BY <1>12 DEF ServerEnds
    <2> QED
      BY <1>a, <2>1, <2>2, <2>3 DEF daemonVars
  <1>13. ASSUME NEW q \in Requests, Solver(q)
         PROVE  OrderInv' /\ OpenInv'
    BY <1>13, <1>a DEF Solver, SolverPlaces, SolverPublishes, SolverFails, daemonVars,
                       netVars
  <1>14. CASE UNCHANGED vars
    BY <1>14 DEF vars, daemonVars, netVars, serverVars
  <1> QED
    BY <1>1, <1>2, <1>3, <1>4, <1>5, <1>6, <1>7, <1>8, <1>9, <1>10, <1>11, <1>12,
       <1>13, <1>14
    DEF Next, DaemonStep, ServerStep, Finished

\* A connection that was reset leaves no server behind while it is used.
LEMMA ResetNext ==
  ASSUME LateInv, ResetInv, [Next]_vars
  PROVE  ResetInv'
  <1> USE DEF ResetInv, Asking
  <1>1. CASE StartDaemon \/ Ask
    BY <1>1 DEF StartDaemon, Ask
  <1>2. CASE DaemonStep \/ Migrate \/ DaemonEnds
    BY <1>2 DEF DaemonStep, Connect, Refused, GiveUp, Send, ReceiveHeader,
                ReceiveRegion, Return, Migrate, DaemonEnds, netVars, serverVars,
                LateInv, ConnectInv
  <1>3. CASE Listen \/ ServerStep
    BY <1>3 DEF Listen, ServerStep, Accept, ReadData, Wait, SendHeader, SendRegion,
                Cleanup, daemonVars, netVars
  <1>4. CASE ServerEnds
    BY <1>4 DEF ServerEnds
  <1>5. ASSUME NEW q \in Requests, Solver(q)
        PROVE  ResetInv'
    BY <1>5 DEF Solver, SolverPlaces, SolverPublishes, SolverFails, daemonVars, netVars
  <1>6. CASE UNCHANGED vars
    BY <1>6 DEF vars, daemonVars, netVars, serverVars
  <1> QED
    BY <1>1, <1>2, <1>3, <1>4, <1>5, <1>6 DEF Next, Finished

\* A solver that takes a step is that of the last request, which has no answer.
LEMMA SolverFacts ==
  ASSUME LateInv, NEW q \in Requests, Solver(q)
  PROVE  /\ q = req /\ q = sfor /\ Active(q) /\ ~dp
         /\ backlog = <<>> /\ spc # "read" /\ cpc # "connect"
         /\ ~Answered
         /\ UNCHANGED <<daemonVars, netVars, spc, sfor, snext>>
  <1>1. Active(q)
    BY DEF Active, Solver, SolverPlaces, SolverPublishes, SolverFails
  <1>2. UNCHANGED <<daemonVars, netVars, spc, sfor, snext>>
    BY DEF Solver, SolverPlaces, SolverPublishes, SolverFails
  <1>3. q = sfor /\ q = req /\ ~dp /\ spc # "read" /\ cpc # "connect"
    BY <1>1 DEF LateInv, SolverInv
  <1>4. backlog = <<>>
    BY <1>1 DEF LateInv, QueueInv
  <1>5. ~Answered
    BY <1>1 DEF LateInv, SolverInv, Answered
  <1> QED
    BY <1>1, <1>2, <1>3, <1>4, <1>5

\* Every step keeps what was found for the request where the server looks.
LEMMA ResultNext ==
  ASSUME TypeOK, Numbered, LateInv, UnsolvedInv, ResultInv, [Next]_vars
  PROVE  UnsolvedInv' /\ ResultInv'
  <1>0. DaemonTypes /\ NetTypes /\ ServerTypes
    BY TypeParts
  <1> USE DEF UnsolvedInv, ResultInv, Found, Asking
  <1>1. CASE StartDaemon
    BY <1>1 DEF StartDaemon
  <1>2. CASE Ask
    <2>1. spc \notin {"solve", "header"}
      BY <1>2 DEF Ask, LateInv, ServeInv, Serving
    <2> QED
      BY <1>2, <2>1 DEF Ask
  <1>3. CASE Connect
    <2>1. spc \notin {"solve", "header"}
      BY <1>3 DEF Connect, LateInv, ServeInv, Serving
    <2> QED
      BY <1>3, <2>1 DEF Connect, serverVars
  <1>4. CASE Refused \/ GiveUp \/ Return \/ Migrate \/ DaemonEnds
    BY <1>4 DEF Refused, GiveUp, Return, Migrate, DaemonEnds, netVars, serverVars
  <1>5. CASE Send \/ ReceiveHeader \/ ReceiveRegion
    BY <1>5 DEF Send, ReceiveHeader, ReceiveRegion, netVars, serverVars
  <1>6. CASE Listen \/ Cleanup \/ SendRegion
    BY <1>6 DEF Listen, Cleanup, SendRegion, daemonVars, netVars
  <1>7. CASE Accept
    BY <1>7 DEF Accept, daemonVars
  <1>8. CASE ReadData
    <2>1. sfor = req /\ cpc # "connect" /\ sfor \in Requests
      BY <1>0, <1>8, ExchangeAssumption
      DEF ReadData, LateInv, ServeInv, Serving, ServerTypes, Requests
    <2>2. cpc \in Asking => solved = <<>>
      BY <1>8 DEF ReadData
    <2>3. solver'[req] = "running" /\ dp' = FALSE /\ spc' = "solve"
      BY <1>0, <1>8, <2>1 DEF ReadData, Fresh, ServerTypes
    <2>4. UNCHANGED <<daemonVars, netVars, solved>>
      BY <1>8 DEF ReadData
    <2> QED
      BY <2>2, <2>3, <2>4 DEF daemonVars, netVars
  <1>9. CASE Wait
    BY <1>9 DEF Wait, daemonVars, netVars
  <1>10. CASE SendHeader
    BY <1>10 DEF SendHeader, daemonVars
  <1>11. CASE ServerEnds
    <2>1. solver' = Stopped /\ spc' = "down" /\ backlog' = <<>>
          /\ UNCHANGED <<daemonVars, solved>>
      BY <1>11 DEF ServerEnds
    <2>2. req \in Requests => solver'[req] # "running"
      BY <1>0, <2>1, StoppedType DEF ServerTypes
    <2>3. cpc \in Asking => req \in Requests
      BY <1>0, ExchangeAssumption DEF DaemonTypes, Numbered, Requests
    <2> QED
      BY <2>1, <2>2, <2>3 DEF daemonVars
  <1>12. ASSUME NEW q \in Requests, Solver(q)
         PROVE  UnsolvedInv' /\ ResultInv'
    <2>1. /\ q = req /\ q = sfor /\ ~dp
          /\ backlog = <<>> /\ spc # "read" /\ cpc # "connect"
          /\ UNCHANGED <<daemonVars, netVars, spc, sfor>>
      BY <1>12, SolverFacts
    <2>2. CASE SolverPlaces(q)
      <3>1. PICK s \in Solutions :
              /\ placed' \in IF ~HasObject THEN {placed}
                             ELSE IF q = sfor THEN {s} ELSE {s, placed}
              /\ solved' = IF q = req THEN s ELSE solved
        BY <2>2 DEF SolverPlaces
      <3>2. solver'[req] = "placed" /\ dp' = dp
        BY <1>0, <2>1, <2>2 DEF SolverPlaces, ServerTypes
      <3>3. spc \in {"solve", "header"} => placed' = s /\ solved' = s
        BY <2>1, <3>1 DEF HasObject
      <3>4. s # <<>>
        BY SolutionFacts
      <3> QED
        BY <2>1, <3>2, <3>3, <3>4 DEF daemonVars, netVars
    <2>3. CASE SolverPublishes(q) \/ SolverFails(q)
      <3>1. solver'[req] = "done" /\ UNCHANGED <<placed, solved>>
        BY <1>0, <2>1, <2>3 DEF SolverPublishes, SolverFails, ServerTypes
      <3>2. dp' => solver[req] = "placed"
        BY <2>1, <2>3 DEF SolverPublishes, SolverFails
      <3> QED
        BY <2>1, <3>1, <3>2 DEF daemonVars, netVars
    <2> QED
      BY <1>12, <2>2, <2>3 DEF Solver
  <1>13. CASE UNCHANGED vars
    BY <1>13 DEF vars, daemonVars, netVars, serverVars
  <1> QED
    BY <1>1, <1>2, <1>3, <1>4, <1>5, <1>6, <1>7, <1>8, <1>9, <1>10, <1>11, <1>12, <1>13
    DEF Next, DaemonStep, ServerStep, Finished

\* A sequence after an int was read from its front.
LEMMA DropInt ==
  ASSUME NEW S, NEW s \in Seq(S), Len(s) >= 2
  PROVE  /\ Len(SubSeq(s, 3, Len(s))) = Len(s) - 2
         /\ \A i \in 1..Len(s) - 2 : SubSeq(s, 3, Len(s))[i] = s[i + 2]
  <1>1. 3 \in Nat \ {0} /\ Len(s) \in Nat /\ Len(s) \in 0..Len(s)
    OBVIOUS
  <1> DEFINE t == SubSeq(s, 3, Len(s))
             n == Len(s)
  <1>2. /\ Len(t) = IF 3 <= n THEN n - 3 + 1 ELSE 0
        /\ \A i \in 1..n - 3 + 1 : t[i] = s[3 + i - 1]
    BY <1>1, PartType
  <1>3. n \in Nat /\ n >= 2
    BY <1>1
  <1> HIDE DEF t, n
  <1>4. Len(t) = n - 2
    BY <1>2, <1>3
  <1>5. ASSUME NEW i \in 1..n - 2
        PROVE  t[i] = s[i + 2]
    <2>1. i \in 1..n - 3 + 1 /\ 3 + i - 1 = i + 2
      BY <1>3
    <2> QED
      BY <1>2, <2>1
  <1> QED
    BY <1>4, <1>5 DEF t, n

\* A sequence after an int was written to its end.
LEMMA AddInt ==
  ASSUME NEW S, NEW s \in Seq(S), NEW a \in S, NEW b \in S
  PROVE  /\ Len(s \o <<a, b>>) = Len(s) + 2
         /\ \A i \in 1..Len(s) : (s \o <<a, b>>)[i] = s[i]
         /\ (s \o <<a, b>>)[Len(s) + 1] = a
         /\ (s \o <<a, b>>)[Len(s) + 2] = b
  <1> DEFINE w == <<a, b>>
             t == s \o w
             n == Len(s)
  <1>1. w \in Seq(S) /\ Len(w) = 2 /\ w[1] = a /\ w[2] = b /\ n \in Nat
    OBVIOUS
  <1> HIDE DEF w
  <1>2. /\ Len(t) = n + Len(w)
        /\ \A i \in 1..n + Len(w) : t[i] = IF i <= n THEN s[i] ELSE w[i - n]
    BY <1>1, ConcatProperties
  <1> HIDE DEF t, n
  <1>3. /\ Len(t) = n + 2
        /\ \A i \in 1..n : t[i] = s[i]
    BY <1>1, <1>2
  <1>4. t[n + 1] = w[1] /\ t[n + 2] = w[2]
    <2>1. n + 1 \in 1..n + 2 /\ ~(n + 1 <= n) /\ n + 1 - n = 1
      BY <1>1
    <2>2. n + 2 \in 1..n + 2 /\ ~(n + 2 <= n) /\ n + 2 - n = 2
      BY <1>1
    <2> QED
      BY <1>1, <1>2, <2>1, <2>2
  <1> QED
    BY <1>1, <1>3, <1>4 DEF t, n, w

\* A number of whole ints is not one half.
LEMMA NoHalf == ASSUME NEW a \in Int PROVE 2 * a # 1
  OBVIOUS

\* A read of an int: two halves, or what a connection that has ended leaves.
LEMMA ReadWhole ==
  ASSUME MaxTears = 0, TypeOK, NEW n \in 0..2, MayRead(n)
  PROVE  /\ n = 2 => Len(down) >= 2
         /\ n = 1 => Len(down) = 1
         /\ n = 0 => reset /\ down = <<>>
  <1>1. tears = 0 /\ Len(down) \in Nat
    BY TypeParts DEF DaemonTypes, NetTypes
  <1>2. n <= Len(down) /\ (n = 0 => (reset /\ down = <<>>))
    BY DEF MayRead
  <1>3. n = 1 => ~(Len(down) > 1)
    BY <1>1 DEF MayRead
  <1> QED
    BY <1>1, <1>2, <1>3

\* Where the halves belong after an int was read.
LEMMA NextInt ==
  ASSUME NEW m \in Int, NEW i \in Nat \ {0}
  PROVE  /\ m + 1 + (i - 1) \div 2 = m + (i + 2 - 1) \div 2
         /\ (i + 2) % 2 = i % 2
  OBVIOUS

\* The halves of region m + d are the (2d + 1)-st and the (2d + 2)-nd.
LEMMA IntAt ==
  ASSUME NEW d \in Nat
  PROVE  /\ (2 * d + 1) % 2 = 1 /\ (2 * d + 1 - 1) \div 2 = d
         /\ (2 * d + 2) % 2 = 0 /\ (2 * d + 2 - 1) \div 2 = d
  OBVIOUS

\* Every step keeps what is on the connection.
LEMMA StreamNext ==
  ASSUME MaxTears = 0, TypeOK, LateInv, AnswerInv, [Next]_vars
  PROVE  StreamInv'
  <1>0. DaemonTypes /\ NetTypes /\ ServerTypes
    BY TypeParts
  <1>a. OpenInv /\ ResetInv /\ ResultInv /\ StreamInv
    BY DEF AnswerInv
  <1> USE DEF StreamInv, Answered, RegionAt, Found
  <1>1. CASE StartDaemon \/ Ask
    BY <1>1 DEF StartDaemon, Ask
  <1>2. CASE Connect
    <2>1. header' = "none" /\ cpc' = "send"
      BY <1>2 DEF Connect, LateInv, ConnectInv
    <2> QED
      BY <2>1
  <1>3. CASE Refused \/ GiveUp \/ Return \/ Migrate \/ DaemonEnds
    BY <1>3 DEF Refused, GiveUp, Return, Migrate, DaemonEnds
  <1>4. CASE Send
    BY <1>4, <1>a DEF Send, serverVars
  <1>5. CASE ReceiveHeader
    <2>1. CASE header = "none"
      <3>1. down' = <<>> /\ spc' = "down"
        BY <1>5, <1>a, <2>1 DEF ReceiveHeader, OpenInv, ResetInv, Asking, netVars,
                                serverVars
      <3> QED
        BY <3>1
    <2>2. CASE header # "none"
      BY <1>0, <1>5, <1>a, <2>2 DEF ReceiveHeader, NetTypes, netVars, serverVars
    <2> QED
      BY <2>1, <2>2
  <1>6. CASE ReceiveRegion
    <2> SUFFICES ASSUME Answered'
                 PROVE  /\ \A i \in 1..Len(down') :
                             /\ solved' # <<>>
                             /\ RegionAt(i)' <= NrRegions
                             /\ down'[i] = IF i % 2 = 1 THEN solved'[RegionAt(i)'] ELSE 0
                        /\ spc' = "send" /\ sfor' = req' =>
                             Found' /\ next' <= snext'
                               /\ Len(down') = 2 * (snext' - next')
      OBVIOUS
    <2>1. cpc = "regions" /\ ~failed /\ next' = next + 1
          /\ UNCHANGED <<req, spc, sfor, snext, placed, solved>>
      BY <1>6 DEF ReceiveRegion, serverVars
    <2>2. PICK n \in 0..2 : MayRead(n) /\ down' = SubSeq(down, n + 1, Len(down))
      BY <1>6 DEF ReceiveRegion
    <2>3. /\ n = 2 => Len(down) >= 2
          /\ n = 1 => Len(down) = 1
          /\ n = 0 => reset /\ down = <<>>
      BY <2>2, ReadWhole
    <2>4. next \in Nat /\ snext \in Nat /\ Len(down) \in Nat
      BY <1>0, ExchangeAssumption DEF DaemonTypes, NetTypes, ServerTypes
    <2>5. CASE n = 0
      <3>1. down' = <<>> /\ spc' = "down"
        BY <1>a, <2>1, <2>2, <2>3, <2>5 DEF ResetInv, Asking
      <3> QED
        BY <3>1
    <2>6. CASE n = 1
      <3>1. down' = <<>>
        <4>1. n + 1 = 2 /\ Len(down) = 1
          BY <2>3, <2>6
        <4>2. down' = SubSeq(down, 2, 1)
          BY <2>2, <4>1
        <4> QED
          BY <4>2, SubSeqEmpty
      <3>2. ASSUME spc = "send", sfor = req
            PROVE  FALSE
        <4>1. Len(down) = 2 * (snext - next)
          BY <1>a, <2>1, <3>2
        <4>2. Len(down) = 1
          BY <2>3, <2>6
        <4>3. snext - next \in Int
          BY <2>4
        <4> QED
          BY <4>1, <4>2, <4>3, NoHalf
      <3> QED
        BY <2>1, <3>1, <3>2
    <2>7. CASE n = 2
      <3>1. /\ Len(down') = Len(down) - 2
            /\ \A i \in 1..Len(down) - 2 : down'[i] = down[i + 2]
        <4>1. down \in Seq(0..Half - 1)
          BY <1>0 DEF NetTypes
        <4>2. down' = SubSeq(down, 3, Len(down)) /\ Len(down) >= 2
          BY <2>2, <2>3, <2>7
        <4> QED
          BY <4>1, <4>2, DropInt
      <3>2. ASSUME NEW i \in 1..Len(down')
            PROVE  /\ solved # <<>>
                   /\ RegionAt(i)' <= NrRegions
                   /\ down'[i] = IF i % 2 = 1 THEN solved[RegionAt(i)'] ELSE 0
        <4>1. i + 2 \in 1..Len(down) /\ i \in Nat \ {0}
          BY <2>4, <3>1
        <4>2. RegionAt(i)' = RegionAt(i + 2) /\ (i + 2) % 2 = i % 2
          BY <2>1, <2>4, <4>1, NextInt
        <4>3. /\ solved # <<>> /\ RegionAt(i + 2) <= NrRegions
              /\ down[i + 2] = IF (i + 2) % 2 = 1 THEN solved[RegionAt(i + 2)] ELSE 0
          BY <1>a, <2>1, <4>1
        <4> QED
          BY <3>1, <4>2, <4>3
      <3>3. spc = "send" /\ sfor = req =>
              Found /\ next' <= snext /\ Len(down') = 2 * (snext - next')
        BY <1>a, <2>1, <2>3, <2>4, <2>7, <3>1
      <3> QED
        BY <2>1, <3>2, <3>3
    <2> QED
      BY <2>5, <2>6, <2>7
  <1>7. CASE Listen \/ Wait \/ Cleanup
    BY <1>7, <1>a DEF Listen, Wait, Cleanup, daemonVars, netVars
  <1>8. CASE Accept \/ ReadData
    BY <1>8, <1>a DEF Accept, ReadData, daemonVars, netVars
  <1>9. CASE SendHeader
    <2>1. sfor = req /\ cpc \in {"send", "receive", "ended"}
          /\ (cpc # "ended" => header = "none")
      BY <1>9 DEF SendHeader, LateInv, ServeInv, Serving, Unanswered
    <2> SUFFICES ASSUME cpc \in {"send", "receive"}, header' = "ok"
                 PROVE  StreamInv'
      BY <1>9, <2>1 DEF SendHeader, daemonVars
    <2>2. dp
      BY <1>9, <2>1 DEF SendHeader, Gone, Asking
    <2>3. Found /\ next = 1 /\ down = <<>>
      BY <1>9, <1>a, <2>1, <2>2 DEF SendHeader, ResultInv, OpenInv, Asking
    <2>4. placed' = placed /\ snext' = 1 /\ UNCHANGED <<daemonVars, down, solved>>
      BY <1>9, <2>2 DEF SendHeader
    <2> QED
      BY <2>3, <2>4 DEF daemonVars
  <1>10. CASE SendRegion
    <2>1. UNCHANGED <<daemonVars, header, spc, sfor, placed, solved>>
          /\ spc = "send" /\ snext' = snext + 1
      BY <1>10 DEF SendRegion
    <2> SUFFICES ASSUME Answered
                 PROVE  StreamInv'
      BY <2>1 DEF daemonVars
    <2>2. CASE sfor # req
      <3>1. down' = down
        BY <1>10, <2>2 DEF SendRegion, Gone
      <3> QED
        BY <1>a, <2>1, <2>2, <3>1 DEF daemonVars
    <2>3. CASE sfor = req
      <3>1. Found /\ next <= snext /\ Len(down) = 2 * (snext - next)
        BY <1>a, <2>1, <2>3
      <3>2. next \in Nat /\ snext \in Nat /\ snext \in Regions
        BY <1>0, <1>10, ExchangeAssumption
        DEF SendRegion, DaemonTypes, ServerTypes, Regions
      <3>3. solved \in Solutions
        BY <1>0, <3>1 DEF ServerTypes
      <3>4. Halves(placed[snext]) = <<solved[snext], 0>>
        BY <3>1, <3>2, <3>3, SolutionFacts, HalvesOfTiers
      <3>5. down' = down \o <<solved[snext], 0>>
        BY <1>10, <2>3, <3>1, <3>4 DEF SendRegion, Gone, Asking
      <3> DEFINE d == snext - next
      <3>6. d \in Nat /\ Len(down) = 2 * d /\ next + d = snext
        BY <3>1, <3>2
      <3>7. /\ Len(down') = 2 * d + 2
            /\ \A i \in 1..2 * d : down'[i] = down[i]
            /\ down'[2 * d + 1] = solved[snext] /\ down'[2 * d + 2] = 0
        <4>1. solved[snext] \in 0..NrTiers - 1 /\ NrTiers \in 0..5
          BY <3>2, <3>3, SolutionFacts, HalvesOfTiers
        <4>2. Half \in Nat /\ Half > 5
          BY DEF Half
        <4>3. solved[snext] \in 0..Half - 1 /\ 0 \in 0..Half - 1
          BY <4>1, <4>2
        <4>4. down \in Seq(0..Half - 1)
          BY <1>0 DEF NetTypes
        <4>5. /\ Len(down') = Len(down) + 2
              /\ \A i \in 1..Len(down) : down'[i] = down[i]
              /\ down'[Len(down) + 1] = solved[snext] /\ down'[Len(down) + 2] = 0
          BY <3>5, <4>3, <4>4, AddInt
        <4> HIDE DEF d
        <4> QED
          BY <3>6, <4>5
      <3>8. ASSUME NEW i \in 1..2 * d + 2
            PROVE  /\ RegionAt(i) <= NrRegions
                   /\ down'[i] = IF i % 2 = 1 THEN solved[RegionAt(i)] ELSE 0
        <4>1. CASE i <= 2 * d
          BY <1>a, <3>6, <3>7, <4>1
        <4>2. CASE i = 2 * d + 1
          BY <3>2, <3>6, <3>7, <4>2, IntAt DEF Regions
        <4>3. CASE i = 2 * d + 2
          BY <3>2, <3>6, <3>7, <4>3, IntAt DEF Regions
        <4> QED
          BY <3>6, <4>1, <4>2, <4>3
      <3>9. Len(down') = 2 * (snext' - next) /\ next <= snext'
        BY <2>1, <3>2, <3>6, <3>7
      <3> QED
        BY <2>1, <3>1, <3>7, <3>8, <3>9 DEF daemonVars
    <2> QED
      BY <2>2, <2>3
  <1>11. CASE ServerEnds
    <2>1. spc' = "down" /\ UNCHANGED <<daemonVars, solved>>
      BY <1>11 DEF ServerEnds
    <2>2. header' = header \/ header' = "none"
      BY <1>11 DEF ServerEnds
    <2>3. PICK k \in 0..Len(down) : down' = SubSeq(down, 1, k)
      BY <1>11 DEF ServerEnds
    <2>4. Len(down) \in Nat /\ down \in Seq(0..Half - 1) /\ 1 \in Nat \ {0}
      BY <1>0 DEF NetTypes
    <2>5. /\ Len(down') = IF 1 <= k THEN k - 1 + 1 ELSE 0
          /\ \A i \in 1..k - 1 + 1 : down'[i] = down[1 + i - 1]
      BY <2>3, <2>4, PartType
    <2>6. Len(down') <= Len(down) /\ \A i \in 1..Len(down') : down'[i] = down[i]
      BY <2>4, <2>5
    <2>7. Answered' => Answered
      BY <2>1, <2>2 DEF daemonVars
    <2>8. Len(down') \in Nat
      BY <2>4, <2>5
    <2> QED
      BY <1>a, <2>1, <2>4, <2>6, <2>7, <2>8 DEF daemonVars
  <1>12. ASSUME NEW q \in Requests, Solver(q)
         PROVE  StreamInv'
    BY <1>12, SolverFacts DEF daemonVars, netVars
  <1>13. CASE UNCHANGED vars
    BY <1>13, <1>a DEF vars, daemonVars, netVars, serverVars
  <1> QED
    BY <1>1, <1>2, <1>3, <1>4, <1>5, <1>6, <1>7, <1>8, <1>9, <1>10, <1>11, <1>12, <1>13
    DEF Next, DaemonStep, ServerStep, Finished

\* The tier read for a region is the one that was found for it; if nothing, or
\* one half, could be read, it is that one or the one the region had.
LEMMA TierRead ==
  ASSUME MaxTears = 0, TypeOK, StreamInv, cpc = "regions", ~failed, next \in Regions,
         NEW n \in 0..2, MayRead(n), InRange(Overlaid(dst[next], n))
  PROVE  LET v == Overlaid(dst[next], n)
         IN  \/ Taken(v) = dst[next]
             \/ solved # <<>> /\ Taken(v) = IdOf(solved[next])
  <1>0. DaemonTypes /\ NetTypes /\ ServerTypes
    BY TypeParts
  <1>1. dst[next] \in TierIds \union {NoTier}
    BY <1>0 DEF DaemonTypes
  <1>2. /\ n = 2 => Len(down) >= 2
        /\ n = 1 => Len(down) = 1
    BY ReadWhole
  <1>3. CASE n = 0
    <2>1. Overlaid(dst[next], n) = dst[next]
      BY <1>3 DEF Overlaid
    <2>2. Taken(dst[next]) = dst[next]
      BY <1>1, <2>1, SmallIds DEF InRange, Taken
    <2> QED
      BY <2>1, <2>2
  <1>4. ASSUME n \in {1, 2}
        PROVE  /\ solved \in Solutions /\ solved # <<>> /\ down[1] = solved[next]
               /\ down[1] \in 0..5
    <2>1. Len(down) \in Nat /\ next \in Nat
      BY <1>0, ExchangeAssumption DEF NetTypes, Regions
    <2>2. 1 \in 1..Len(down)
      BY <1>2, <1>4, <2>1
    <2>3. (1 - 1) \div 2 = 0 /\ 1 % 2 = 1
      OBVIOUS
    <2>4. RegionAt(1) = next
      BY <2>1, <2>3 DEF RegionAt
    <2>5. solved # <<>> /\ down[1] = solved[next]
      BY <2>2, <2>3, <2>4 DEF StreamInv, Answered
    <2>6. solved \in Solutions
      BY <1>0, <2>5 DEF ServerTypes
    <2>7. solved[next] \in 0..NrTiers - 1 /\ NrTiers \in 0..5
      BY <2>6, SolutionFacts, HalvesOfTiers
    <2> QED
      BY <2>5, <2>6, <2>7
  <1>5. CASE n = 2
    <2>1. Len(down) \in Nat /\ next \in Nat
      BY <1>0, ExchangeAssumption DEF NetTypes, Regions
    <2>2. 2 \in 1..Len(down)
      BY <1>2, <1>5, <2>1
    <2>3. 2 % 2 = 0
      OBVIOUS
    <2>4. down[2] = 0
      BY <2>2, <2>3 DEF StreamInv, Answered
    <2>5. Overlaid(dst[next], n) = IntOf(down[1], 0)
      BY <1>5, <2>4 DEF Overlaid
    <2>6. Overlaid(dst[next], n) = solved[next]
      BY <1>4, <1>5, <2>5, HalvesOfTiers
    <2> QED
      BY <1>4, <1>5, <2>6 DEF Taken
  <1>6. CASE n = 1
    <2>1. Overlaid(dst[next], n) = IntOf(down[1], Halves(dst[next])[2])
      BY <1>6 DEF Overlaid
    <2>2. CASE dst[next] = NoTier
      <3>1. IntOf(down[1], Halves(NoTier)[2]) < 0
        BY <1>4, <1>6, HalvesOfTiers
      <3> QED
        BY <2>1, <2>2, <3>1, IdsOfTable DEF InRange
    <2>3. CASE dst[next] \in TierIds
      <3>1. Overlaid(dst[next], n) = IntOf(down[1], 0)
        BY <2>1, <2>3, HalvesOfTiers
      <3>2. Overlaid(dst[next], n) = solved[next]
        BY <1>4, <1>6, <3>1, HalvesOfTiers
      <3> QED
        BY <1>4, <1>6, <3>2 DEF Taken
    <2> QED
      BY <1>1, <2>2, <2>3
  <1> QED
    BY <1>3, <1>5, <1>6

\* Every step keeps the tiers that were adopted so far.
LEMMA AdoptNext ==
  ASSUME MaxTears = 0, TypeOK, Numbered, LateInv, AnswerInv, [Next]_vars
  PROVE  AdoptInv'
  <1>0. DaemonTypes /\ NetTypes /\ ServerTypes
    BY TypeParts
  <1>a. OpenInv /\ UnsolvedInv /\ StreamInv /\ AdoptInv
    BY DEF AnswerInv
  <1> USE DEF AdoptInv
  <1>1. CASE StartDaemon \/ Ask \/ Connect
    BY <1>1 DEF StartDaemon, Ask, Connect
  <1>2. CASE Refused \/ GiveUp \/ Send \/ Return \/ Migrate \/ DaemonEnds
    BY <1>2 DEF Refused, GiveUp, Send, Return, Migrate, DaemonEnds
  <1>3. CASE ReceiveHeader
    <2>1. next = 1 /\ dst = before
      BY <1>3, <1>a DEF ReceiveHeader, OpenInv
    <2>2. UNCHANGED <<dst, before, next>>
      BY <1>3 DEF ReceiveHeader
    <2> QED
      BY <2>1, <2>2 DEF Regions
  <1>4. CASE ReceiveRegion
    <2> SUFFICES ASSUME cpc' = "regions", NEW r \in Regions
                 PROVE  \/ dst'[r] = before'[r] /\ (r < next' /\ ~failed' => dst'[r] # NoTier)
                        \/ r < next' /\ solved' # <<>> /\ dst'[r] = IdOf(solved'[r])
      OBVIOUS
    <2>1. /\ cpc = "regions" /\ next' = next + 1 /\ next \in Regions /\ r \in Nat
          /\ UNCHANGED <<before, failed, solved>>
      BY <1>0, <1>4, ExchangeAssumption
      DEF ReceiveRegion, serverVars, DaemonTypes, Regions
    <2>2. PICK n \in 0..2 :
            /\ MayRead(n)
            /\ LET v == Overlaid(dst[next], n)
               IN  /\ cpc' = IF failed \/ InRange(v) THEN "regions" ELSE "ended"
                   /\ dst' = IF failed \/ ~InRange(v) THEN dst
                             ELSE [dst EXCEPT ![next] = Taken(v)]
      BY <1>4 DEF ReceiveRegion
    <2>3. \/ dst[r] = before[r] /\ (r < next /\ ~failed => dst[r] # NoTier)
          \/ r < next /\ solved # <<>> /\ dst[r] = IdOf(solved[r])
      BY <1>a, <2>1
    <2>4. CASE failed
      BY <2>1, <2>2, <2>3, <2>4 DEF Regions
    <2>5. CASE ~failed /\ r # next
      <3>1. dst'[r] = dst[r]
        BY <1>0, <2>2, <2>5 DEF DaemonTypes
      <3>2. r < next' <=> r < next
        BY <2>1, <2>5 DEF Regions
      <3> QED
        BY <2>1, <2>3, <3>1, <3>2
    <2>6. CASE ~failed /\ r = next
      <3>1. InRange(Overlaid(dst[next], n))
        BY <2>2, <2>6
      <3>2. dst'[r] = Taken(Overlaid(dst[next], n))
        BY <1>0, <2>1, <2>2, <2>6, <3>1 DEF DaemonTypes
      <3>3. dst'[r] = dst[r] \/ (solved # <<>> /\ dst'[r] = IdOf(solved[r]))
        BY <1>a, <2>1, <2>2, <2>6, <3>1, <3>2, TierRead
      <3>4. dst'[r] \in TierIds /\ NoTier \notin TierIds
        <4>1. Overlaid(dst[next], n) \in 0..NrTiers - 1
          BY <3>1 DEF InRange
        <4>2. dst'[r] \in TierIds
          BY <3>2, <4>1, IdsOfTable DEF Taken
        <4>3. NoTier \notin TierIds
          BY DEF NoTier, TierIds, ByteTiers, CompressedTiers, COMPRESSED_TIERS_BASE,
                 FAST_NODE, SLOW_NODE
        <4> QED
          BY <4>2, <4>3
      <3>5. r < next' /\ ~(r < next)
        BY <2>1, <2>6 DEF Regions
      <3> QED
        BY <2>1, <2>3, <3>3, <3>4, <3>5
    <2> QED
      BY <2>4, <2>5, <2>6
  <1>5. CASE Listen \/ ServerStep \/ ServerEnds
    BY <1>5, <1>a DEF Listen, ServerStep, Accept, ReadData, Wait, SendHeader, SendRegion,
                      Cleanup, ServerEnds, daemonVars
  <1>6. ASSUME NEW q \in Requests, Solver(q)
        PROVE  AdoptInv'
    <2>1. q = req /\ UNCHANGED daemonVars
      BY <1>6, SolverFacts
    <2>2. solved' = solved \/ (solver[req] = "running" /\ solved' # <<>>)
      <3>1. CASE SolverPlaces(q)
        <4>1. solved' \in Solutions
          BY <2>1, <3>1 DEF SolverPlaces
        <4> QED
          BY <2>1, <3>1, <4>1, SolutionFacts DEF SolverPlaces
      <3>2. CASE SolverPublishes(q) \/ SolverFails(q)
        BY <3>2 DEF SolverPublishes, SolverFails
      <3> QED
        BY <1>6, <3>1, <3>2 DEF Solver
    <2>3. cpc = "regions" /\ solver[req] = "running" => solved = <<>>
      BY <1>a DEF UnsolvedInv, Asking
    <2> QED
      BY <1>a, <2>1, <2>2, <2>3 DEF daemonVars
  <1>7. CASE UNCHANGED vars
    BY <1>7, <1>a DEF vars, daemonVars, serverVars
  <1> QED
    BY <1>1, <1>2, <1>3, <1>4, <1>5, <1>6, <1>7 DEF Next, DaemonStep, Finished

\* What the daemon adopts was found for its request, or was there before.
LEMMA AnswerAlways ==
  ASSUME ~ScriptMayFail, MaxTears = 0
  PROVE  Spec => [](TypeOK /\ Numbered /\ LateInv /\ AnswerInv)
  <1>1. Init => AnswerInv
    <2> SUFFICES ASSUME Init
                 PROVE  AnswerInv
      OBVIOUS
    <2>1. OrderInv
      BY DEF Init, OrderInv
    <2> QED
      BY <2>1 DEF Init, AnswerInv, OpenInv, ResetInv, UnsolvedInv, ResultInv,
                  StreamInv, Answered, AdoptInv, Asking
  <1>2. TypeOK /\ Numbered /\ LateInv /\ AnswerInv /\ [Next]_vars => AnswerInv'
    <2> SUFFICES ASSUME TypeOK, Numbered, LateInv, AnswerInv, [Next]_vars
                 PROVE  AnswerInv'
      OBVIOUS
    <2>1. OrderInv /\ OpenInv /\ ResetInv /\ UnsolvedInv /\ ResultInv
      BY DEF AnswerInv
    <2>2. OrderInv' /\ OpenInv'
      BY <2>1, OpenNext
    <2>3. ResetInv' /\ UnsolvedInv' /\ ResultInv'
      BY <2>1, ResetNext, ResultNext
    <2>4. StreamInv' /\ AdoptInv'
      BY StreamNext, AdoptNext
    <2> QED
      BY <2>2, <2>3, <2>4 DEF AnswerInv
  <1> QED
    BY <1>1, <1>2, ExchangeTypes, LateAlways, PTL DEF Spec

(***************************************************************************)
(* The refinement: each step of the exchange is a step of the service or   *)
(* changes nothing of it.                                                  *)
(***************************************************************************)

\* Nothing found is no answer, and what is found is one.
LEMMA AnswerFacts ==
  /\ IdsOf(<<>>) = <<>>
  /\ \A p \in Solutions : /\ IdsOf(p) # <<>> /\ IdsOf(p) \in [Regions -> TierIds]
                          /\ \A r \in Regions : IdsOf(p)[r] = IdOf(p[r])
  <1>1. IdsOf(<<>>) = <<>>
    BY DEF IdsOf
  <1>2. ASSUME NEW p \in Solutions
        PROVE  /\ IdsOf(p) # <<>> /\ IdsOf(p) \in [Regions -> TierIds]
               /\ \A r \in Regions : IdsOf(p)[r] = IdOf(p[r])
    <2>1. DOMAIN p = Regions /\ 1 \in Regions
          /\ \A r \in Regions : IdOf(p[r]) \in TierIds
      BY SolutionFacts, ExchangeAssumption DEF Regions
    <2>2. IdsOf(p) \in [Regions -> TierIds]
      BY <2>1 DEF IdsOf
    <2>3. IdsOf(p) # <<>>
      BY <2>1, <2>2
    <2> QED
      BY <2>1, <2>2, <2>3 DEF IdsOf
  <1> QED
    BY <1>1, <1>2

\* How the state of the service follows from that of the daemon.
LEMMA MappedState ==
  /\ cpc = "idle" => Rec = dst /\ Status = "idle" /\ Answer = <<>>
  /\ cpc \in Asking => Rec = before /\ Status = "waiting" /\ Answer = IdsOf(solved)
  /\ cpc = "ended" => Rec = [r \in Regions |-> NoTier] /\ Status = "ended"
                      /\ Answer = <<>>
  BY DEF Rec, Status, Answer, Asking

\* The same after a step.
LEMMA MappedNextState ==
  /\ cpc' = "idle" => Rec' = dst' /\ Status' = "idle" /\ Answer' = <<>>
  /\ cpc' \in Asking => Rec' = before' /\ Status' = "waiting"
                        /\ Answer' = IdsOf(solved')
  /\ cpc' = "ended" => Rec' = [r \in Regions |-> NoTier] /\ Status' = "ended"
                       /\ Answer' = <<>>
  BY DEF Rec, Status, Answer, Asking

\* A step that ends a daemon ends the service.
LEMMA EndStep ==
  ASSUME cpc # "ended", cpc' = "ended", cpc \in Asking \union {"idle"}
  PROVE  Service!End
  <1>1. Status # "ended"
    BY MappedState DEF Asking
  <1> QED
    BY <1>1, MappedNextState DEF Service!End, Service!Nowhere, Service!NoAnswer

\* What is left alone by a step that is none of the service's.
LEMMA SameStep ==
  ASSUME UNCHANGED <<cpc, dst, before, solved>>
  PROVE  UNCHANGED Service!vars
  BY DEF Service!vars, Rec, Status, Answer, IdsOf

\* As long as the daemon asks, the service waits with what it had.
LEMMA AskingStep ==
  ASSUME cpc \in Asking, cpc' \in Asking, UNCHANGED <<before, solved>>
  PROVE  UNCHANGED Service!vars
  BY MappedState, MappedNextState DEF Service!vars

\* What the daemon returns with is an answer of the service.
LEMMA AdoptStep ==
  ASSUME TypeOK, AnswerInv, Return, ~failed
  PROVE  Service!Adopt
  <1>0. DaemonTypes /\ ServerTypes
    BY TypeParts
  <1>1. cpc = "regions" /\ next > NrRegions /\ cpc' = "idle" /\ dst' = dst
    BY DEF Return
  <1>2. /\ Status = "waiting" /\ Status' = "idle" /\ Rec = before /\ Rec' = dst
        /\ Answer = IdsOf(solved) /\ Answer' = <<>>
    BY <1>1, MappedState, MappedNextState DEF Asking
  <1>3. ASSUME NEW r \in Regions
        PROVE  /\ dst[r] # NoTier
               /\ dst[r] = before[r] \/ (IdsOf(solved) # <<>> /\ dst[r] = IdsOf(solved)[r])
    <2>1. r < next
      BY <1>0, <1>1, ExchangeAssumption DEF DaemonTypes, Regions
    <2>2. CASE dst[r] = before[r] /\ dst[r] # NoTier
      BY <2>2
    <2>3. CASE solved # <<>> /\ dst[r] = IdOf(solved[r])
      <3>1. solved \in Solutions
        BY <1>0, <2>3 DEF ServerTypes
      <3>2. IdsOf(solved) # <<>> /\ IdsOf(solved)[r] = IdOf(solved[r])
            /\ IdOf(solved[r]) \in TierIds
        BY <3>1, AnswerFacts, SolutionFacts
      <3>3. NoTier \notin TierIds
        BY DEF NoTier, TierIds, ByteTiers, CompressedTiers, COMPRESSED_TIERS_BASE,
               FAST_NODE, SLOW_NODE
      <3> QED
        BY <2>3, <3>2, <3>3
    <2> QED
      BY <1>1, <2>1, <2>2, <2>3 DEF AnswerInv, AdoptInv
  <1>4. dst \in [Regions -> {before[r] : r \in Regions} \union
                            (IF IdsOf(solved) = <<>> THEN {}
                             ELSE {IdsOf(solved)[r] : r \in Regions})]
    BY <1>0, <1>3 DEF DaemonTypes
  <1>5. dst \in Service!Adopted
    BY <1>2, <1>3, <1>4 DEF Service!Adopted, Service!NoAnswer
  <1> QED
    BY <1>2, <1>5 DEF Service!Adopt, Service!NoAnswer

\* Each step is one of the service, or leaves it alone.
LEMMA ServiceStep ==
  ASSUME TypeOK, LateInv, AnswerInv, [Next]_vars
  PROVE  [Service!Next]_(Service!vars)
  <1>0. DaemonTypes /\ ServerTypes
    BY TypeParts
  <1>a. Asking \intersect {"idle", "ended"} = {}
    BY DEF Asking
  <1>1. CASE StartDaemon
    <2>1. cpc = "ended" /\ cpc' = "idle" /\ dst' = [r \in Regions |-> NoTier]
      BY <1>1 DEF StartDaemon
    <2>2. Service!Start
      BY <2>1, MappedState, MappedNextState DEF Service!Start
    <2> QED
      BY <2>2 DEF Service!Next
  <1>2. CASE Ask
    <2>1. cpc = "idle" /\ cpc' \in Asking /\ before' = dst /\ solved' = <<>>
      BY <1>2 DEF Ask, Asking
    <2>2. Service!Ask
      BY <2>1, MappedState, MappedNextState, AnswerFacts DEF Service!Ask
    <2> QED
      BY <2>2 DEF Service!Next
  <1>3. CASE Connect \/ Refused \/ ReceiveHeader
    <2>1. cpc \in Asking /\ cpc' \in Asking /\ UNCHANGED <<before, solved>>
      BY <1>3 DEF Connect, Refused, ReceiveHeader, Asking, serverVars
    <2> QED
      BY <2>1, AskingStep
  <1>4. CASE Send \/ ReceiveRegion
    <2>1. cpc \in Asking /\ cpc' \in Asking \union {"ended"} /\ UNCHANGED <<before, solved>>
      BY <1>4 DEF Send, ReceiveRegion, Asking, serverVars
    <2>2. CASE cpc' \in Asking
      BY <2>1, <2>2, AskingStep
    <2>3. CASE cpc' = "ended"
      BY <1>a, <2>1, <2>3, EndStep DEF Service!Next
    <2> QED
      BY <2>1, <2>2, <2>3
  <1>5. CASE Return
    <2>1. CASE failed
      <3>1. cpc \in Asking /\ cpc' = "ended"
        BY <1>5, <2>1 DEF Return, Asking
      <3> QED
        BY <1>a, <3>1, EndStep DEF Service!Next
    <2>2. CASE ~failed
      BY <1>5, <2>2, AdoptStep DEF Service!Next
    <2> QED
      BY <2>1, <2>2
  <1>6. CASE GiveUp
    <2>1. cpc \in Asking /\ cpc' = "ended"
      BY <1>6 DEF GiveUp, Asking
    <2> QED
      BY <1>a, <2>1, EndStep DEF Service!Next
  <1>7. CASE DaemonEnds
    <2>1. cpc # "ended" /\ cpc' = "ended" /\ cpc \in Asking \union {"idle"}
      BY <1>0, <1>7 DEF DaemonEnds, DaemonTypes
    <2> QED
      BY <2>1, EndStep DEF Service!Next
  <1>8. CASE Migrate
    <2>1. cpc = "idle" /\ cpc' = "idle"
      BY <1>8 DEF Migrate
    <2>2. PICK gone \in SUBSET Regions :
            dst' = [r \in Regions |-> IF r \in gone THEN NoTier ELSE dst[r]]
      BY <1>8 DEF Migrate
    <2>3. Service!Migrate
      BY <2>1, <2>2, MappedState, MappedNextState DEF Service!Migrate
    <2> QED
      BY <2>3 DEF Service!Next
  <1>9. CASE Listen \/ ServerStep \/ ServerEnds
    <2>1. UNCHANGED <<cpc, dst, before, solved>>
      BY <1>9 DEF Listen, ServerStep, Accept, ReadData, Wait, SendHeader, SendRegion,
                  Cleanup, ServerEnds, daemonVars
    <2> QED
      BY <2>1, SameStep
  <1>10. ASSUME NEW q \in Requests, Solver(q)
         PROVE  [Service!Next]_(Service!vars)
    <2>1. q = req /\ UNCHANGED <<cpc, dst, before>>
      BY <1>10, SolverFacts DEF daemonVars
    <2>2. CASE solved' = solved
      BY <2>1, <2>2, SameStep
    <2>3. CASE cpc \notin Asking
      <3>1. cpc \in {"idle", "ended"}
        BY <1>0, <2>3 DEF DaemonTypes
      <3>2. UNCHANGED <<Rec, Status, Answer>>
        BY <2>1, <3>1, MappedState, MappedNextState
      <3> QED
        BY <3>2 DEF Service!vars
    <2>4. CASE SolverPlaces(q) /\ cpc \in Asking
      <3>1. solver[req] = "running" /\ solved' \in Solutions
        BY <2>1, <2>4 DEF SolverPlaces
      <3>2. solved = <<>>
        BY <2>4, <3>1 DEF AnswerInv, UnsolvedInv
      <3>3. Answer = <<>> /\ Answer' = IdsOf(solved') /\ Status = "waiting"
            /\ UNCHANGED <<Status, Rec>>
        BY <2>1, <2>4, <3>2, MappedState, MappedNextState, AnswerFacts
      <3>4. Service!Compute
        BY <3>1, <3>3 DEF Service!Compute, Service!NoAnswer
      <3> QED
        BY <3>4 DEF Service!Next
    <2>5. CASE SolverPublishes(q) \/ SolverFails(q)
      BY <2>2, <2>5 DEF SolverPublishes, SolverFails
    <2> QED
      BY <1>10, <2>3, <2>4, <2>5 DEF Solver
  <1>11. CASE UNCHANGED vars
    BY <1>11, SameStep DEF vars, daemonVars, serverVars
  <1> QED
    BY <1>1, <1>2, <1>3, <1>4, <1>5, <1>6, <1>7, <1>8, <1>9, <1>10, <1>11
    DEF Next, DaemonStep, Finished

\* If the script replaces the server and ints arrive whole while the server
\* lives, the exchange implements the service: whatever the server, the
\* solver's timeout and crashes do, the daemon adopts what was found for its
\* request, keeps what it had, or ends.
THEOREM ServiceImplemented ==
  ASSUME ~ScriptMayFail, MaxTears = 0
  PROVE  Spec => ImplementsService
  <1>1. Init => Service!Init
    <2> SUFFICES ASSUME Init
                 PROVE  Service!Init
      OBVIOUS
    <2>1. cpc = "ended"
      BY DEF Init
    <2> QED
      BY <2>1, MappedState DEF Service!Init, Service!Nowhere, Service!NoAnswer
  <1>2. TypeOK /\ Numbered /\ LateInv /\ AnswerInv /\ [Next]_vars
          => [Service!Next]_(Service!vars)
    BY ServiceStep
  <1> QED
    BY <1>1, <1>2, AnswerAlways, PTL DEF Spec, ImplementsService, Service!Spec

=============================================================================
