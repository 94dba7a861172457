--------------------------- MODULE EventPipeline ---------------------------
(***************************************************************************)
(* The threads of tracker_d.cpp and what they share: the consumer thread   *)
(* reads one memory access per line from standard input into addr_vector;  *)
(* the window thread wakes up once per window, moves the vector to         *)
(* child_addr_vector under the mutex, has the batch processed and clears   *)
(* it; the main thread polls the target process and takes the daemon down. *)
(*                                                                         *)
(* An access is represented by its position in the input.  What happens to *)
(* a batch while it is processed is the subject of MigrateThreads.         *)
(***************************************************************************)
EXTENDS Integers, Sequences

CONSTANTS
  MaxEvents,          \* bound: lines of input
  DisableMigration,   \* option -d
  MalformedInput,     \* a line may be cut short, as when perf is killed
  ProcessingMayExit   \* mapping or migration may end in exit(1)

ASSUME PipelineAssumption ==
  /\ MaxEvents \in Nat
  /\ DisableMigration \in BOOLEAN
  /\ MalformedInput \in BOOLEAN
  /\ ProcessingMayExit \in BOOLEAN

VARIABLES
  nread,          \* lines the consumer has taken from the input
  held,           \* the access it has parsed and not yet stored, 0 if none
  addrVector, childVector,
  mutex,          \* owner of myMutex
  alive,          \* is_program_alive
  targetUp,       \* the process under management exists
  exited,         \* the daemon process has ended
  pcC, pcW, pcM,  \* consumer, window and main thread
  done            \* history: accesses that went through a window

dataVars == <<nread, held, addrVector, childVector, done>>
vars == <<dataVars, mutex, alive, targetUp, exited, pcC, pcW, pcM>>

Free == "free"

Init ==
  /\ nread = 0 /\ held = 0
  /\ addrVector = <<>> /\ childVector = <<>> /\ done = <<>>
  /\ mutex = Free
  /\ alive = TRUE /\ targetUp = TRUE /\ exited = FALSE
  /\ pcC = "read" /\ pcW = "head" /\ pcM = "poll"

(***************************************************************************)
(* th_consume_perf_events.                                                 *)
(***************************************************************************)

\* getline succeeds; the line is dropped if the daemon is shutting down.
ReadLine ==
  /\ ~exited /\ pcC = "read" /\ nread < MaxEvents
  /\ nread' = nread + 1
  /\ IF alive THEN held' = nread + 1 /\ pcC' = "lock"
              ELSE held' = held /\ pcC' = "returned"
  /\ UNCHANGED <<addrVector, childVector, done, mutex, alive, targetUp,
                 exited, pcW, pcM>>

EndOfInput ==
  /\ ~exited /\ pcC = "read"
  /\ pcC' = "returned"
  /\ UNCHANGED <<dataVars, mutex, alive, targetUp, exited, pcW, pcM>>

\* stof, stoull and substr throw std exceptions, and the handler catches only
\* `const char *': std::terminate.
ReadMalformed ==
  /\ ~exited /\ pcC = "read" /\ alive /\ MalformedInput
  /\ exited' = TRUE
  /\ UNCHANGED <<dataVars, mutex, alive, targetUp, pcC, pcW, pcM>>

ConsumerLock ==
  /\ ~exited /\ pcC = "lock" /\ mutex = Free
  /\ mutex' = "consumer"
  /\ pcC' = "push"
  /\ UNCHANGED <<dataVars, alive, targetUp, exited, pcW, pcM>>

\* push_back and unlock.
ConsumerPush ==
  /\ ~exited /\ pcC = "push"
  /\ addrVector' = Append(addrVector, held)
  /\ held' = 0
  /\ mutex' = Free
  /\ pcC' = "read"
  /\ UNCHANGED <<nread, childVector, done, alive, targetUp, exited, pcW, pcM>>

(***************************************************************************)
(* th_pebs_window_timeout.                                                 *)
(***************************************************************************)

WindowHead ==
  /\ ~exited /\ pcW = "head"
  /\ pcW' = IF alive THEN "sleep" ELSE "returned"
  /\ UNCHANGED <<dataVars, mutex, alive, targetUp, exited, pcC, pcM>>

WakeUp ==
  /\ ~exited /\ pcW = "sleep"
  /\ pcW' = "size"
  /\ UNCHANGED <<dataVars, mutex, alive, targetUp, exited, pcC, pcM>>

\* addr_vector.size() > 0, read without the mutex: while a push_back into the
\* empty vector is under way, the read may see either side of it.
SizeReads_OfChild == {childVector # <<>>}
SizeReads ==
  IF addrVector # <<>> THEN {TRUE}
  ELSE IF pcC = "push" THEN {TRUE, FALSE} ELSE {FALSE}

CheckSize ==
  /\ ~exited /\ pcW = "size"
  /\ \E nonempty \in SizeReads : pcW' = IF nonempty THEN "lock" ELSE "head"
  /\ UNCHANGED <<dataVars, mutex, alive, targetUp, exited, pcC, pcM>>

MayLock_Ignored == TRUE
MayLock == mutex = Free

WindowLock ==
  /\ ~exited /\ pcW = "lock" /\ MayLock
  /\ mutex' = "window"
  /\ pcW' = "copy"
  /\ UNCHANGED <<dataVars, alive, targetUp, exited, pcC, pcM>>

\* copy to the child vector, clear, unlock.
AfterCopy_Kept == addrVector
AfterCopy == <<>>

CopyBatch ==
  /\ ~exited /\ pcW = "copy"
  /\ childVector' = childVector \o addrVector
  /\ addrVector' = AfterCopy
  /\ mutex' = Free
  /\ pcW' = "dispatch"
  /\ UNCHANGED <<nread, held, done, alive, targetUp, exited, pcC, pcM>>

\* The batch is processed, or dropped because migration is disabled or
\* because th_process_events_and_migrate sees the daemon shutting down.
Dispatch ==
  /\ ~exited /\ pcW = "dispatch"
  /\ pcW' = IF DisableMigration \/ ~alive THEN "clear" ELSE "process"
  /\ UNCHANGED <<dataVars, mutex, alive, targetUp, exited, pcC, pcM>>

Process ==
  /\ ~exited /\ pcW = "process"
  /\ \/ /\ pcW' = "clear"
        /\ exited' = exited
     \/ /\ ProcessingMayExit
        /\ exited' = TRUE
        /\ pcW' = pcW
  /\ UNCHANGED <<dataVars, mutex, alive, targetUp, pcC, pcM>>

ClearBatch ==
  /\ ~exited /\ pcW = "clear"
  /\ done' = done \o childVector
  /\ childVector' = <<>>
  /\ pcW' = "head"
  /\ UNCHANGED <<nread, held, addrVector, mutex, alive, targetUp, exited,
                 pcC, pcM>>

(***************************************************************************)
(* main, from its polling loop on.                                         *)
(***************************************************************************)

PollFails_Both == ~targetUp /\ ~alive
PollFails == ~targetUp \/ ~alive

Poll ==
  /\ ~exited /\ pcM = "poll" /\ PollFails
  /\ alive' = FALSE
  /\ pcM' = "killConsumer"
  /\ UNCHANGED <<dataVars, mutex, targetUp, exited, pcC, pcW>>

\* pthread_kill delivers to a thread that has not returned.  SIGUSR1 has no
\* handler and SIGKILL cannot have one: either ends the whole process.
Kill(threadPc, next) ==
  IF threadPc # "returned" THEN exited' = TRUE /\ pcM' = pcM
                           ELSE exited' = exited /\ pcM' = next

KillConsumer ==
  /\ ~exited /\ pcM = "killConsumer"
  /\ Kill(pcC, "killWindow")
  /\ UNCHANGED <<dataVars, mutex, alive, targetUp, pcC, pcW>>

WindowKilled_Never == "returned"
WindowKilled == pcW

KillWindow ==
  /\ ~exited /\ pcM = "killWindow"
  /\ Kill(WindowKilled, "clear")
  /\ UNCHANGED <<dataVars, mutex, alive, targetUp, pcC, pcW>>

\* addr_vector.clear(), without the mutex, and return from main.
MainReturn ==
  /\ ~exited /\ pcM = "clear"
  /\ addrVector' = <<>>
  /\ exited' = TRUE
  /\ UNCHANGED <<nread, held, childVector, done, mutex, alive, targetUp,
                 pcC, pcW, pcM>>

\* intHandler on the main thread: SIGINT or SIGUSR2, exit five seconds later.
Interrupt ==
  /\ ~exited /\ pcM = "poll"
  /\ alive' = FALSE
  /\ pcM' = "handler"
  /\ UNCHANGED <<dataVars, mutex, targetUp, exited, pcC, pcW>>

HandlerExit ==
  /\ ~exited /\ pcM = "handler"
  /\ exited' = TRUE
  /\ UNCHANGED <<dataVars, mutex, alive, targetUp, pcC, pcW, pcM>>

TargetExits ==
  /\ ~exited /\ targetUp
  /\ targetUp' = FALSE
  /\ UNCHANGED <<dataVars, mutex, alive, exited, pcC, pcW, pcM>>

Ended == exited /\ UNCHANGED vars

Consumer == ReadLine \/ EndOfInput \/ ReadMalformed
            \/ ConsumerLock \/ ConsumerPush
WindowThread == WindowHead \/ WakeUp \/ CheckSize \/ WindowLock \/ CopyBatch
                \/ Dispatch \/ Process \/ ClearBatch
Main == Poll \/ KillConsumer \/ KillWindow \/ MainReturn \/ HandlerExit

Next == Consumer \/ WindowThread \/ Main \/ Interrupt \/ TargetExits \/ Ended

Spec == Init /\ [][Next]_vars

\* Threads that can run are scheduled; a sleep ends and a batch is processed
\* within its time limit.  Input, signals and the target's end are not forced.
Fairness ==
  /\ WF_vars(ConsumerLock \/ ConsumerPush)
  /\ WF_vars(WindowThread)
  /\ WF_vars(Main)

FairSpec == Spec /\ Fairness

(***************************************************************************)
(* Properties.                                                             *)
(***************************************************************************)

Accesses == 1..MaxEvents

\* Type correctness; the mutex is held exactly inside the critical sections.
TypeOK ==
  /\ nread \in 0..MaxEvents
  /\ held \in 0..MaxEvents
  /\ addrVector \in Seq(Accesses)
  /\ childVector \in Seq(Accesses)
  /\ done \in Seq(Accesses)
  /\ alive \in BOOLEAN /\ targetUp \in BOOLEAN /\ exited \in BOOLEAN
  /\ pcC \in {"read", "lock", "push", "returned"}
  /\ pcW \in {"head", "sleep", "size", "lock", "copy", "dispatch", "process",
              "clear", "returned"}
  /\ pcM \in {"poll", "killConsumer", "killWindow", "clear", "handler"}
  /\ mutex \in {Free, "consumer", "window"}
  /\ mutex = "consumer" <=> pcC = "push"
  /\ mutex = "window" <=> pcW = "copy"

\* Everything read and not dropped at shutdown, in the order of processing.
Delivered == done \o childVector \o addrVector
               \o (IF held = 0 THEN <<>> ELSE <<held>>)

\* No access is lost, duplicated or reordered between the input, the shared
\* vector, the batch and the windows already processed.
FifoDelivery ==
  ~exited =>
    /\ \A i \in 1..Len(Delivered) : Delivered[i] = i
    /\ pcC # "returned" => Len(Delivered) = nread

\* The unlocked size test never lets an empty batch through: a batch handed to
\* th_process_events_and_migrate has at least one access.
BatchNotEmpty == pcW \in {"dispatch", "process"} => childVector # <<>>

\* main clears addr_vector without the mutex only when nobody else runs.
UnlockedClearIsAlone ==
  ~exited /\ pcM = "clear" => pcC = "returned" /\ pcW = "returned"

\* An access stored by the consumer goes through a window, unless the daemon
\* is taken down first.
AccessesProcessed ==
  \A e \in Accesses :
    (\E i \in 1..Len(addrVector) : addrVector[i] = e)
      ~> ((\E i \in 1..Len(done) : done[i] = e) \/ ~alive \/ exited)

\* The daemon ends after its target has ended or it was told to stop.
ShutdownCompletes == (~targetUp \/ ~alive) ~> exited

=============================================================================
