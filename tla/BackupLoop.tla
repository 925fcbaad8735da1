----------------------------- MODULE BackupLoop -----------------------------
(***************************************************************************)
(* The loop in which a backup listens to its primary, and the Scheduler    *)
(* that puts a limit of six seconds on each accept and each read.          *)
(*                                                                         *)
(* set_timeout_to_routine starts a control thread, looks every 200 ms      *)
(* whether it has set timeoutRoutine[id] or the time is over, cancels it,  *)
(* and looks again.  Cancelling acts on a thread that waits in accept or   *)
(* read; one that has come back still sets its flag.                       *)
(*                                                                         *)
(* Time is counted in whole seconds, as std::time does.  Threads that can  *)
(* move do so within a second.  Messages are numbered in the order of      *)
(* their connections.                                                      *)
(***************************************************************************)
EXTENDS Integers, Sequences, FiniteSets

CONSTANTS
  Messages,     \* bound: the connections the primary makes
  Backlog,      \* connections the socket queues: listen(., 1)
  Ahead,        \* bound: the backups before this one in the primary's rm
  HeartbeatS,   \* HEARTBEAT_MS, in seconds
  TimeoutS,     \* TIMEOUT_SERVER_MS, in seconds
  FdLimit       \* descriptors a process may have open for connections

ASSUME LoopAssumption ==
  /\ {Messages, Backlog, FdLimit} \subseteq Nat \ {0}
  /\ HeartbeatS \in Nat /\ TimeoutS \in Nat /\ HeartbeatS < TimeoutS
  /\ Ahead \in Nat

VARIABLES
  alive,        \* the primary has not ended
  sinceRound,   \* seconds since heartbeat_sender's last round
  ahead, gone,  \* of the backups before this one in rm: those that run, and
                \* those that have ended and are still listed
  link,         \* per message, the state of its connection
  queue,        \* connections that are not accepted yet
  pc, routine,  \* the main thread, and what its call of the scheduler runs
  elapsed,      \* seconds since that call began
  missed,       \* history: rounds since then that left this backup out
  thread,       \* the control thread of the call
  timeoutRoutine,                 \* its flag
  connection_socket, readBytes,   \* what the routines leave behind
  buffer,       \* the message in buffer_response, 0 when it is zeroed
  open,         \* connections that are accepted and not closed
  applied       \* the messages handled, in order

roundVars   == << sinceRound, ahead, gone >>
primaryVars == << alive, roundVars, link, queue >>
callVars    == << elapsed, missed >>
resultVars  == << connection_socket, readBytes, buffer >>
backupVars  == << pc, routine, thread, timeoutRoutine, resultVars, open, applied >>
vars == << primaryVars, callVars, backupVars >>

Sent == Cardinality({m \in 1 .. Messages : link[m] # "none"})

Init ==
  /\ alive = TRUE
  /\ sinceRound \in 0 .. HeartbeatS /\ ahead \in 0 .. Ahead /\ gone = 0
  /\ link = [m \in 1 .. Messages |-> "none"]
  /\ queue = << >>
  /\ pc = "run" /\ routine = "accept"
  /\ elapsed = 0 /\ missed = 0
  /\ thread = "ended"
  /\ timeoutRoutine = FALSE
  /\ connection_socket = 0 /\ readBytes = 0 /\ buffer = 0
  /\ open = 0
  /\ applied = << >>

-----------------------------------------------------------------------------
(***************************************************************************)
(* The primary: a heartbeat, or any other message, is a connection and a   *)
(* write.  It may end in between, and then the read finds the end of the   *)
(* stream, or an error.                                                    *)
(***************************************************************************)
Connect ==
  /\ alive
  /\ Sent < Messages
  /\ Len(queue) < Backlog
  /\ link' = [link EXCEPT ![Sent + 1] = "open"]
  /\ queue' = Append(queue, Sent + 1)

\* Any message but a heartbeat.
Notify == Connect /\ UNCHANGED << alive, roundVars, callVars, backupVars >>

\* A backup before this one in rm ends; it refuses the next heartbeat.
BackupEnds ==
  /\ alive /\ ahead > 0
  /\ ahead' = ahead - 1 /\ gone' = gone + 1
  /\ UNCHANGED << alive, sinceRound, link, queue, callVars, backupVars >>

(***************************************************************************)
(* A round of heartbeat_sender, and its clock starts again.  The first     *)
(* backup that refuses is erased and ends the round: those after it are    *)
(* left out.  So is a backup for which socket() fails, as it does sooner   *)
(* or later in a primary that closes no heartbeat's socket; where it fails *)
(* for one that has ended, the round goes on to those after it.            *)
(***************************************************************************)
StartRound == alive /\ sinceRound = HeartbeatS /\ sinceRound' = 0

Heartbeat ==
  /\ StartRound
  /\ Connect
  /\ UNCHANGED << alive, ahead, gone, callVars, backupVars >>

HeartbeatRefused ==
  /\ StartRound
  /\ gone > 0 /\ gone' = gone - 1
  /\ missed' = missed + 1
  /\ UNCHANGED << alive, ahead, link, queue, elapsed, backupVars >>

HeartbeatNoSocket ==
  /\ StartRound
  /\ missed' = missed + 1
  /\ UNCHANGED << alive, ahead, gone, link, queue, elapsed, backupVars >>

PrimaryWrite ==
  /\ alive
  /\ \E m \in 1 .. Messages : /\ link[m] = "open"
                              /\ link' = [link EXCEPT ![m] = "written"]
  /\ UNCHANGED << alive, roundVars, queue, callVars, backupVars >>

PrimaryEnd ==
  /\ alive
  /\ alive' = FALSE
  /\ link' = [m \in 1 .. Messages |-> IF link[m] = "open" THEN "ended" ELSE link[m]]
  /\ UNCHANGED << roundVars, queue, callVars, backupVars >>

-----------------------------------------------------------------------------
(***************************************************************************)
(* The control thread.  At the limit of descriptors accept fails at once.  *)
(***************************************************************************)
Begin ==
  /\ thread = "created"
  /\ thread' = "inside"
  /\ UNCHANGED << primaryVars, pc, routine, callVars, timeoutRoutine, resultVars, open, applied >>

AcceptConnection ==
  /\ thread = "inside" /\ routine = "accept"
  /\ open < FdLimit
  /\ queue # << >>
  /\ connection_socket' = Head(queue)
  /\ queue' = Tail(queue)
  /\ open' = open + 1
  /\ thread' = "returned"
  /\ UNCHANGED << alive, roundVars, link, pc, routine, callVars, timeoutRoutine,
                  readBytes, buffer, applied >>

AcceptFails ==
  /\ thread = "inside" /\ routine = "accept"
  /\ open = FdLimit
  /\ connection_socket' = -1
  /\ thread' = "returned"
  /\ UNCHANGED << primaryVars, pc, routine, callVars, timeoutRoutine,
                  readBytes, buffer, open, applied >>

\* 1 stands for MAX_MAIL_SIZE bytes.
Read ==
  /\ thread = "inside" /\ routine = "read"
  /\ \/ /\ link[connection_socket] = "written"
        /\ readBytes' = 1
        /\ buffer' = connection_socket
     \/ /\ link[connection_socket] = "ended"
        /\ readBytes' \in {-1, 0}
        /\ UNCHANGED buffer
  /\ thread' = "returned"
  /\ UNCHANGED << primaryVars, pc, routine, callVars, timeoutRoutine, connection_socket,
                  open, applied >>

SetFlag ==
  /\ thread = "returned"
  /\ timeoutRoutine' = TRUE
  /\ thread' = "ended"
  /\ UNCHANGED << primaryVars, pc, routine, callVars, resultVars, open, applied >>

CanReturn ==
  \/ routine = "accept" /\ (queue # << >> \/ open = FdLimit)
  \/ routine = "read" /\ link[connection_socket] \in {"written", "ended"}

-----------------------------------------------------------------------------
(***************************************************************************)
(* The main thread: Scheduler::set_timeout_to_routine.                     *)
(***************************************************************************)
\* Mutant of RunRoutine: the flag is not reset; a call in the same second finds it set.
RunRoutineUnreset ==
  /\ pc = "run"
  /\ timeoutRoutine' \in {timeoutRoutine, FALSE}
  /\ thread' = "created"
  /\ elapsed' = 0 /\ missed' = 0
  /\ pc' = "wait"
  /\ UNCHANGED << primaryVars, routine, resultVars, open, applied >>

\* An id is the second the call begins in: two calls of a second have one flag.
RunRoutine ==
  /\ pc = "run"
  /\ timeoutRoutine' = FALSE
  /\ thread' = "created"
  /\ elapsed' = 0 /\ missed' = 0
  /\ pc' = "wait"
  /\ UNCHANGED << primaryVars, routine, resultVars, open, applied >>

\* Mutant of WaitRoutine: the time is over before a heartbeat is due.
WaitRoutineShort ==
  /\ pc = "wait"
  /\ timeoutRoutine \/ elapsed >= HeartbeatS - 1
  /\ pc' = "finish"
  /\ UNCHANGED << primaryVars, routine, callVars, thread, timeoutRoutine, resultVars, open, applied >>

\* Mutant of WaitRoutine: it waits for the routine only.
WaitRoutineForever ==
  /\ pc = "wait"
  /\ timeoutRoutine
  /\ pc' = "finish"
  /\ UNCHANGED << primaryVars, routine, callVars, thread, timeoutRoutine, resultVars, open, applied >>

WaitRoutine ==
  /\ pc = "wait"
  /\ timeoutRoutine \/ elapsed >= TimeoutS
  /\ pc' = "finish"
  /\ UNCHANGED << primaryVars, routine, callVars, thread, timeoutRoutine, resultVars, open, applied >>

FinishRoutine ==
  /\ pc = "finish"
  /\ thread' = IF thread \in {"created", "inside"} THEN "cancelled" ELSE thread
  /\ pc' = "answer"
  /\ UNCHANGED << primaryVars, routine, callVars, timeoutRoutine, resultVars, open, applied >>

\* Mutant of Answer: a failed accept closes a connection too.
AnswerClosesAlways ==
  /\ pc = "answer"
  /\ IF ~ timeoutRoutine
     THEN pc' = "election" /\ UNCHANGED << routine, open >>
     ELSE IF routine = "accept"
     THEN /\ pc' = "run"
          /\ routine' = IF connection_socket = -1 THEN "accept" ELSE "read"
          /\ open' = open - 1
     ELSE /\ pc' = IF readBytes < 0 THEN "run" ELSE "handle"
          /\ open' = open - 1
          /\ routine' = "accept"
  /\ UNCHANGED << primaryVars, callVars, thread, timeoutRoutine, resultVars, applied >>

\* In init_server_as_backup again: a timeout, an accept, a read.
Answer ==
  /\ pc = "answer"
  /\ IF ~ timeoutRoutine
     THEN pc' = "election" /\ UNCHANGED << routine, open >>
     ELSE IF routine = "accept"
     THEN /\ pc' = "run"
          /\ routine' = IF connection_socket = -1 THEN "accept" ELSE "read"
          /\ UNCHANGED open
     ELSE /\ pc' = IF readBytes < 0 THEN "run" ELSE "handle"
          /\ open' = IF readBytes < 0 THEN open - 1 ELSE open
          /\ routine' = "accept"
  /\ UNCHANGED << primaryVars, callVars, thread, timeoutRoutine, resultVars, applied >>

\* The chain of tests on buffer_response[0]; the connection stays open.
Handle ==
  /\ pc = "handle"
  /\ applied' = IF buffer = 0 THEN applied ELSE Append(applied, buffer)
  /\ pc' = "run"
  /\ UNCHANGED << primaryVars, routine, callVars, thread, timeoutRoutine, resultVars, open >>

\* A primary that is not held up starts a round every HeartbeatS seconds, which
\* takes no time, and writes at once.
Tick ==
  /\ pc = "wait" /\ elapsed < TimeoutS
  /\ thread = "inside" /\ ~ CanReturn
  /\ alive => /\ \A m \in 1 .. Messages : link[m] # "open"
              /\ sinceRound < HeartbeatS
  /\ elapsed' = elapsed + 1
  /\ sinceRound' = IF alive THEN sinceRound + 1 ELSE sinceRound
  /\ UNCHANGED << alive, ahead, gone, link, queue, missed, backupVars >>

-----------------------------------------------------------------------------
Round   == Heartbeat \/ HeartbeatRefused \/ HeartbeatNoSocket
Primary == Notify \/ BackupEnds \/ Round \/ PrimaryWrite \/ PrimaryEnd
Control == Begin \/ AcceptConnection \/ AcceptFails \/ Read \/ SetFlag
Main    == RunRoutine \/ WaitRoutine \/ FinishRoutine \/ Answer \/ Handle

Next == Primary \/ Control \/ Main \/ Tick

Spec == Init /\ [][Next]_vars

(***************************************************************************)
(* The backup's threads run and time passes; the primary owes nothing.     *)
(***************************************************************************)
FairSpec == Spec /\ WF_vars(Control) /\ WF_vars(Main) /\ WF_vars(Tick)

-----------------------------------------------------------------------------
TypeOK ==
  /\ alive \in BOOLEAN
  /\ sinceRound \in 0 .. HeartbeatS
  /\ ahead \in 0 .. Ahead /\ gone \in 0 .. Ahead - ahead
  /\ link \in [1 .. Messages -> {"none", "open", "written", "ended"}]
  /\ queue \in Seq(1 .. Messages) /\ Len(queue) <= Backlog
  /\ pc \in {"run", "wait", "finish", "answer", "handle", "election"}
  /\ routine \in {"accept", "read"}
  /\ elapsed \in 0 .. TimeoutS /\ missed \in Nat
  /\ thread \in {"created", "inside", "returned", "ended", "cancelled"}
  /\ timeoutRoutine \in BOOLEAN
  /\ connection_socket \in -1 .. Messages
  /\ readBytes \in -1 .. 1
  /\ buffer \in 0 .. Messages
  /\ open \in 0 .. FdLimit
  /\ applied \in Seq(1 .. Messages)

(***************************************************************************)
(* Messages are handled in the order of their connections and only those   *)
(* the primary did not live to write are skipped.  In the place of such a  *)
(* one the last message may be handled again: a read of no bytes is taken  *)
(* for a message (line 1367).                                              *)
(***************************************************************************)
HandledInOrder ==
  \A i \in DOMAIN applied :
    LET before == IF i = 1 THEN 0 ELSE applied[i - 1]
    IN  IF applied[i] = before
        THEN \E m \in before + 1 .. Messages : link[m] = "ended"
        ELSE /\ before < applied[i]
             /\ \A m \in before + 1 .. applied[i] - 1 : link[m] = "ended"

(***************************************************************************)
(* A primary that lives is replaced by a backup its heartbeats leave out   *)
(* and by no other: the rounds of the call that do so, and the one due at  *)
(* its end, fill the six seconds.  One is enough: a backup that ends can   *)
(* make one that is listed after it take over from a primary that lives.   *)
(***************************************************************************)
NoFalseElection == pc = "election" => ~ alive \/ (missed + 1) * HeartbeatS >= TimeoutS

(***************************************************************************)
(* A primary that ends is noticed, unless the backup has used up its       *)
(* descriptors: it closes no connection that it has read from, and at the  *)
(* limit each accept fails at once, so that no call ever times out.        *)
(***************************************************************************)
SilenceIsNoticed == ~ alive ~> (pc = "election" \/ open = FdLimit)

=============================================================================
