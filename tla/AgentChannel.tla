----------------------------- MODULE AgentChannel -----------------------------
(***************************************************************************)
(* One agent channel (app/services/agent_channel.py): a loop that receives *)
(* frames, a task per exec frame, and a terminal (PtySession), of which a  *)
(* pump reads the output and a waiter awaits the end.  Guest commands of   *)
(* an output exclude each other by a guard, which its holder has to keep   *)
(* as long as its process lives.                                           *)
(***************************************************************************)
EXTENDS Naturals

CONSTANTS
    ExecIds,    \* the ids of exec frames
    MaxExecs,   \* bound: exec frames
    MaxShells,  \* bound: terminals opened
    NoOne       \* nobody holds the guard

Shells == 1..MaxShells

(* The guard tells an exec from a terminal and both from nobody.           *)
ASSUME ChannelAssumption ==
    /\ MaxExecs \in Nat /\ MaxShells \in Nat
    /\ ExecIds \cap Shells = {} /\ NoOne \notin ExecIds \cup Shells

VARIABLES
    client,  \* is the agent connected?
    loop,    \* run_agent_channel: what it awaits, for which task or terminal
    execs,   \* exec frames received so far
    exec,    \* the task of each id, its process
    told,    \* terminal frames sent for the last exec of each id
    final,   \* terminal_exec_ids
    mine,    \* pty_session, 0 if none
    shell,   \* the PtySession objects
    guard,   \* who holds backend_guest_exec_guard
    past     \* for the properties only

execVars == <<execs, exec, told, final>>
shellVars == <<mine, shell>>
vars == <<client, loop, execVars, shellVars, guard, past>>

NoTask == [at |-> "none", alive |-> FALSE]
NoShell == [alive |-> FALSE, closed |-> FALSE, open |-> FALSE,
            pump |-> "none", waiter |-> "none"]

Init ==
    /\ client = TRUE
    /\ loop = [at |-> "receive", on |-> NoOne, then |-> "receive"]
    /\ execs = 0 /\ exec = [i \in ExecIds |-> NoTask]
    /\ told = [i \in ExecIds |-> 1] /\ final = ExecIds
    /\ mine = 0 /\ shell = [s \in Shells |-> NoShell]
    /\ guard = NoOne
    /\ past = [cut |-> {}, torn |-> {}, malformed |-> {}]

Receives == loop.at = "receive"
Await(where, on, next) == loop' = [at |-> where, on |-> on, then |-> next]
Return == loop' = [at |-> loop.then, on |-> NoOne, then |-> "receive"]
Released(who) == IF guard = who THEN NoOne ELSE guard

-----------------------------------------------------------------------------
(* An exec frame: an id that is registered is refused.                     *)
Exec(i) ==
    /\ Receives /\ client /\ execs < MaxExecs /\ exec[i].at = "none"
    /\ exec' = [exec EXCEPT ![i].at = "created"]
    /\ execs' = execs + 1 /\ told' = [told EXCEPT ![i] = 0] /\ final' = final \ {i}
    /\ past' = [past EXCEPT !.cut = @ \ {i}, !.malformed = @ \ {i}]
    /\ UNCHANGED <<client, loop, shellVars, guard>>

(* One without a command (_exec_command) is only found out in its task,    *)
(* before any try: the task ends and nobody tells the agent.               *)
ExecMalformed(i) ==
    /\ exec[i].at = "created"
    /\ exec' = [exec EXCEPT ![i].at = "over"]
    /\ past' = [past EXCEPT !.malformed = @ \cup {i}]
    /\ UNCHANGED <<client, loop, execs, told, final, shellVars, guard>>

(* The task takes the guard, or answers that the output is busy.           *)
ExecBegins(i) ==
    /\ exec[i].at = "created"
    /\ exec' = [exec EXCEPT ![i].at = IF guard = NoOne THEN "starting" ELSE "refusing"]
    /\ guard' = IF guard = NoOne THEN i ELSE guard
    /\ UNCHANGED <<client, loop, execs, told, final, shellVars, past>>

(* The start frame, then podman exec, either of which may fail.            *)
ExecStarts(i) ==
    /\ exec[i].at = "starting" /\ client
    /\ exec' = [exec EXCEPT ![i] = [at |-> "running", alive |-> TRUE]]
    /\ UNCHANGED <<client, loop, execs, told, final, shellVars, guard, past>>

StartFails(i) ==
    /\ exec[i].at = "starting"
    /\ exec' = [exec EXCEPT ![i].at = "refusing"]
    /\ UNCHANGED <<client, loop, execs, told, final, shellVars, guard, past>>

(* The process ends, is killed after its timeout, or after a cancellation. *)
ExecEnds(i) ==
    /\ exec[i].alive
    /\ exec' = [exec EXCEPT ![i] = [alive |-> FALSE,
                  at |-> IF @.at = "reaping" THEN "confirming" ELSE "telling"]]
    /\ UNCHANGED <<client, loop, execs, told, final, shellVars, guard, past>>

TimesOut(i) ==
    /\ exec[i].at = "running"
    /\ exec' = [exec EXCEPT ![i].at = "killing"]
    /\ UNCHANGED <<client, loop, execs, told, final, shellVars, guard, past>>

(* The terminal frame: exit, timeout, an error, "cancelled".  A client who *)
(* does not read keeps the sender waiting although the frame is on its way.*)
Tell(i, slow) ==
    /\ exec[i].at \in {"telling", "refusing", "confirming"}
    /\ slow => client /\ exec[i].at = "telling"
    /\ exec' = [exec EXCEPT ![i].at = IF slow THEN "draining" ELSE "over"]
    /\ told' = [told EXCEPT ![i] = IF client THEN @ + 1 ELSE @]
    /\ final' = IF client /\ ~slow THEN final \cup {i} ELSE final
    /\ guard' = IF slow THEN guard ELSE Released(i)
    /\ UNCHANGED <<client, loop, execs, shellVars, past>>

Drained(i) ==
    /\ exec[i].at = "draining"
    /\ exec' = [exec EXCEPT ![i].at = "over"]
    /\ final' = final \cup {i} /\ guard' = Released(i)
    /\ UNCHANGED <<client, loop, execs, told, shellVars, past>>

(* The callback of a task that is over takes its id out of exec_tasks.     *)
Popped(i) ==
    /\ exec[i].at = "over"
    /\ exec' = [exec EXCEPT ![i].at = "none"]
    /\ UNCHANGED <<client, loop, execs, told, final, shellVars, guard, past>>

(* task.cancel(): before its first step the task just ends, a refusal is   *)
(* left unsent, everything in the try is reaped and confirmed.             *)
Cancelled(i) ==
    CASE exec[i].at \in {"created", "refusing"} -> [exec[i] EXCEPT !.at = "over"]
      [] exec[i].alive -> [exec[i] EXCEPT !.at = "reaping"]
      [] exec[i].at \in {"starting", "telling", "draining"} ->
           [exec[i] EXCEPT !.at = "confirming"]
      [] OTHER -> exec[i]
GuardAfter(cancelled) ==
    IF \E i \in cancelled : guard = i /\ exec[i].at = "refusing" THEN NoOne ELSE guard
Cut(cancelled) ==
    past' = [past EXCEPT !.cut = @ \cup {i \in cancelled : exec[i].at = "draining"}]

(* A cancel frame for an exec: the loop awaits its task ...                *)
Cancel(i) ==
    /\ Receives /\ client /\ exec[i].at # "none"
    /\ exec' = [exec EXCEPT ![i] = Cancelled(i)]
    /\ guard' = GuardAfter({i}) /\ Cut({i})
    /\ Await("cancel", i, "receive")
    /\ UNCHANGED <<client, execs, told, final, shellVars>>

(* Mutant: the task is always answered for.                                *)
Unanswered(i) == TRUE

(* ... and answers for a task that has not sent a terminal frame.          *)
ToldNothing(i) == i \notin final

CancelReturns ==
    LET i == loop.on IN
    /\ loop.at = "cancel" /\ exec[i].at \in {"over", "none"}
    /\ IF ToldNothing(i) /\ client
       THEN told' = [told EXCEPT ![i] = @ + 1] /\ final' = final \cup {i}
       ELSE UNCHANGED <<told, final>>
    /\ IF client THEN Return ELSE Await("end", NoOne, "ended")
    /\ UNCHANGED <<client, execs, exec, shellVars, guard, past>>

-----------------------------------------------------------------------------
(* A pty.open frame, for which an older terminal must be closed: the guard *)
(* is taken, podman exec and the two tasks are started.                    *)
Open(s) ==
    /\ Receives /\ client /\ guard = NoOne
    /\ mine # 0 => shell[mine].closed
    /\ shell[s] = NoShell /\ \A r \in 1..(s - 1) : shell[r] # NoShell
    /\ shell' = [shell EXCEPT ![s] = [alive |-> TRUE, closed |-> FALSE, open |-> TRUE,
                                      pump |-> "reading", waiter |-> "waiting"]]
    /\ guard' = s /\ Await("opening", s, "receive")
    /\ UNCHANGED <<client, execVars, mine, past>>

Opened ==
    /\ loop.at = "opening" /\ client
    /\ mine' = loop.on /\ Return
    /\ UNCHANGED <<client, execVars, shell, guard, past>>

ShellExits(s) ==
    /\ shell[s].alive
    /\ shell' = [shell EXCEPT ![s].alive = FALSE]
    /\ UNCHANGED <<client, loop, execVars, mine, guard, past>>

(* The pump ends with the terminal, or with output for an agent that went. *)
PumpEnds(s) ==
    /\ shell[s].pump = "reading" /\ (~shell[s].alive \/ ~shell[s].open \/ ~client)
    /\ shell' = [shell EXCEPT ![s].pump = "over"]
    /\ UNCHANGED <<client, loop, execVars, mine, guard, past>>

(* It has seen no activity for too long, and says so.                      *)
PumpIdle(s) ==
    /\ shell[s].pump = "reading" /\ ~shell[s].closed
    /\ shell' = [shell EXCEPT ![s].pump = "idle"]
    /\ UNCHANGED <<client, loop, execVars, mine, guard, past>>

(* _shutdown, up to the wait for the process, by the pump or by the loop,  *)
(* which cancels the pump.  The waiter is only cancelled afterwards: its   *)
(* last act is to release the guard.                                       *)
Closing(s) == [shell[s] EXCEPT !.closed = TRUE, !.open = FALSE]

(* Cancelled in its own _shutdown the pump cancels the waiter and releases *)
(* the guard, whether the process is over or not.                          *)
ClosingAll(s) ==  \* mutant: the waiter is cancelled with the pump
    [shell |-> [Closing(s) EXCEPT !.pump = "over", !.waiter = "over"],
     guard |-> Released(s), torn |-> past.torn]
ClosingUnpumped(s) ==
    IF shell[s].pump = "closing"
    THEN [shell |-> [Closing(s) EXCEPT !.pump = "over", !.waiter = "over"],
          guard |-> Released(s), torn |-> past.torn \cup {s}]
    ELSE [shell |-> [Closing(s) EXCEPT !.pump = "over"],
          guard |-> guard, torn |-> past.torn]

(* The descriptor a write waits for is closed under it, and the loop never *)
(* wakes; the hang-up of a process that is over may have woken it before.  *)
PumpExpires(s, wakes) ==
    /\ shell[s].pump = "idle" /\ ~shell[s].closed /\ client
    /\ wakes => ~shell[s].alive
    /\ shell' = [shell EXCEPT ![s] = [Closing(s) EXCEPT !.pump = "closing"]]
    /\ IF loop.at = "write" /\ loop.on = s /\ ~wakes
       THEN Await("stuck", s, "ended") ELSE UNCHANGED loop
    /\ UNCHANGED <<client, execVars, mine, guard, past>>

PumpGivesUp(s) ==
    /\ shell[s].pump = "idle" /\ (shell[s].closed \/ ~client)
    /\ shell' = [shell EXCEPT ![s].pump = "over"]
    /\ UNCHANGED <<client, loop, execVars, mine, guard, past>>

LoopCloses(s, next) ==
    LET close == ClosingUnpumped(s) IN
    /\ shell' = [shell EXCEPT ![s] = close.shell]
    /\ guard' = close.guard /\ past' = [past EXCEPT !.torn = close.torn]
    /\ Await("close", s, next)
    /\ UNCHANGED <<client, execVars>>

(* pty.close and cancel frames; a disconnect, or a failure to tell of it.  *)
Close == Receives /\ client /\ mine # 0 /\ mine' = 0 /\ LoopCloses(mine, "receive")
OpenForgets ==  \* mutant: a terminal that was not announced is left
    loop.at = "opening" /\ ~client /\ Await("end", NoOne, "ended")
    /\ UNCHANGED <<client, execVars, shellVars, guard, past>>
OpenFails == loop.at = "opening" /\ ~client /\ LoopCloses(loop.on, "end") /\ UNCHANGED mine

(* The process is over (SIGTERM, 2 s, SIGKILL): the tasks are cancelled,   *)
(* which ends both of them, and the guard is released.                     *)
Reaped(s) == [shell[s] EXCEPT !.pump = "over", !.waiter = "over"]

PumpReaps(s) ==
    /\ shell[s].pump = "closing" /\ ~shell[s].alive
    /\ shell' = [shell EXCEPT ![s] = Reaped(s)]
    /\ guard' = Released(s)
    /\ UNCHANGED <<client, loop, execVars, mine, past>>

LoopReaps ==
    /\ loop.at = "close" /\ ~shell[loop.on].alive
    /\ shell' = [shell EXCEPT ![loop.on] = Reaped(loop.on)]
    /\ guard' = Released(loop.on)
    /\ IF loop.then = "receive" /\ ~client THEN Await("end", NoOne, "ended") ELSE Return
    /\ UNCHANGED <<client, execVars, mine, past>>

(* The waiter lets the pump read what is left, for a second.               *)
WaiterSees(s) ==
    /\ shell[s].waiter = "waiting" /\ ~shell[s].alive
    /\ shell' = [shell EXCEPT ![s].waiter = "draining"]
    /\ UNCHANGED <<client, loop, execVars, mine, guard, past>>

WaiterGoesOn(s) ==
    /\ shell[s].waiter = "draining"
    /\ shell' = [shell EXCEPT ![s] =
         IF @.closed
         THEN [@ EXCEPT !.open = FALSE, !.pump = "over", !.waiter = "over"]
         ELSE [@ EXCEPT !.closed = TRUE, !.pump = "over", !.waiter = "telling"]]
    /\ guard' = IF shell[s].closed THEN Released(s) ELSE guard
    /\ UNCHANGED <<client, loop, execVars, mine, past>>

(* pty.exit, and the guard in any case.                                    *)
WaiterEnds(s) ==
    /\ shell[s].waiter = "telling"
    /\ shell' = [shell EXCEPT ![s].open = FALSE, ![s].waiter = "over"]
    /\ guard' = Released(s)
    /\ UNCHANGED <<client, loop, execVars, mine, past>>

(* A pty.stdin frame that the terminal does not take at once keeps the     *)
(* loop waiting until its program reads or ends.                           *)
Write ==
    /\ Receives /\ client /\ mine # 0 /\ shell[mine].open /\ ~shell[mine].closed
    /\ Await("write", mine, "receive")
    /\ UNCHANGED <<client, execVars, shellVars, guard, past>>

Written ==
    /\ loop.at = "write"
    /\ Return
    /\ UNCHANGED <<client, execVars, shellVars, guard, past>>

-----------------------------------------------------------------------------
(* The agent goes; the loop notices when it receives.                      *)
Disconnects ==
    /\ client /\ client' = FALSE
    /\ UNCHANGED <<loop, execVars, shellVars, guard, past>>

Ends ==
    /\ Receives /\ ~client /\ Await("end", NoOne, "ended")
    /\ UNCHANGED <<client, execVars, shellVars, guard, past>>

(* finally: every exec is cancelled and awaited, then the terminal closed. *)
CancelAll ==
    /\ loop.at = "end"
    /\ exec' = [i \in ExecIds |-> Cancelled(i)]
    /\ guard' = GuardAfter(ExecIds) /\ Cut(ExecIds)
    /\ Await("reap", NoOne, "ended")
    /\ UNCHANGED <<client, execs, told, final, shellVars>>

CloseLast ==
    /\ loop.at = "reap" /\ \A i \in ExecIds : exec[i].at \in {"over", "none"}
    /\ IF mine # 0 THEN LoopCloses(mine, "ended") /\ mine' = 0
       ELSE Return /\ UNCHANGED <<client, execVars, shellVars, guard, past>>

-----------------------------------------------------------------------------
ExecStep(i) ==
    \/ ExecMalformed(i) \/ ExecBegins(i) \/ ExecStarts(i) \/ StartFails(i) \/ ExecEnds(i)
    \/ Drained(i) \/ Popped(i) \/ \E slow \in BOOLEAN : Tell(i, slow)
ShellStep(s) ==
    \/ PumpGivesUp(s) \/ PumpReaps(s)
    \/ WaiterSees(s) \/ WaiterGoesOn(s) \/ WaiterEnds(s)
    \/ \E wakes \in BOOLEAN : PumpExpires(s, wakes)
LoopStep ==
    CancelReturns \/ Opened \/ OpenFails \/ LoopReaps \/ Ends \/ CancelAll \/ CloseLast

Next ==
    \/ \E i \in ExecIds : Exec(i) \/ ExecStep(i) \/ TimesOut(i) \/ Cancel(i)
    \/ \E s \in Shells : Open(s) \/ ShellExits(s) \/ ShellStep(s)
                       \/ PumpEnds(s) \/ PumpIdle(s)
    \/ LoopStep \/ Close \/ Write \/ Written \/ Disconnects

Spec == Init /\ [][Next]_vars

(* The server runs what is ready; processes that are told to end do, if    *)
(* not on SIGTERM then on SIGKILL.  A terminal may stay open, and a write  *)
(* may wait, as long as the program in it likes.                           *)
Killed(s) ==
    (shell[s].pump = "closing" \/ (loop.at = "close" /\ loop.on = s)) /\ ShellExits(s)
Fairness ==
    /\ \A i \in ExecIds : WF_vars(ExecStep(i))
    /\ \A s \in Shells : WF_vars(ShellStep(s)) /\ WF_vars(Killed(s))
    /\ WF_vars(LoopStep)
FairSpec == Spec /\ Fairness

-----------------------------------------------------------------------------
Loops == {"receive", "cancel", "opening", "close", "write", "stuck", "end", "reap", "ended"}
Tasks == {"none", "created", "starting", "refusing", "running", "killing", "reaping",
          "confirming", "telling", "draining", "over"}

Terminals == [alive : BOOLEAN, closed : BOOLEAN, open : BOOLEAN,
              pump : {"none", "reading", "idle", "closing", "over"},
              waiter : {"none", "waiting", "draining", "telling", "over"}]

(* A terminal whose descriptor is closed is closed.                        *)
ShellsOK ==
    /\ shell \in [Shells -> Terminals]
    /\ \A s \in Shells : shell[s].closed \/ shell[s].open \/ shell[s] = NoShell

Pasts == [cut : SUBSET ExecIds, torn : SUBSET Shells, malformed : SUBSET ExecIds]

(* The states of the loop, the tasks and the terminals.                    *)
TypeOK ==
    /\ client \in BOOLEAN
    /\ loop \in [at : Loops, on : ExecIds \cup Shells \cup {NoOne},
                 then : {"receive", "end", "ended"}]
    /\ exec \in [ExecIds -> [at : Tasks, alive : BOOLEAN]] /\ execs \in 0..MaxExecs
    /\ told \in [ExecIds -> 0..2] /\ final \in SUBSET ExecIds
    /\ mine \in 0..MaxShells /\ guard \in ExecIds \cup Shells \cup {NoOne}
    /\ past \in Pasts
    /\ ShellsOK

(* Whoever has a process in the guest has the guard: no other command of   *)
(* the server starts beside it ("another CNC-managed guest command is      *)
(* already running").  Except a terminal that is closed, or whose agent    *)
(* goes, while its pump ends it for idleness.                              *)
GuardCoversProcess ==
    /\ \A i \in ExecIds : exec[i].alive => guard = i
    /\ \A s \in Shells : shell[s].alive => guard = s \/ s \in past.torn

(* An agent that stays hears of every exec exactly once how it ended: its  *)
(* task or the loop tells, whenever it was cancelled.  Twice only if the   *)
(* cancellation met a frame that was on its way to a slow agent, never     *)
(* only of a frame that has no command.                                    *)
AnsweredOnce ==
    \A i \in ExecIds :
        exec[i].at = "none" /\ client /\ ~(loop.at = "cancel" /\ loop.on = i) =>
            \/ told[i] = 1 \/ i \in past.cut
            \/ told[i] = 0 /\ i \in past.malformed

NothingLeft ==
    /\ loop.at = "ended" /\ guard = NoOne
    /\ \A i \in ExecIds : exec[i].at \in {"over", "none"}
    /\ \A s \in Shells : /\ ~shell[s].alive
                          /\ {shell[s].pump, shell[s].waiter} \subseteq {"none", "over"}

(* When the agent has gone the channel ends, unless a write to a terminal  *)
(* holds it up, and leaves no process, no task and no guard behind,        *)
(* whatever was starting or ending then (finally of run_agent_channel).    *)
HangsUp == []<>(~client => NothingLeft \/ loop.at \in {"write", "stuck"})

-----------------------------------------------------------------------------
(* Why they hold.  The loop awaits a task by its id and a terminal by its  *)
(* number, and does not come to its finally before the agent has gone.     *)
LoopInv ==
    /\ loop.at = "cancel" => loop.on \in ExecIds
    /\ loop.at \in {"opening", "close", "write"} => loop.on \in Shells
    /\ loop.at \in {"cancel", "opening", "write"} => loop.then = "receive"
    /\ loop.at \in {"end", "reap", "ended"} => ~client
    /\ loop.at = "close" => /\ loop.then = "receive" \/ ~client
                           /\ shell[loop.on].closed

(* An exec has the guard from its start to its terminal frame, a terminal  *)
(* until its process is over; its waiter goes on only then.                *)
GuardInv ==
    /\ \A i \in ExecIds :
        /\ exec[i].alive <=> exec[i].at \in {"running", "killing", "reaping"}
        /\ exec[i].at \in {"starting", "running", "killing", "reaping",
                          "confirming", "telling", "draining"} => guard = i
    /\ \A s \in Shells :
        /\ shell[s].alive => guard = s \/ s \in past.torn
        /\ shell[s].waiter \in {"draining", "telling"} => ~shell[s].alive
        /\ shell[s].waiter = "telling" => shell[s].closed

(* A task on its way has not told, one that is over has if the agent is    *)
(* there, or its cancellation will; but for one that had no command.       *)
ToldInv ==
    \A i \in ExecIds :
        /\ exec[i].at \notin {"none", "over"} => i \notin final
        /\ exec[i].at \notin {"none", "over", "draining"} =>
            \/ told[i] = 0
            \/ told[i] = 1 /\ i \in past.cut /\ exec[i].at = "confirming"
        /\ exec[i].at = "draining" => told[i] = 1
        /\ exec[i].at \in {"none", "over"} /\ client =>
            IF i \in final THEN told[i] = 1 \/ i \in past.cut
            ELSE /\ told[i] = 0
                 /\ i \in past.malformed \/ (loop.at = "cancel" /\ loop.on = i)

(* The inductive invariant of AgentChannel.                                *)
IInv == TypeOK /\ LoopInv /\ GuardInv /\ ToldInv
===============================================================================
