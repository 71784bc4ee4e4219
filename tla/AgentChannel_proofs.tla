-------------------------- MODULE AgentChannel_proofs --------------------------
(***************************************************************************)
(* Proofs about AgentChannel, for any set of exec ids and any number of    *)
(* frames and terminals.                                                   *)
(*                                                                         *)
(* IInv is inductive: ShellsStep and TypeStep (types), LoopInvStep (what   *)
(* the loop awaits), GuardStep (who has the guard) and ToldStep (what was  *)
(* answered) take its parts one at a time, with a case per action of Next. *)
(* GuardCoversProcess and AnsweredOnce are parts of it.                    *)
(***************************************************************************)
EXTENDS AgentChannel, TLAPS

(* The initial state: nothing received, no terminal, the guard free.       *)
LEMMA InitStep == Init => IInv
<1>. SUFFICES ASSUME Init PROVE IInv
  OBVIOUS
<1>. USE ChannelAssumption DEF Init, Shells, NoTask, NoShell
<1>1. TypeOK
  BY DEF TypeOK, ShellsOK, Loops, Tasks, Terminals, Pasts
<1>2. LoopInv /\ GuardInv /\ ToldInv
  BY DEF LoopInv, GuardInv, ToldInv
<1>. QED
  BY <1>1, <1>2 DEF IInv


(* One terminal is replaced.                                               *)
LEMMA ShellPut ==
  ASSUME ShellsOK, NEW s \in Shells, NEW t \in Terminals, t.closed \/ t.open,
         shell' = [shell EXCEPT ![s] = t]
  PROVE  ShellsOK'
<1>1. shell' \in [Shells -> Terminals]
  BY DEF ShellsOK
<1>2. ASSUME NEW r \in Shells
      PROVE  shell'[r].closed \/ shell'[r].open \/ shell'[r] = NoShell
  BY DEF ShellsOK
<1>. QED
  BY <1>1, <1>2 DEF ShellsOK

(* The loop closes one.                                                    *)
LEMMA ShellsClosed ==
  ASSUME ShellsOK, NEW s \in Shells, NEW next, LoopCloses(s, next)
  PROVE  ShellsOK' /\ shell'[s].closed
<1>. DEFINE t == ClosingUnpumped(s).shell
<1>1. t \in Terminals /\ t.closed
  BY DEF ShellsOK, ClosingUnpumped, Closing, Terminals
<1>2. shell' = [shell EXCEPT ![s] = t]
  BY DEF LoopCloses
<1>. QED
  BY <1>1, <1>2, ShellPut DEF ShellsOK

(* Terminals keep their type, and none is left without a descriptor before *)
(* it is closed.                                                           *)
LEMMA ShellsStep == IInv /\ [Next]_vars => ShellsOK'
<1>. SUFFICES ASSUME TypeOK, LoopInv, GuardInv, [Next]_vars
              PROVE  ShellsOK'
  BY DEF IInv
<1>. USE ChannelAssumption DEF TypeOK, Loops, Tasks, Shells, NoTask, NoShell, Receives, Await,
      Return, Released, execVars, shellVars, LoopInv, GuardInv
<1>1. ASSUME NEW i \in ExecIds, Exec(i) PROVE ShellsOK'
  BY <1>1 DEF Exec, ShellsOK
<1>0. ASSUME NEW i \in ExecIds, ExecMalformed(i) PROVE ShellsOK'
  BY <1>0 DEF ExecMalformed, ShellsOK
<1>2. ASSUME NEW i \in ExecIds, ExecBegins(i) PROVE ShellsOK'
  BY <1>2 DEF ExecBegins, ShellsOK
<1>3. ASSUME NEW i \in ExecIds, ExecStarts(i) PROVE ShellsOK'
  BY <1>3 DEF ExecStarts, ShellsOK
<1>4. ASSUME NEW i \in ExecIds, StartFails(i) PROVE ShellsOK'
  BY <1>4 DEF StartFails, ShellsOK
<1>5. ASSUME NEW i \in ExecIds, ExecEnds(i) PROVE ShellsOK'
  BY <1>5 DEF ExecEnds, ShellsOK
<1>6. ASSUME NEW i \in ExecIds, TimesOut(i) PROVE ShellsOK'
  BY <1>6 DEF TimesOut, ShellsOK
<1>7. ASSUME NEW i \in ExecIds, NEW slow \in BOOLEAN, Tell(i, slow) PROVE ShellsOK'
  BY <1>7 DEF Tell, ShellsOK
<1>8. ASSUME NEW i \in ExecIds, Drained(i) PROVE ShellsOK'
  BY <1>8 DEF Drained, ShellsOK
<1>9. ASSUME NEW i \in ExecIds, Popped(i) PROVE ShellsOK'
  BY <1>9 DEF Popped, ShellsOK
<1>10. ASSUME NEW i \in ExecIds, Cancel(i) PROVE ShellsOK'
  BY <1>10 DEF Cancel, ShellsOK
<1>11. ASSUME NEW s \in Shells, Open(s) PROVE ShellsOK'
  <2>. DEFINE t == [alive |-> TRUE, closed |-> FALSE, open |-> TRUE,
                  pump |-> "reading", waiter |-> "waiting"]
  <2>1. t \in Terminals /\ (t.closed \/ t.open)
    BY DEF Terminals
  <2>2. shell' = [shell EXCEPT ![s] = t]
    BY <1>11 DEF Open
  <2>. QED
    BY <2>1, <2>2, ShellPut
<1>12. ASSUME NEW s \in Shells, ShellExits(s) PROVE ShellsOK'
  <2>. DEFINE t == [shell[s] EXCEPT !.alive = FALSE]
  <2>1. s \in Shells /\ shell[s] \in Terminals
        /\ (shell[s].closed \/ shell[s].open)
    BY <1>12 DEF ShellExits, ShellsOK
  <2>2. t \in Terminals /\ (t.closed \/ t.open)
    BY <2>1 DEF Terminals
  <2>3. shell' = [shell EXCEPT ![s] = t]
    BY <1>12 DEF ShellExits
  <2>. QED
    BY <2>1, <2>2, <2>3, ShellPut
<1>13. ASSUME NEW s \in Shells, PumpEnds(s) PROVE ShellsOK'
  <2>. DEFINE t == [shell[s] EXCEPT !.pump = "over"]
  <2>1. s \in Shells /\ shell[s] \in Terminals
        /\ (shell[s].closed \/ shell[s].open)
    BY <1>13 DEF PumpEnds, ShellsOK
  <2>2. t \in Terminals /\ (t.closed \/ t.open)
    BY <2>1 DEF Terminals
  <2>3. shell' = [shell EXCEPT ![s] = t]
    BY <1>13 DEF PumpEnds
  <2>. QED
    BY <2>1, <2>2, <2>3, ShellPut
<1>14. ASSUME NEW s \in Shells, PumpIdle(s) PROVE ShellsOK'
  <2>. DEFINE t == [shell[s] EXCEPT !.pump = "idle"]
  <2>1. s \in Shells /\ shell[s] \in Terminals
        /\ (shell[s].closed \/ shell[s].open)
    BY <1>14 DEF PumpIdle, ShellsOK
  <2>2. t \in Terminals /\ (t.closed \/ t.open)
    BY <2>1 DEF Terminals
  <2>3. shell' = [shell EXCEPT ![s] = t]
    BY <1>14 DEF PumpIdle
  <2>. QED
    BY <2>1, <2>2, <2>3, ShellPut
<1>15. ASSUME NEW s \in Shells, NEW wakes \in BOOLEAN, PumpExpires(s, wakes)
      PROVE  ShellsOK'
  <2>. DEFINE t == [shell[s] EXCEPT !.closed = TRUE, !.open = FALSE, !.pump = "closing"]
  <2>1. s \in Shells /\ shell[s] \in Terminals
        /\ (shell[s].closed \/ shell[s].open)
    BY <1>15 DEF PumpExpires, ShellsOK
  <2>2. t \in Terminals /\ (t.closed \/ t.open)
    BY <2>1 DEF Terminals
  <2>3. shell' = [shell EXCEPT ![s] = t]
    BY <1>15 DEF PumpExpires, Closing
  <2>. QED
    BY <2>1, <2>2, <2>3, ShellPut
<1>16. ASSUME NEW s \in Shells, PumpGivesUp(s) PROVE ShellsOK'
  <2>. DEFINE t == [shell[s] EXCEPT !.pump = "over"]
  <2>1. s \in Shells /\ shell[s] \in Terminals
        /\ (shell[s].closed \/ shell[s].open)
    BY <1>16 DEF PumpGivesUp, ShellsOK
  <2>2. t \in Terminals /\ (t.closed \/ t.open)
    BY <2>1 DEF Terminals
  <2>3. shell' = [shell EXCEPT ![s] = t]
    BY <1>16 DEF PumpGivesUp
  <2>. QED
    BY <2>1, <2>2, <2>3, ShellPut
<1>17. ASSUME NEW s \in Shells, PumpReaps(s) PROVE ShellsOK'
  <2>. DEFINE t == [shell[s] EXCEPT !.pump = "over", !.waiter = "over"]
  <2>1. s \in Shells /\ shell[s] \in Terminals
        /\ (shell[s].closed \/ shell[s].open)
    BY <1>17 DEF PumpReaps, ShellsOK
  <2>2. t \in Terminals /\ (t.closed \/ t.open)
    BY <2>1 DEF Terminals
  <2>3. shell' = [shell EXCEPT ![s] = t]
    BY <1>17 DEF PumpReaps, Reaped
  <2>. QED
    BY <2>1, <2>2, <2>3, ShellPut
<1>18. ASSUME NEW s \in Shells, WaiterSees(s) PROVE ShellsOK'
  <2>. DEFINE t == [shell[s] EXCEPT !.waiter = "draining"]
  <2>1. s \in Shells /\ shell[s] \in Terminals
        /\ (shell[s].closed \/ shell[s].open)
    BY <1>18 DEF WaiterSees, ShellsOK
  <2>2. t \in Terminals /\ (t.closed \/ t.open)
    BY <2>1 DEF Terminals
  <2>3. shell' = [shell EXCEPT ![s] = t]
    BY <1>18 DEF WaiterSees
  <2>. QED
    BY <2>1, <2>2, <2>3, ShellPut
<1>19. ASSUME NEW s \in Shells, WaiterGoesOn(s) PROVE ShellsOK'
  <2>. DEFINE t == IF shell[s].closed
            THEN [shell[s] EXCEPT !.open = FALSE, !.pump = "over", !.waiter = "over"]
            ELSE [shell[s] EXCEPT !.closed = TRUE, !.pump = "over", !.waiter = "telling"]
  <2>1. s \in Shells /\ shell[s] \in Terminals
        /\ (shell[s].closed \/ shell[s].open)
    BY <1>19 DEF WaiterGoesOn, ShellsOK
  <2>2. t \in Terminals /\ (t.closed \/ t.open)
    BY <2>1 DEF Terminals
  <2>3. shell' = [shell EXCEPT ![s] = t]
    BY <1>19 DEF WaiterGoesOn
  <2>. QED
    BY <2>1, <2>2, <2>3, ShellPut
<1>20. ASSUME NEW s \in Shells, WaiterEnds(s) PROVE ShellsOK'
  <2>. DEFINE t == [shell[s] EXCEPT !.open = FALSE, !.waiter = "over"]
  <2>1. s \in Shells /\ shell[s] \in Terminals
        /\ shell[s].closed
    BY <1>20 DEF WaiterEnds, ShellsOK
  <2>2. t \in Terminals /\ (t.closed \/ t.open)
    BY <2>1 DEF Terminals
  <2>3. shell' = [shell EXCEPT ![s] = t]
    <3>. HIDE DEF TypeOK, LoopInv, GuardInv, Loops, Tasks
    <3>. QED
      BY <1>20, <2>1 DEF WaiterEnds
  <2>. QED
    BY <2>1, <2>2, <2>3, ShellPut
<1>21. CASE CancelReturns
  BY <1>21 DEF CancelReturns, ShellsOK
<1>22. CASE Opened
  BY <1>22 DEF Opened, ShellsOK
<1>23. CASE OpenFails
  BY <1>23, ShellsClosed DEF OpenFails
<1>24. CASE LoopReaps
  <2>. DEFINE t == [shell[loop.on] EXCEPT !.pump = "over", !.waiter = "over"]
  <2>1. loop.on \in Shells /\ shell[loop.on] \in Terminals
        /\ (shell[loop.on].closed \/ shell[loop.on].open)
    BY <1>24 DEF LoopReaps, ShellsOK
  <2>2. t \in Terminals /\ (t.closed \/ t.open)
    BY <2>1 DEF Terminals
  <2>3. shell' = [shell EXCEPT ![loop.on] = t]
    BY <1>24 DEF LoopReaps, Reaped
  <2>. QED
    BY <2>1, <2>2, <2>3, ShellPut
<1>25. CASE Ends
  BY <1>25 DEF Ends, ShellsOK
<1>26. CASE CancelAll
  BY <1>26 DEF CancelAll, ShellsOK
<1>27. CASE CloseLast
  <2>1. CASE mine = 0
    BY <1>27, <2>1 DEF CloseLast, ShellsOK
  <2>2. CASE mine # 0
    BY <1>27, <2>2, ShellsClosed DEF CloseLast
  <2>. QED
    BY <2>1, <2>2
<1>28. CASE Close
  BY <1>28, ShellsClosed DEF Close
<1>29. CASE Write
  BY <1>29 DEF Write, ShellsOK
<1>30. CASE Written
  BY <1>30 DEF Written, ShellsOK
<1>31. CASE Disconnects
  BY <1>31 DEF Disconnects, ShellsOK
<1>32. CASE UNCHANGED vars
  BY <1>32 DEF vars, ShellsOK
<1>. QED
  BY <1>0, <1>1, <1>2, <1>3, <1>4, <1>5, <1>6, <1>7, <1>8, <1>9, <1>10, <1>11, <1>12, <1>13,
     <1>14, <1>15, <1>16, <1>17, <1>18, <1>19, <1>20, <1>21, <1>22, <1>23, <1>24,
     <1>25, <1>26, <1>27, <1>28, <1>29, <1>30, <1>31, <1>32
     DEF Next, ExecStep, ShellStep, LoopStep

(* Types are kept; a task tells at most twice because a cancellation that  *)
(* met a frame on its way is the only one to tell again.                   *)
LEMMA TypeStep == IInv /\ [Next]_vars => TypeOK'
<1>. SUFFICES ASSUME TypeOK, LoopInv, ToldInv, ShellsOK', [Next]_vars
              PROVE  TypeOK'
  BY ShellsStep DEF IInv
<1>. USE ChannelAssumption DEF TypeOK, Loops, Tasks, Shells, NoTask, NoShell, Receives, Await,
      Return, Released, execVars, shellVars, LoopInv, ToldInv
<1>1. ASSUME NEW i \in ExecIds, Exec(i) PROVE TypeOK'
  <2>1. past' \in Pasts
    BY <1>1 DEF Exec, Pasts
  <2>. QED
    BY <1>1, <2>1 DEF Exec
<1>0. ASSUME NEW i \in ExecIds, ExecMalformed(i) PROVE TypeOK'
  <2>1. past' \in Pasts
    BY <1>0 DEF ExecMalformed, Pasts
  <2>. QED
    BY <1>0, <2>1 DEF ExecMalformed
<1>2. ASSUME NEW i \in ExecIds, ExecBegins(i) PROVE TypeOK'
  BY <1>2 DEF ExecBegins
<1>3. ASSUME NEW i \in ExecIds, ExecStarts(i) PROVE TypeOK'
  BY <1>3 DEF ExecStarts
<1>4. ASSUME NEW i \in ExecIds, StartFails(i) PROVE TypeOK'
  BY <1>4 DEF StartFails
<1>5. ASSUME NEW i \in ExecIds, ExecEnds(i) PROVE TypeOK'
  BY <1>5 DEF ExecEnds
<1>6. ASSUME NEW i \in ExecIds, TimesOut(i) PROVE TypeOK'
  BY <1>6 DEF TimesOut
<1>7. ASSUME NEW i \in ExecIds, NEW slow \in BOOLEAN, Tell(i, slow) PROVE TypeOK'
  BY <1>7 DEF Tell
<1>8. ASSUME NEW i \in ExecIds, Drained(i) PROVE TypeOK'
  BY <1>8 DEF Drained
<1>9. ASSUME NEW i \in ExecIds, Popped(i) PROVE TypeOK'
  BY <1>9 DEF Popped
<1>10. ASSUME NEW i \in ExecIds, Cancel(i) PROVE TypeOK'
  <2>1. past' \in Pasts
    BY <1>10 DEF Cancel, Cancelled, GuardAfter, Cut, Pasts
  <2>. QED
    BY <1>10, <2>1 DEF Cancel, Cancelled, GuardAfter, Cut
<1>11. ASSUME NEW s \in Shells, Open(s) PROVE TypeOK'
  BY <1>11 DEF Open
<1>12. ASSUME NEW s \in Shells, ShellExits(s) PROVE TypeOK'
  BY <1>12 DEF ShellExits
<1>13. ASSUME NEW s \in Shells, PumpEnds(s) PROVE TypeOK'
  BY <1>13 DEF PumpEnds
<1>14. ASSUME NEW s \in Shells, PumpIdle(s) PROVE TypeOK'
  BY <1>14 DEF PumpIdle
<1>15. ASSUME NEW s \in Shells, NEW wakes \in BOOLEAN, PumpExpires(s, wakes)
      PROVE  TypeOK'
  BY <1>15 DEF PumpExpires, Closing
<1>16. ASSUME NEW s \in Shells, PumpGivesUp(s) PROVE TypeOK'
  BY <1>16 DEF PumpGivesUp
<1>17. ASSUME NEW s \in Shells, PumpReaps(s) PROVE TypeOK'
  BY <1>17 DEF PumpReaps, Reaped
<1>18. ASSUME NEW s \in Shells, WaiterSees(s) PROVE TypeOK'
  BY <1>18 DEF WaiterSees
<1>19. ASSUME NEW s \in Shells, WaiterGoesOn(s) PROVE TypeOK'
  BY <1>19 DEF WaiterGoesOn
<1>20. ASSUME NEW s \in Shells, WaiterEnds(s) PROVE TypeOK'
  BY <1>20 DEF WaiterEnds
<1>21. CASE CancelReturns
  BY <1>21 DEF CancelReturns, ToldNothing
<1>22. CASE Opened
  BY <1>22 DEF Opened
<1>23. CASE OpenFails
  <2>1. past' \in Pasts
    BY <1>23 DEF OpenFails, LoopCloses, ClosingUnpumped, Closing, Pasts
  <2>. QED
    BY <1>23, <2>1 DEF OpenFails, LoopCloses, ClosingUnpumped, Closing
<1>24. CASE LoopReaps
  BY <1>24 DEF LoopReaps, Reaped
<1>25. CASE Ends
  BY <1>25 DEF Ends
<1>26. CASE CancelAll
  <2>1. past' \in Pasts
    BY <1>26 DEF CancelAll, Cancelled, GuardAfter, Cut, Pasts
  <2>. QED
    BY <1>26, <2>1 DEF CancelAll, Cancelled, GuardAfter, Cut
<1>27. CASE CloseLast
  <2>1. past' \in Pasts
    BY <1>27 DEF CloseLast, LoopCloses, ClosingUnpumped, Closing, Pasts
  <2>. QED
    BY <1>27, <2>1 DEF CloseLast, LoopCloses, ClosingUnpumped, Closing
<1>28. CASE Close
  <2>1. past' \in Pasts
    BY <1>28 DEF Close, LoopCloses, ClosingUnpumped, Closing, Pasts
  <2>. QED
    BY <1>28, <2>1 DEF Close, LoopCloses, ClosingUnpumped, Closing
<1>29. CASE Write
  BY <1>29 DEF Write
<1>30. CASE Written
  BY <1>30 DEF Written
<1>31. CASE Disconnects
  BY <1>31 DEF Disconnects
<1>32. CASE UNCHANGED vars
  BY <1>32 DEF vars
<1>. QED
  BY <1>0, <1>1, <1>2, <1>3, <1>4, <1>5, <1>6, <1>7, <1>8, <1>9, <1>10, <1>11, <1>12, <1>13,
     <1>14, <1>15, <1>16, <1>17, <1>18, <1>19, <1>20, <1>21, <1>22, <1>23, <1>24,
     <1>25, <1>26, <1>27, <1>28, <1>29, <1>30, <1>31, <1>32
     DEF Next, ExecStep, ShellStep, LoopStep

(* What the loop awaits exists, and its finally is not reached while the   *)
(* agent is there.                                                         *)
LEMMA LoopInvStep == IInv /\ [Next]_vars => LoopInv'
<1>. SUFFICES ASSUME TypeOK, LoopInv, [Next]_vars
              PROVE  LoopInv'
  BY DEF IInv
<1>. USE ChannelAssumption DEF TypeOK, Loops, Tasks, Shells, NoTask, NoShell, Receives, Await,
      Return, Released, execVars, shellVars, ShellsOK, Terminals, LoopInv
<1>1. ASSUME NEW i \in ExecIds, Exec(i) PROVE LoopInv'
  BY <1>1 DEF Exec
<1>0. ASSUME NEW i \in ExecIds, ExecMalformed(i) PROVE LoopInv'
  BY <1>0 DEF ExecMalformed
<1>2. ASSUME NEW i \in ExecIds, ExecBegins(i) PROVE LoopInv'
  BY <1>2 DEF ExecBegins
<1>3. ASSUME NEW i \in ExecIds, ExecStarts(i) PROVE LoopInv'
  BY <1>3 DEF ExecStarts
<1>4. ASSUME NEW i \in ExecIds, StartFails(i) PROVE LoopInv'
  BY <1>4 DEF StartFails
<1>5. ASSUME NEW i \in ExecIds, ExecEnds(i) PROVE LoopInv'
  BY <1>5 DEF ExecEnds
<1>6. ASSUME NEW i \in ExecIds, TimesOut(i) PROVE LoopInv'
  BY <1>6 DEF TimesOut
<1>7. ASSUME NEW i \in ExecIds, NEW slow \in BOOLEAN, Tell(i, slow) PROVE LoopInv'
  BY <1>7 DEF Tell
<1>8. ASSUME NEW i \in ExecIds, Drained(i) PROVE LoopInv'
  BY <1>8 DEF Drained
<1>9. ASSUME NEW i \in ExecIds, Popped(i) PROVE LoopInv'
  BY <1>9 DEF Popped
<1>10. ASSUME NEW i \in ExecIds, Cancel(i) PROVE LoopInv'
  BY <1>10 DEF Cancel, Cancelled, GuardAfter, Cut
<1>11. ASSUME NEW s \in Shells, Open(s) PROVE LoopInv'
  BY <1>11 DEF Open
<1>12. ASSUME NEW s \in Shells, ShellExits(s) PROVE LoopInv'
  BY <1>12 DEF ShellExits
<1>13. ASSUME NEW s \in Shells, PumpEnds(s) PROVE LoopInv'
  BY <1>13 DEF PumpEnds
<1>14. ASSUME NEW s \in Shells, PumpIdle(s) PROVE LoopInv'
  BY <1>14 DEF PumpIdle
<1>15. ASSUME NEW s \in Shells, NEW wakes \in BOOLEAN, PumpExpires(s, wakes)
      PROVE  LoopInv'
  BY <1>15 DEF PumpExpires, Closing
<1>16. ASSUME NEW s \in Shells, PumpGivesUp(s) PROVE LoopInv'
  BY <1>16 DEF PumpGivesUp
<1>17. ASSUME NEW s \in Shells, PumpReaps(s) PROVE LoopInv'
  BY <1>17 DEF PumpReaps, Reaped
<1>18. ASSUME NEW s \in Shells, WaiterSees(s) PROVE LoopInv'
  BY <1>18 DEF WaiterSees
<1>19. ASSUME NEW s \in Shells, WaiterGoesOn(s) PROVE LoopInv'
  BY <1>19 DEF WaiterGoesOn
<1>20. ASSUME NEW s \in Shells, WaiterEnds(s) PROVE LoopInv'
  BY <1>20 DEF WaiterEnds
<1>21. CASE CancelReturns
  BY <1>21 DEF CancelReturns, ToldNothing
<1>22. CASE Opened
  BY <1>22 DEF Opened
<1>23. CASE OpenFails
  BY <1>23 DEF OpenFails, LoopCloses, ClosingUnpumped, Closing
<1>24. CASE LoopReaps
  BY <1>24 DEF LoopReaps, Reaped
<1>25. CASE Ends
  BY <1>25 DEF Ends
<1>26. CASE CancelAll
  BY <1>26 DEF CancelAll, Cancelled, GuardAfter, Cut
<1>27. CASE CloseLast
  <2>1. CASE mine = 0
    BY <1>27, <2>1 DEF CloseLast
  <2>2. CASE mine # 0
    <3>1. mine \in Shells /\ LoopCloses(mine, "ended") /\ ~client
      BY <1>27, <2>2 DEF CloseLast
    <3>. QED
      BY <3>1 DEF LoopCloses, ClosingUnpumped, Closing
  <2>. QED
    BY <2>1, <2>2
<1>28. CASE Close
  BY <1>28 DEF Close, LoopCloses, ClosingUnpumped, Closing
<1>29. CASE Write
  BY <1>29 DEF Write
<1>30. CASE Written
  BY <1>30 DEF Written
<1>31. CASE Disconnects
  BY <1>31 DEF Disconnects
<1>32. CASE UNCHANGED vars
  BY <1>32 DEF vars
<1>. QED
  BY <1>0, <1>1, <1>2, <1>3, <1>4, <1>5, <1>6, <1>7, <1>8, <1>9, <1>10, <1>11, <1>12, <1>13,
     <1>14, <1>15, <1>16, <1>17, <1>18, <1>19, <1>20, <1>21, <1>22, <1>23, <1>24,
     <1>25, <1>26, <1>27, <1>28, <1>29, <1>30, <1>31, <1>32
     DEF Next, ExecStep, ShellStep, LoopStep

(* The guard goes to one exec or terminal when nobody has it, and is given *)
(* back by its holder, whose process is over or whose pump was torn.       *)
LEMMA GuardStep == IInv /\ [Next]_vars => GuardInv'
<1>. SUFFICES ASSUME TypeOK, LoopInv, GuardInv, [Next]_vars
              PROVE  GuardInv'
  BY DEF IInv
<1>. USE ChannelAssumption DEF TypeOK, Loops, Tasks, Shells, NoTask, NoShell, Receives, Await,
      Return, Released, execVars, shellVars, ShellsOK, Terminals, LoopInv, GuardInv
<1>1. ASSUME NEW i \in ExecIds, Exec(i) PROVE GuardInv'
  BY <1>1 DEF Exec
<1>0. ASSUME NEW i \in ExecIds, ExecMalformed(i) PROVE GuardInv'
  BY <1>0 DEF ExecMalformed
<1>2. ASSUME NEW i \in ExecIds, ExecBegins(i) PROVE GuardInv'
  BY <1>2 DEF ExecBegins
<1>3. ASSUME NEW i \in ExecIds, ExecStarts(i) PROVE GuardInv'
  BY <1>3 DEF ExecStarts
<1>4. ASSUME NEW i \in ExecIds, StartFails(i) PROVE GuardInv'
  BY <1>4 DEF StartFails
<1>5. ASSUME NEW i \in ExecIds, ExecEnds(i) PROVE GuardInv'
  BY <1>5 DEF ExecEnds
<1>6. ASSUME NEW i \in ExecIds, TimesOut(i) PROVE GuardInv'
  BY <1>6 DEF TimesOut
<1>7. ASSUME NEW i \in ExecIds, NEW slow \in BOOLEAN, Tell(i, slow) PROVE GuardInv'
  BY <1>7 DEF Tell
<1>8. ASSUME NEW i \in ExecIds, Drained(i) PROVE GuardInv'
  BY <1>8 DEF Drained
<1>9. ASSUME NEW i \in ExecIds, Popped(i) PROVE GuardInv'
  BY <1>9 DEF Popped
<1>10. ASSUME NEW i \in ExecIds, Cancel(i) PROVE GuardInv'
  BY <1>10 DEF Cancel, Cancelled, GuardAfter, Cut
<1>11. ASSUME NEW s \in Shells, Open(s) PROVE GuardInv'
  BY <1>11 DEF Open
<1>12. ASSUME NEW s \in Shells, ShellExits(s) PROVE GuardInv'
  BY <1>12 DEF ShellExits
<1>13. ASSUME NEW s \in Shells, PumpEnds(s) PROVE GuardInv'
  BY <1>13 DEF PumpEnds
<1>14. ASSUME NEW s \in Shells, PumpIdle(s) PROVE GuardInv'
  BY <1>14 DEF PumpIdle
<1>15. ASSUME NEW s \in Shells, NEW wakes \in BOOLEAN, PumpExpires(s, wakes)
      PROVE  GuardInv'
  BY <1>15 DEF PumpExpires, Closing
<1>16. ASSUME NEW s \in Shells, PumpGivesUp(s) PROVE GuardInv'
  BY <1>16 DEF PumpGivesUp
<1>17. ASSUME NEW s \in Shells, PumpReaps(s) PROVE GuardInv'
  BY <1>17 DEF PumpReaps, Reaped
<1>18. ASSUME NEW s \in Shells, WaiterSees(s) PROVE GuardInv'
  BY <1>18 DEF WaiterSees
<1>19. ASSUME NEW s \in Shells, WaiterGoesOn(s) PROVE GuardInv'
  BY <1>19 DEF WaiterGoesOn
<1>20. ASSUME NEW s \in Shells, WaiterEnds(s) PROVE GuardInv'
  BY <1>20 DEF WaiterEnds
<1>21. CASE CancelReturns
  BY <1>21 DEF CancelReturns, ToldNothing
<1>22. CASE Opened
  BY <1>22 DEF Opened
<1>23. CASE OpenFails
  BY <1>23 DEF OpenFails, LoopCloses, ClosingUnpumped, Closing
<1>24. CASE LoopReaps
  BY <1>24 DEF LoopReaps, Reaped
<1>25. CASE Ends
  BY <1>25 DEF Ends
<1>26. CASE CancelAll
  BY <1>26 DEF CancelAll, Cancelled, GuardAfter, Cut
<1>27. CASE CloseLast
  <2>1. CASE mine = 0
    BY <1>27, <2>1 DEF CloseLast
  <2>2. CASE mine # 0
    <3>1. mine \in Shells /\ LoopCloses(mine, "ended") /\ ~client
      BY <1>27, <2>2 DEF CloseLast
    <3>. QED
      BY <3>1 DEF LoopCloses, ClosingUnpumped, Closing
  <2>. QED
    BY <2>1, <2>2
<1>28. CASE Close
  BY <1>28 DEF Close, LoopCloses, ClosingUnpumped, Closing
<1>29. CASE Write
  BY <1>29 DEF Write
<1>30. CASE Written
  BY <1>30 DEF Written
<1>31. CASE Disconnects
  BY <1>31 DEF Disconnects
<1>32. CASE UNCHANGED vars
  BY <1>32 DEF vars
<1>. QED
  BY <1>0, <1>1, <1>2, <1>3, <1>4, <1>5, <1>6, <1>7, <1>8, <1>9, <1>10, <1>11, <1>12, <1>13,
     <1>14, <1>15, <1>16, <1>17, <1>18, <1>19, <1>20, <1>21, <1>22, <1>23, <1>24,
     <1>25, <1>26, <1>27, <1>28, <1>29, <1>30, <1>31, <1>32
     DEF Next, ExecStep, ShellStep, LoopStep

(* A terminal frame is sent by the task that leaves, or by the loop when   *)
(* the task it cancelled had nothing sent.                                 *)
LEMMA ToldStep == IInv /\ [Next]_vars => ToldInv'
<1>. SUFFICES ASSUME TypeOK, LoopInv, GuardInv, ToldInv, [Next]_vars
              PROVE  ToldInv'
  BY DEF IInv
<1>. USE ChannelAssumption DEF TypeOK, Loops, Tasks, Shells, NoTask, NoShell, Receives, Await,
      Return, Released, execVars, shellVars, LoopInv, GuardInv, ToldInv
<1>1. ASSUME NEW i \in ExecIds, Exec(i) PROVE ToldInv'
  BY <1>1 DEF Exec
<1>0. ASSUME NEW i \in ExecIds, ExecMalformed(i) PROVE ToldInv'
  BY <1>0 DEF ExecMalformed
<1>2. ASSUME NEW i \in ExecIds, ExecBegins(i) PROVE ToldInv'
  BY <1>2 DEF ExecBegins
<1>3. ASSUME NEW i \in ExecIds, ExecStarts(i) PROVE ToldInv'
  BY <1>3 DEF ExecStarts
<1>4. ASSUME NEW i \in ExecIds, StartFails(i) PROVE ToldInv'
  BY <1>4 DEF StartFails
<1>5. ASSUME NEW i \in ExecIds, ExecEnds(i) PROVE ToldInv'
  BY <1>5 DEF ExecEnds
<1>6. ASSUME NEW i \in ExecIds, TimesOut(i) PROVE ToldInv'
  BY <1>6 DEF TimesOut
<1>7. ASSUME NEW i \in ExecIds, NEW slow \in BOOLEAN, Tell(i, slow) PROVE ToldInv'
  BY <1>7 DEF Tell
<1>8. ASSUME NEW i \in ExecIds, Drained(i) PROVE ToldInv'
  BY <1>8 DEF Drained
<1>9. ASSUME NEW i \in ExecIds, Popped(i) PROVE ToldInv'
  BY <1>9 DEF Popped
<1>10. ASSUME NEW i \in ExecIds, Cancel(i) PROVE ToldInv'
  BY <1>10 DEF Cancel, Cancelled, GuardAfter, Cut
<1>11. ASSUME NEW s \in Shells, Open(s) PROVE ToldInv'
  BY <1>11 DEF Open
<1>12. ASSUME NEW s \in Shells, ShellExits(s) PROVE ToldInv'
  BY <1>12 DEF ShellExits
<1>13. ASSUME NEW s \in Shells, PumpEnds(s) PROVE ToldInv'
  BY <1>13 DEF PumpEnds
<1>14. ASSUME NEW s \in Shells, PumpIdle(s) PROVE ToldInv'
  BY <1>14 DEF PumpIdle
<1>15. ASSUME NEW s \in Shells, NEW wakes \in BOOLEAN, PumpExpires(s, wakes)
      PROVE  ToldInv'
  BY <1>15 DEF PumpExpires, Closing
<1>16. ASSUME NEW s \in Shells, PumpGivesUp(s) PROVE ToldInv'
  BY <1>16 DEF PumpGivesUp
<1>17. ASSUME NEW s \in Shells, PumpReaps(s) PROVE ToldInv'
  BY <1>17 DEF PumpReaps, Reaped
<1>18. ASSUME NEW s \in Shells, WaiterSees(s) PROVE ToldInv'
  BY <1>18 DEF WaiterSees
<1>19. ASSUME NEW s \in Shells, WaiterGoesOn(s) PROVE ToldInv'
  BY <1>19 DEF WaiterGoesOn
<1>20. ASSUME NEW s \in Shells, WaiterEnds(s) PROVE ToldInv'
  BY <1>20 DEF WaiterEnds
<1>21. CASE CancelReturns
  BY <1>21 DEF CancelReturns, ToldNothing
<1>22. CASE Opened
  BY <1>22 DEF Opened
<1>23. CASE OpenFails
  BY <1>23 DEF OpenFails, LoopCloses, ClosingUnpumped, Closing
<1>24. CASE LoopReaps
  BY <1>24 DEF LoopReaps, Reaped
<1>25. CASE Ends
  BY <1>25 DEF Ends
<1>26. CASE CancelAll
  BY <1>26 DEF CancelAll, Cancelled, GuardAfter, Cut
<1>27. CASE CloseLast
  BY <1>27 DEF CloseLast, LoopCloses, ClosingUnpumped, Closing
<1>28. CASE Close
  BY <1>28 DEF Close, LoopCloses, ClosingUnpumped, Closing
<1>29. CASE Write
  BY <1>29 DEF Write
<1>30. CASE Written
  BY <1>30 DEF Written
<1>31. CASE Disconnects
  BY <1>31 DEF Disconnects
<1>32. CASE UNCHANGED vars
  BY <1>32 DEF vars
<1>. QED
  BY <1>0, <1>1, <1>2, <1>3, <1>4, <1>5, <1>6, <1>7, <1>8, <1>9, <1>10, <1>11, <1>12, <1>13,
     <1>14, <1>15, <1>16, <1>17, <1>18, <1>19, <1>20, <1>21, <1>22, <1>23, <1>24,
     <1>25, <1>26, <1>27, <1>28, <1>29, <1>30, <1>31, <1>32
     DEF Next, ExecStep, ShellStep, LoopStep

-----------------------------------------------------------------------------
(* The invariant of the specification.                                     *)
THEOREM Invariance == Spec => []IInv
<1>1. Init => IInv
  BY InitStep
<1>2. IInv /\ [Next]_vars => IInv'
  BY TypeStep, LoopInvStep, GuardStep, ToldStep DEF IInv
<1>. QED
  BY <1>1, <1>2, PTL DEF Spec

(* No guest command starts beside a living process: whoever has one has    *)
(* the guard, but for a terminal closed while its pump ends it             *)
(* (backend_guest_exec_guard, PtySession._shutdown).                       *)
THEOREM Guarded == Spec => []GuardCoversProcess
<1>1. IInv => GuardCoversProcess
  BY DEF IInv, GuardInv, GuardCoversProcess
<1>. QED
  BY <1>1, Invariance, PTL

(* Every exec is answered for once, by its task or by the loop that        *)
(* cancelled it (run_agent_channel, terminal_exec_ids); one that has no    *)
(* command perhaps never (_exec_command).                                  *)
THEOREM Answered == Spec => []AnsweredOnce
<1>1. IInv => AnsweredOnce
  BY DEF IInv, ToldInv, AnsweredOnce
<1>. QED
  BY <1>1, Invariance, PTL
================================================================================
