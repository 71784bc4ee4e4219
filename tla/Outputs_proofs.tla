---------------------------- MODULE Outputs_proofs ----------------------------
(***************************************************************************)
(* The inductive invariant of HostApply, and what follows from it.  A step *)
(* is outside the section, inside it, or leaves it: OutsideStep,           *)
(* InsideStep and LeaveStep say what is to be shown of one, and the lemma  *)
(* of each action shows it.  Then that of HardeningRuns, as H: in the      *)
(* lemma of an action the first step says what becomes of the threads.     *)
(***************************************************************************)
EXTENDS Outputs, TLAPS

(* Where a session is in the section.                                      *)
Region == Before \cup During \cup After

LEMMA PartialType ==
    /\ \A f \in Partial : DOMAIN f \subseteq Slices /\ f \in [DOMAIN f -> Values]
    /\ \A D \in SUBSET Slices : [D -> Values] \subseteq Partial
    /\ \A f \in Seen : DOMAIN f \subseteq Slices /\ f \in [DOMAIN f -> Here]
    /\ \A D \in SUBSET Slices : [D -> Here] \subseteq Seen
  BY DEF Partial, Seen

LEMMA EmptyType == DOMAIN Empty = {} /\ Empty \in Partial /\ Empty \in Seen
<1>1. Empty \in [{} -> Values] /\ Empty \in [{} -> Here]
  BY DEF Empty
<1>. QED
  BY <1>1, PartialType

LEMMA FreshType == Fresh \in Task
<1>1. Fresh.pc \in Places
  BY DEF Fresh, Places
<1>. QED
  BY EmptyType DEF Fresh, Task, Places

(* The next slice is one of those to do.                                   *)
LEMMA NextSlice ==
  ASSUME TypeOK, NEW s \in Sessions, Working(s)
  PROVE  Slice(s) \in Todo(s)
<1>. DEFINE First(x) == \A y \in Todo(s) : Rank(x) <= Rank(y)
<1>1. Todo(s) \subseteq AllSlices /\ Todo(s) # {}
  BY SlicesAssumption DEF TypeOK, Task, Working, Todo
<1>2. \E x \in Todo(s) : First(x)
  BY <1>1 DEF AllSlices, Rank
<1>. QED
  BY <1>2 DEF Slice

(* Who is in the section, and that nobody else is.                         *)
LEMMA Alone ==
  ASSUME IInv, NEW s \in Sessions, task[s].pc \in Region
  PROVE  /\ owner = s
         /\ \A r \in Sessions \ {s} : task[r].pc \notin Region
         /\ task[s].pc \in Planned /\ (~past.lapsed \/ task[s].alone) => AllSettled
  BY DEF IInv, OwnerInv, Region

(* A step of a session that is in no section, and enters none.             *)
LEMMA OutsideStep ==
  ASSUME IInv, TypeOK', NEW s \in Sessions,
         task[s].pc \notin Region, task'[s].pc \notin Region,
         Unsettled(s)' => Unsettled(s),
         \A r \in Sessions \ {s} : task'[r] = task[r],
         live' = live, loaded' = loaded, owner' = owner,
         past'.served = past.served, past.lapsed => past'.lapsed,
         past.torn => past'.torn, past.murky => past'.murky,
         Knows(s, task[s])', RecordInv'
  PROVE  IInv'
<1>1. owner # s /\ (AllSettled => AllSettled')
  BY DEF IInv, OwnerInv, AllSettled, Unsettled, Region
<1>2. OwnerInv'
  <2>. SUFFICES ASSUME NEW r \in Sessions
                PROVE  /\ owner' = r <=> task'[r].pc \in Region
                       /\ Unsettled(r)' => r \in Deferred
                       /\ task'[r].pc \in Planned /\ (~past'.lapsed \/ task'[r].alone)
                            => AllSettled'
    BY Zenon DEF OwnerInv, Region
  <2>1. CASE r = s
    BY <1>1, <2>1 DEF IInv, OwnerInv, Region, Planned, Before, Unsettled
  <2>2. CASE r # s
    BY <1>1, <2>2 DEF IInv, OwnerInv, Region, Unsettled
  <2>. QED
    BY <2>1, <2>2
<1>3. KnowsInv'
  <2>. SUFFICES ASSUME NEW r \in Sessions
                PROVE  Knows(r, task[r])'
    BY Zenon DEF KnowsInv
  <2>1. CASE r = s
    BY <2>1, Zenon
  <2>2. CASE r # s
    BY <2>2 DEF IInv, KnowsInv, Knows
  <2>. QED
    BY <2>1, <2>2
<1>4. ProgressInv'
  <2>. SUFFICES ASSUME NEW r \in Sessions, task'[r].pc \in During \cup {"preparing"}
                PROVE  Progress(task[r])'
    BY Zenon DEF ProgressInv
  <2>1. r # s
    BY DEF Region, Before
  <2>2. Progress(task[r]) /\ task'[r] = task[r]
    BY <2>1 DEF IInv, ProgressInv
  <2>. QED
    BY <2>2 DEF Progress, Done, MaySkip, Renews, FullApply
<1>5. IngressInv'
  <2>1. \A r \in Sessions : owner = r => task'[r] = task[r]
    BY <1>1
  <2>. QED
    BY <2>1 DEF IInv, IngressInv, Served, Known, Base
<1>. QED
  BY <1>2, <1>3, <1>4, <1>5 DEF IInv

LEMMA QuietRecord ==
  ASSUME IInv, NEW s \in Sessions,
         task[s].pc \notin Region, task'[s].pc \notin Region,
         ~Unsettled(s), ~Unsettled(s)',
         \A r \in Sessions \ {s} : task'[r] = task[r],
         marker' = marker, live' = live, loaded' = loaded, owner' = owner,
         past'.lapsed = past.lapsed
  PROVE  RecordInv'
<1>1. AllSettled' = AllSettled
  BY DEF AllSettled, Unsettled
<1>2. \A r \in Sessions : Relies(task[r])' => r # s /\ Relies(task[r])
  BY <1>1 DEF Relies, Region, Before, During, After
<1>3. \A r \in Sessions : task'[r].pc = "deferred" => r # s
  BY DEF Unsettled
<1>. QED
  BY <1>1, <1>2, <1>3 DEF IInv, RecordInv, RecordTrue, Blind, Base, Recorded

(* A step inside the section.                                              *)
LEMMA InsideStep ==
  ASSUME IInv, TypeOK', NEW s \in Sessions,
         task[s].pc \in Region, task'[s].pc \in Planned, owner' = owner,
         \A r \in Sessions \ {s} : task'[r] = task[r],
         marker' = marker,
         ~past'.lapsed \/ task'[s].alone => AllSettled,
         Knows(s, task[s])',
         task'[s].pc \in During \cup {"preparing"} => Progress(task[s])',
         ~past'.lapsed /\ Relies(task[s])' => RecordTrue(marker, Base(task[s]))',
         past'.served \in Values, Served(Base(task[s]))',
         task'[s].kept = None \/ ~task'[s].reloaded \/ task'[s].pc = "recording"
            => Known(Base(task[s]))'
  PROVE  IInv'
<1>1. /\ owner = s /\ task'[s].pc \in Region
      /\ \A r \in Sessions \ {s} : task'[r].pc \notin Region
  BY Alone DEF Planned, Region, Before
<1>2. AllSettled' = AllSettled
  <2>1. ~Unsettled(s) /\ ~Unsettled(s)'
    BY DEF Unsettled, Region, Planned, Before, During, After
  <2>. QED
    BY <2>1 DEF AllSettled, Unsettled
<1>3. OwnerInv'
  <2>. SUFFICES ASSUME NEW r \in Sessions
                PROVE  /\ owner' = r <=> task'[r].pc \in Region
                       /\ Unsettled(r)' => r \in Deferred
                       /\ task'[r].pc \in Planned /\ (~past'.lapsed \/ task'[r].alone)
                            => AllSettled'
    BY Zenon DEF OwnerInv, Region
  <2>1. CASE r = s
    BY <1>1, <1>2, <2>1 DEF Unsettled, Region, Before, During, After
  <2>2. CASE r # s
    BY <1>1, <2>2 DEF IInv, OwnerInv, Region, Unsettled, Planned, Before
  <2>. QED
    BY <2>1, <2>2
<1>4. KnowsInv'
  <2>. SUFFICES ASSUME NEW r \in Sessions
                PROVE  Knows(r, task[r])'
    BY Zenon DEF KnowsInv
  <2>1. CASE r = s
    BY <2>1, Zenon
  <2>2. CASE r # s
    BY <2>2 DEF IInv, KnowsInv, Knows
  <2>. QED
    BY <2>1, <2>2
<1>5. ProgressInv'
  <2>. SUFFICES ASSUME NEW r \in Sessions, task'[r].pc \in During \cup {"preparing"}
                PROVE  Progress(task[r])'
    BY Zenon DEF ProgressInv
  <2>1. r = s
    BY <1>1 DEF Region, Before
  <2>. QED
    BY <2>1, Zenon
<1>6. RecordInv'
  <2>. SUFFICES ASSUME ~past'.lapsed
                PROVE  /\ owner' = None /\ AllSettled' => RecordTrue(marker, live["nginx"])'
                       /\ \A r \in Sessions : Relies(task[r])' => RecordTrue(marker,
                            Base(task[r]))'
                       /\ \A r \in Sessions : task'[r].pc = "deferred" =>
                            RecordTrue(Recorded(task[r]), live["nginx"])'
    BY Zenon DEF RecordInv
  <2>1. owner' # None
    BY <1>1, SessionsAssumption
  <2>2. ASSUME NEW r \in Sessions, Relies(task[r])'
        PROVE  RecordTrue(marker, Base(task[r]))'
    <3>1. r = s
      BY <1>1, <2>2 DEF Relies, Region, Before, During, After
    <3>. QED
      BY <2>2, <3>1, Zenon
  <2>3. \A r \in Sessions : task'[r].pc # "deferred"
    BY <1>2 DEF AllSettled, Unsettled
  <2>. QED
    BY <2>1, <2>2, <2>3
<1>7. IngressInv'
  <2>. SUFFICES ASSUME NEW r \in Sessions, owner' = r
                PROVE  /\ Served(Base(task[r]))'
                       /\ task'[r].kept = None \/ ~task'[r].reloaded \/ task'[r].pc = "recording"
                             => Known(Base(task[r]))'
    BY <1>1, SessionsAssumption DEF IngressInv
  <2>1. r = s
    BY <1>1
  <2>. QED
    BY <2>1, Zenon
<1>. QED
  BY <1>3, <1>4, <1>5, <1>6, <1>7 DEF IInv

(* The step that ends the section.                                         *)
LEMMA LeaveStep ==
  ASSUME IInv, TypeOK', NEW s \in Sessions,
         task[s].pc \in Region, task'[s].pc \notin Region, owner' = None,
         \A r \in Sessions \ {s} : task'[r] = task[r],
         Unsettled(s)' => s \in Deferred,
         Knows(s, task[s])',
         ~past'.lapsed => AllSettled \/ (~past.lapsed /\ live' = live /\ loaded' = loaded),
         ~past'.lapsed /\ AllSettled' => RecordTrue(marker, live["nginx"])',
         ~past'.lapsed /\ task'[s].pc = "deferred" => RecordTrue(Recorded(task[s]),
           live["nginx"])',
         past'.served \in Values, Served(live["nginx"])', Known(live["nginx"])'
  PROVE  IInv'
<1>1. \A r \in Sessions : task'[r].pc \notin Region
  BY Alone
<1>2. OwnerInv'
  <2>. SUFFICES ASSUME NEW r \in Sessions
                PROVE  /\ owner' = r <=> task'[r].pc \in Region
                       /\ Unsettled(r)' => r \in Deferred
                       /\ task'[r].pc \in Planned /\ (~past'.lapsed \/ task'[r].alone)
                            => AllSettled'
    BY Zenon DEF OwnerInv, Region
  <2>1. owner' # r /\ task'[r].pc \notin Planned
    BY <1>1, SessionsAssumption DEF Planned, Region, Before
  <2>2. r # s => Unsettled(r)' = Unsettled(r)
    BY DEF Unsettled
  <2>. QED
    BY <1>1, <2>1, <2>2 DEF IInv, OwnerInv
<1>3. KnowsInv'
  <2>. SUFFICES ASSUME NEW r \in Sessions
                PROVE  Knows(r, task[r])'
    BY Zenon DEF KnowsInv
  <2>1. CASE r = s
    BY <2>1, Zenon
  <2>2. CASE r # s
    BY <2>2 DEF IInv, KnowsInv, Knows
  <2>. QED
    BY <2>1, <2>2
<1>4. ProgressInv'
  BY <1>1 DEF ProgressInv, Region, Before
<1>5. RecordInv'
  <2>. SUFFICES ASSUME ~past'.lapsed
                PROVE  /\ owner' = None /\ AllSettled' => RecordTrue(marker, live["nginx"])'
                       /\ \A r \in Sessions : Relies(task[r])' => RecordTrue(marker,
                            Base(task[r]))'
                       /\ \A r \in Sessions : task'[r].pc = "deferred" =>
                            RecordTrue(Recorded(task[r]), live["nginx"])'
    BY Zenon DEF RecordInv
  <2>1. \A r \in Sessions : ~Relies(task[r])'
    BY <1>1 DEF Relies, Region, Before, During, After
  <2>2. ASSUME NEW r \in Sessions, task'[r].pc = "deferred"
        PROVE  RecordTrue(Recorded(task[r]), live["nginx"])'
    <3>1. CASE r = s
      BY <2>2, <3>1, Zenon
    <3>2. CASE r # s
      <4>1. task'[r] = task[r] /\ Unsettled(r)
        BY <2>2, <3>2 DEF Unsettled
      <4>2. ~past.lapsed /\ live' = live /\ loaded' = loaded
        BY <4>1 DEF AllSettled
      <4>3. RecordTrue(Recorded(task[r]), live["nginx"])
        BY <2>2, <4>1, <4>2 DEF IInv, RecordInv
      <4>. QED
        BY <4>1, <4>2, <4>3 DEF RecordTrue, Blind, Recorded
    <3>. QED
      BY <3>1, <3>2
  <2>. QED
    BY <2>1, <2>2
<1>6. IngressInv'
  BY SessionsAssumption DEF IngressInv
<1>. QED
  BY <1>2, <1>3, <1>4, <1>5, <1>6 DEF IInv

-----------------------------------------------------------------------------
(* The caller.                                                             *)

LEMMA LoadStep ==
  ASSUME IInv, NEW s \in Sessions, Load(s)
  PROVE  IInv'
<1>1. /\ task[s] \in Task /\ task[s].pc = "idle" /\ db \in Configs
      /\ task'[s] = IF s \in Deferred THEN [task[s] EXCEPT !.pc = "loaded", !.view = db]
                                      ELSE [task[s] EXCEPT !.pc = "changed"]
      /\ task' \in [Sessions -> Task]
      /\ \A r \in Sessions \ {s} : task'[r] = task[r]
  <2>1. task \in [Sessions -> Task] /\ db \in Configs
    BY DEF IInv, TypeOK
  <2>2. [task[s] EXCEPT !.pc = "loaded", !.view = db] \in Task
    <3>1. task[s] \in Task /\ "loaded" \in Places /\ db \in Configs \cup {Empty}
      BY <2>1 DEF Places
    <3>. QED
      BY <3>1 DEF Task
  <2>3. [task[s] EXCEPT !.pc = "changed"] \in Task
    BY <2>1 DEF Task, Places
  <2>. QED
    BY <2>1, <2>2, <2>3 DEF Load, At, Goes
<1>2. TypeOK'
  BY <1>1 DEF Load, IInv, TypeOK
<1>3. Knows(s, task[s])'
  <2>1. Knows(s, task[s])
    BY DEF IInv, KnowsInv
  <2>. QED
    BY <1>1, <2>1 DEF Knows, Before, During, After, Planned, Task
<1>4. /\ task[s].pc \notin Region /\ task'[s].pc \notin Region
      /\ ~Unsettled(s) /\ ~Unsettled(s)'
  BY <1>1 DEF Unsettled, Region, Before, During, After, Task
<1>. QED
  BY <1>1, <1>2, <1>3, <1>4, OutsideStep, QuietRecord DEF Load

LEMMA ChangeStep ==
  ASSUME IInv, NEW s \in Sessions, Change(s)
  PROVE  IInv'
<1>1. PICK e \in Edits[s] :
        /\ task' = [task EXCEPT ![s].pc = "changed",
             ![s].edit = [x \in {y \in DOMAIN e : e[y] # task[s].view[y]} |-> e[x]]]
        /\ task[s].pc = "loaded"
  BY DEF Change, At
<1>. DEFINE new == {y \in DOMAIN e : e[y] # task[s].view[y]}
            edit == [x \in new |-> e[x]]
<1>2. edit \in Partial
  <2>1. DOMAIN e \subseteq Slices /\ e \in [DOMAIN e -> Values]
    BY PartialType, SessionsAssumption
  <2>2. edit \in [new -> Values] /\ new \in SUBSET Slices
    BY <2>1
  <2>. QED
    BY <2>2, PartialType
<1>. HIDE DEF edit
<1>3. /\ task[s] \in Task /\ task[s].pc = "loaded"
      /\ task'[s] = [task[s] EXCEPT !.pc = "changed", !.edit = edit]
      /\ \A r \in Sessions \ {s} : task'[r] = task[r]
      /\ task' \in [Sessions -> Task]
  <2>1. task \in [Sessions -> Task]
    BY DEF IInv, TypeOK
  <2>2. [task[s] EXCEPT !.pc = "changed", !.edit = edit] \in Task
    <3>1. task[s] \in Task /\ "changed" \in Places
      BY <2>1 DEF Places
    <3>. QED
      BY <1>2, <3>1 DEF Task
  <2>. QED
    BY <1>1, <2>1, <2>2 DEF edit
<1>4. TypeOK'
  <2>1. s \in Ticks \/ s \in Deferred
    BY <1>3 DEF IInv, KnowsInv, Knows
  <2>. QED
    BY <1>3, <2>1 DEF Change, IInv, TypeOK
<1>5. Knows(s, task[s])'
  <2>1. Knows(s, task[s])
    BY DEF IInv, KnowsInv
  <2>. QED
    BY <1>3, <2>1 DEF Knows, Before, During, After, Planned, Task
<1>6. /\ task[s].pc \notin Region /\ task'[s].pc \notin Region
      /\ ~Unsettled(s) /\ ~Unsettled(s)'
  BY <1>3 DEF Unsettled, Region, Before, During, After, Task
<1>. QED
  BY <1>3, <1>4, <1>5, <1>6, OutsideStep, QuietRecord DEF Change

(* A session that ends knows nothing any more.                             *)
LEMMA Ending ==
  ASSUME TypeOK, NEW s \in Sessions, Ends(s)
  PROVE  /\ task' \in [Sessions -> Task]
         /\ task'[s].pc = "done"
         /\ \A r \in Sessions \ {s} : task'[r] = task[r]
         /\ Knows(s, task[s])'
<1>1. /\ task'[s] = [Fresh EXCEPT !.pc = "done"]
      /\ \A r \in Sessions \ {s} : task'[r] = task[r]
      /\ task' \in [Sessions -> Task]
  BY FreshType DEF Ends, TypeOK, Task, Places
<1>2. /\ task'[s].pc = "done" /\ task'[s].prev = Empty /\ task'[s].reloaded = FALSE
      /\ task'[s].touched = FALSE
  BY <1>1 DEF Fresh
<1>. QED
  BY <1>1, <1>2, EmptyType DEF Knows, Before, During, Planned, After

LEMMA FlushTimesOutStep ==
  ASSUME IInv, NEW s \in Sessions, FlushTimesOut(s)
  PROVE  IInv'
<1>1. /\ task' \in [Sessions -> Task] /\ task'[s].pc = "done" /\ Knows(s, task[s])'
      /\ \A r \in Sessions \ {s} : task'[r] = task[r]
  BY Ending DEF IInv, FlushTimesOut
<1>2. TypeOK'
  BY <1>1 DEF FlushTimesOut, IInv, TypeOK
<1>3. /\ task[s].pc \notin Region /\ task'[s].pc \notin Region
      /\ ~Unsettled(s) /\ ~Unsettled(s)'
  BY <1>1 DEF FlushTimesOut, At, Unsettled, Region, Before, During, After
<1>. QED
  BY <1>1, <1>2, <1>3, OutsideStep, QuietRecord DEF FlushTimesOut

LEMMA LockRefusedStep ==
  ASSUME IInv, NEW s \in Sessions, LockRefused(s)
  PROVE  IInv'
<1>1. /\ task' \in [Sessions -> Task] /\ task'[s].pc = "done" /\ Knows(s, task[s])'
      /\ \A r \in Sessions \ {s} : task'[r] = task[r]
  BY Ending DEF IInv, LockRefused
<1>2. TypeOK'
  BY <1>1 DEF LockRefused, RollsBack, IInv, TypeOK
<1>3. /\ task[s].pc \notin Region /\ task'[s].pc \notin Region
      /\ ~Unsettled(s) /\ ~Unsettled(s)'
  BY <1>1 DEF LockRefused, At, Unsettled, Region, Before, During, After
<1>. QED
  BY <1>1, <1>2, <1>3, OutsideStep, QuietRecord DEF LockRefused

LEMMA EnterStep ==
  ASSUME IInv, NEW s \in Sessions, Enter(s)
  PROVE  IInv'
<1>1. /\ task[s] \in Task /\ task[s].pc = "changed" /\ owner = None /\ owner' = s
      /\ task'[s] = [task[s] EXCEPT !.pc = "building"]
      /\ task' \in [Sessions -> Task]
      /\ \A r \in Sessions \ {s} : task'[r] = task[r]
  BY DEF Enter, At, Goes, IInv, TypeOK, Task, Places
<1>2. TypeOK'
  BY <1>1 DEF Enter, IInv, TypeOK
<1>3. Knows(s, task[s])'
  <2>1. Knows(s, task[s])
    BY DEF IInv, KnowsInv
  <2>. QED
    BY <1>1, <2>1 DEF Knows, Before, During, After, Planned, Task
<1>4. /\ task'[s].kept = None /\ task'[s].pc = "building"
      /\ ~Unsettled(s) /\ ~Unsettled(s)'
      /\ \A r \in Sessions : task[r].pc \notin Region
  BY <1>1, <1>3, SessionsAssumption DEF Knows, Before, Unsettled, IInv, OwnerInv, Region, Task
<1>5. AllSettled' = AllSettled
  BY <1>1, <1>4 DEF AllSettled, Unsettled
<1>6. OwnerInv'
  <2>. SUFFICES ASSUME NEW r \in Sessions
                PROVE  /\ owner' = r <=> task'[r].pc \in Region
                       /\ Unsettled(r)' => r \in Deferred
                       /\ task'[r].pc \notin Planned
    BY Zenon DEF OwnerInv, Region
  <2>1. CASE r = s
    BY <1>1, <1>4, <2>1 DEF Region, Before, Planned, During, After
  <2>2. CASE r # s
    BY <1>1, <1>4, <2>2 DEF IInv, OwnerInv, Region, Unsettled, Planned, Before
  <2>. QED
    BY <2>1, <2>2
<1>7. KnowsInv'
  <2>. SUFFICES ASSUME NEW r \in Sessions
                PROVE  Knows(r, task[r])'
    BY Zenon DEF KnowsInv
  <2>1. CASE r = s
    BY <1>3, <2>1, Zenon
  <2>2. CASE r # s
    BY <1>1, <2>2 DEF IInv, KnowsInv, Knows
  <2>. QED
    BY <2>1, <2>2
<1>8. ProgressInv'
  BY <1>1, <1>4 DEF ProgressInv, Region, Before, During
<1>9. RecordInv'
  <2>1. \A r \in Sessions : Relies(task[r])' => r = s /\ AllSettled
    BY <1>1, <1>4, <1>5 DEF Relies, Region, Before, During, After
  <2>2. Base(task[s])' = live["nginx"] /\ UNCHANGED <<marker, live, loaded, past>>
    BY <1>4 DEF Base, Enter
  <2>3. \A r \in Sessions : task'[r].pc = "deferred" => r # s /\ task'[r] = task[r]
    BY <1>1, <1>4
  <2>. QED
    BY <1>1, <1>5, <2>1, <2>2, <2>3, SessionsAssumption
    DEF IInv, RecordInv, RecordTrue, Blind, Recorded
<1>10. IngressInv'
  BY <1>1, <1>4, SessionsAssumption DEF Enter, IInv, IngressInv, Served, Known, Base
<1>. QED
  BY <1>2, <1>6, <1>7, <1>8, <1>9, <1>10 DEF IInv

-----------------------------------------------------------------------------
(* The apply.                                                              *)

LEMMA DesiredType ==
  ASSUME IInv, NEW s \in Sessions, task[s].pc \in Region
  PROVE  Desired(s) \in Configs
<1>1. /\ db \in Configs /\ task[s].edit \in Partial
      /\ s \in Deferred => task[s].view \in Configs
  BY DEF IInv, TypeOK, Task, KnowsInv, Knows, Region, Before, During, After
<1>2. \A x \in DOMAIN task[s].edit : task[s].edit[x] \in Values
  BY <1>1, PartialType
<1>. QED
  BY <1>1, <1>2 DEF Desired, Configs

(* What the plan compares with is a part of a state of the host, and a     *)
(* follower's hash is never read from the host.                            *)
LEMMA PreviousType ==
  ASSUME TypeOK, NEW goal \in Configs
  PROVE  /\ Previous(goal) \in Seen
         /\ "cluster_followers" \in DOMAIN Previous(goal)
               => Previous(goal)["cluster_followers"] \in Values
<1>1. \A f \in Partial : f \in Seen /\ \A x \in DOMAIN f : f[x] \in Values
  <2>. SUFFICES ASSUME NEW f \in Partial
                PROVE  f \in Seen /\ \A x \in DOMAIN f : f[x] \in Values
    OBVIOUS
  <2>1. DOMAIN f \subseteq Slices /\ f \in [DOMAIN f -> Values]
    BY PartialType
  <2>2. f \in [DOMAIN f -> Here]
    BY <2>1 DEF Here
  <2>. QED
    BY <2>1, <2>2, PartialType
<1>2. Configs \subseteq Partial
  BY PartialType DEF Configs
<1>3. CASE marker = NoRun
  BY <1>3, EmptyType DEF Previous
<1>4. CASE marker # NoRun /\ marker.slices # Empty
  <2>1. Previous(goal) = marker.slices /\ marker.slices \in Partial
    BY <1>4 DEF Previous, TypeOK
  <2>. QED
    BY <1>1, <2>1
<1>5. CASE marker # NoRun /\ marker.slices = Empty /\ marker.state = goal
  <2>1. Previous(goal) = goal
    BY <1>5 DEF Previous
  <2>. QED
    BY <1>1, <1>2, <2>1
<1>6. CASE marker # NoRun /\ marker.slices = Empty /\ marker.state # goal
  <2>. DEFINE D == (Slices \cap {"runtime", "nginx", "tailscale"})
                     \cup {y \in Slices \cap {"shield"} : live[y] = goal[y]}
  <2>1. Previous(goal) = [x \in D |-> IF x = "runtime" THEN goal[x] ELSE live[x]]
    BY <1>6 DEF Previous, LiveSlices
  <2>2. D \subseteq Slices /\ "cluster_followers" \notin D
    OBVIOUS
  <2>3. \A x \in D : goal[x] \in Here /\ live[x] \in Here
    BY <2>2 DEF TypeOK, Configs, Here
  <2>. HIDE DEF D
  <2>4. Previous(goal) \in [D -> Here] /\ DOMAIN Previous(goal) = D
    BY <2>1, <2>3
  <2>. QED
    BY <2>2, <2>4, PartialType
<1>. QED
  BY <1>3, <1>4, <1>5, <1>6

LEMMA BuildStep ==
  ASSUME IInv, NEW s \in Sessions, Build(s)
  PROVE  IInv'
<1>1. /\ task \in [Sessions -> Task] /\ task[s] \in Task /\ task[s].pc = "building"
      /\ Knows(s, task[s])
      /\ past \in [lapsed : BOOLEAN, torn : BOOLEAN, murky : BOOLEAN, served : Here]
  BY DEF Build, At, Working, Staging, IInv, TypeOK, KnowsInv
<1>2. /\ task' = [task EXCEPT ![s] = [task[s] EXCEPT !.pc = "reading", !.goal = Desired(s),
           !.alone = (\A r \in Sessions \ {s} : ~Unsettled(r))]]
      /\ [task[s] EXCEPT !.pc = "reading", !.goal = Desired(s),
           !.alone = (\A r \in Sessions \ {s} : ~Unsettled(r))] \in Task
  <2>1. Desired(s) \in Configs
    BY <1>1, DesiredType DEF Region, Before
  <2>2. (\A r \in Sessions \ {s} : ~Unsettled(r)) \in BOOLEAN
    OBVIOUS
  <2>3. \A b \in BOOLEAN :
          [task[s] EXCEPT !.pc = "reading", !.goal = Desired(s), !.alone = b] \in Task
    BY <1>1, <2>1 DEF Task, Places
  <2>4. task' = [task EXCEPT ![s] = [task[s] EXCEPT !.pc = "reading", !.goal = Desired(s),
           !.alone = (\A r \in Sessions \ {s} : ~Unsettled(r))]]
    BY Zenon DEF Build
  <2>. QED
    BY <2>2, <2>3, <2>4, Zenon
<1>3. /\ task'[s].pc = "reading"
      /\ task'[s].view = task[s].view
      /\ task'[s].edit = task[s].edit
      /\ task'[s].goal = Desired(s)
      /\ task'[s].prev = task[s].prev
      /\ task'[s].todo = task[s].todo
      /\ task'[s].touched = task[s].touched
      /\ task'[s].kept = task[s].kept
      /\ task'[s].reloaded = task[s].reloaded
      /\ task'[s].absent = task[s].absent
      /\ task'[s].partial = task[s].partial
      /\ task'[s].alone = (\A r \in Sessions \ {s} : ~Unsettled(r))
      /\ \A r \in Sessions \ {s} : task'[r] = task[r]
      /\ task' \in [Sessions -> Task]
  BY <1>1, <1>2 DEF Task
<1>4. /\ task[s].pc \in Region /\ task'[s].pc \in Planned /\ owner = s
      /\ task[s].pc \in Planned /\ (~past.lapsed \/ task[s].alone) => AllSettled
  BY <1>1, <1>3, Alone DEF Region, Planned, Before, During, After
<1>5. TypeOK'
  BY <1>3 DEF Build, Lapses, IInv, TypeOK
<1>6. Knows(s, task[s])'
  <2>1. task'[s].goal \in Configs
    BY <1>1, <1>3, DesiredType DEF Region, Before
  <2>. QED
    BY <1>1, <1>3, <2>1 DEF Knows, Before, During, After, Planned, Task
<1>7. ~past'.lapsed \/ task'[s].alone => AllSettled
  BY <1>1, <1>3 DEF Build, Lapses, AllSettled, Unsettled, IInv, TypeOK
<1>8. task'[s].pc \in During \cup {"preparing"} => Progress(task[s])'
  BY <1>3 DEF During
<1>9. ~past'.lapsed /\ Relies(task[s])' => RecordTrue(marker, Base(task[s]))'
  <2>1. ~past.lapsed /\ Relies(task[s]) => RecordTrue(marker, Base(task[s]))
    BY DEF IInv, RecordInv
  <2>. QED
    BY <1>1, <1>3, <1>4, <1>7, <2>1 DEF Build, Relies, RecordTrue, Blind, Base, Knows, Before,
      During, Lapses
<1>10. /\ past'.served \in Values /\ Served(Base(task[s]))'
       /\ task'[s].kept = None \/ ~task'[s].reloaded \/ task'[s].pc = "recording"
             => Known(Base(task[s]))'
  BY <1>1, <1>3, <1>4 DEF Build, IInv, IngressInv, Served, Known, Base, Knows, Before, During,
    Lapses
<1>. QED
  BY <1>3, <1>4, <1>5, <1>6, <1>7, <1>8, <1>9, <1>10, InsideStep DEF Build

LEMMA ReadStep ==
  ASSUME IInv, NEW s \in Sessions, Read(s)
  PROVE  IInv'
<1>1. /\ task \in [Sessions -> Task] /\ task[s] \in Task /\ task[s].pc = "reading"
      /\ Knows(s, task[s])
      /\ past \in [lapsed : BOOLEAN, torn : BOOLEAN, murky : BOOLEAN, served : Here]
  BY DEF Read, At, Working, Staging, IInv, TypeOK, KnowsInv
<1>2. /\ task' = [task EXCEPT ![s] = [task[s] EXCEPT !.pc = "preparing",
           !.prev = Previous(task[s].goal)]]
      /\ [task[s] EXCEPT !.pc = "preparing", !.prev = Previous(task[s].goal)] \in Task
  <2>1. task[s].goal \in Configs
    BY <1>1 DEF Knows, Planned
  <2>2. Previous(task[s].goal) \in Seen
    BY <2>1, PreviousType DEF IInv
  <2>. QED
    BY <1>1, <2>2 DEF Read, Task, Places
<1>3. /\ task'[s].pc = "preparing"
      /\ task'[s].view = task[s].view
      /\ task'[s].edit = task[s].edit
      /\ task'[s].goal = task[s].goal
      /\ task'[s].prev = Previous(task[s].goal)
      /\ task'[s].todo = task[s].todo
      /\ task'[s].touched = task[s].touched
      /\ task'[s].kept = task[s].kept
      /\ task'[s].reloaded = task[s].reloaded
      /\ task'[s].absent = task[s].absent
      /\ task'[s].partial = task[s].partial
      /\ task'[s].alone = task[s].alone
      /\ \A r \in Sessions \ {s} : task'[r] = task[r]
      /\ task' \in [Sessions -> Task]
  BY <1>1, <1>2 DEF Task
<1>4. /\ task[s].pc \in Region /\ task'[s].pc \in Planned /\ owner = s
      /\ task[s].pc \in Planned /\ (~past.lapsed \/ task[s].alone) => AllSettled
  BY <1>1, <1>3, Alone DEF Region, Planned, Before, During, After
<1>5. TypeOK'
  BY <1>1, <1>3 DEF Read, Lapses, IInv, TypeOK
<1>6. Knows(s, task[s])'
  <2>1. task[s].goal \in Configs
    BY <1>1 DEF Knows, Planned
  <2>. QED
    BY <1>1, <1>3, <2>1, PreviousType DEF IInv, Knows, Before, During, After, Planned, Task
<1>7. ~past'.lapsed \/ task'[s].alone => AllSettled
  BY <1>1, <1>3, <1>4 DEF Read, Lapses, Planned
<1>8. task'[s].pc \in During \cup {"preparing"} => Progress(task[s])'
  <2>. DEFINE goal == task[s].goal
              prev == Previous(goal)
  <2>1. /\ task[s].todo = Slices /\ task[s].kept = None /\ ~task[s].absent /\ goal \in Configs
        /\ UNCHANGED <<live, loaded>>
    BY <1>1 DEF Knows, Before, Planned, Read
  <2>2. ~past'.lapsed => MaySkip(task[s])'
    <3>. SUFFICES ASSUME ~past'.lapsed, NEW x \in Slices \cap DOMAIN prev, prev[x] = goal[x]
                  PROVE  /\ x \in Checked \/ live[x] = goal[x]
                         /\ x = "nginx" /\ live[x] = goal[x] => loaded = goal[x]
      BY <1>3, <2>1 DEF MaySkip
    <3>1. /\ ~past.lapsed
          /\ marker.slices = Empty /\ x \notin Checked => goal[x] = live[x]
      BY <1>1 DEF Read, Lapses
    <3>2. RecordTrue(marker, live["nginx"])
      <4>1. Relies(task[s]) /\ Base(task[s]) = live["nginx"]
        BY <1>1, <1>4, <3>1 DEF Relies, Base, Planned
      <4>. QED
        BY <3>1, <4>1 DEF IInv, RecordInv
    <3>3. goal["nginx"] \in Values /\ goal["nginx"] # Mixed /\ "nginx" \in Checked
      BY <2>1, SlicesAssumption, ValuesAssumption DEF Configs, Checked
    <3>4. CASE marker = NoRun
      BY <3>4, EmptyType DEF Previous
    <3>5. CASE marker # NoRun /\ marker.slices # Empty
      BY <3>2, <3>5 DEF Previous, RecordTrue, Blind
    <3>6. CASE marker # NoRun /\ marker.slices = Empty /\ marker.state = goal
      BY <3>1, <3>2, <3>6 DEF RecordTrue
    <3>7. CASE marker # NoRun /\ marker.slices = Empty /\ marker.state # goal
      <4>1. x = "nginx" /\ live[x] = goal[x] => loaded = goal[x]
        BY <3>2, <3>3, <3>7 DEF RecordTrue
      <4>. QED
        BY <3>1, <3>7, <4>1
    <3>. QED
      BY <3>4, <3>5, <3>6, <3>7
  <2>. QED
    BY <1>3, <2>1, <2>2 DEF Progress, Done
<1>9. ~past'.lapsed /\ Relies(task[s])' => RecordTrue(marker, Base(task[s]))'
  <2>1. ~past.lapsed /\ Relies(task[s]) => RecordTrue(marker, Base(task[s]))
    BY DEF IInv, RecordInv
  <2>. QED
    BY <1>1, <1>3, <1>4, <1>7, <2>1 DEF Read, Relies, RecordTrue, Blind, Base, Knows, Before,
      During, Lapses
<1>10. /\ past'.served \in Values /\ Served(Base(task[s]))'
       /\ task'[s].kept = None \/ ~task'[s].reloaded \/ task'[s].pc = "recording"
             => Known(Base(task[s]))'
  BY <1>1, <1>3, <1>4 DEF Read, IInv, IngressInv, Served, Known, Base, Knows, Before, During,
    Lapses
<1>. QED
  BY <1>3, <1>4, <1>5, <1>6, <1>7, <1>8, <1>9, <1>10, InsideStep DEF Read

LEMMA PrepareStep ==
  ASSUME IInv, NEW s \in Sessions, Prepare(s)
  PROVE  IInv'
<1>1. /\ task \in [Sessions -> Task] /\ task[s] \in Task /\ task[s].pc = "preparing"
      /\ Knows(s, task[s])
      /\ past \in [lapsed : BOOLEAN, torn : BOOLEAN, murky : BOOLEAN, served : Here]
  BY DEF Prepare, At, Working, Staging, IInv, TypeOK, KnowsInv
<1>2. /\ task' = [task EXCEPT ![s] = [task[s] EXCEPT !.pc = "applying"]]
      /\ [task[s] EXCEPT !.pc = "applying"] \in Task
  BY <1>1 DEF Prepare, Goes, Task, Places
<1>3. /\ task'[s].pc = "applying"
      /\ task'[s].view = task[s].view
      /\ task'[s].edit = task[s].edit
      /\ task'[s].goal = task[s].goal
      /\ task'[s].prev = task[s].prev
      /\ task'[s].todo = task[s].todo
      /\ task'[s].touched = task[s].touched
      /\ task'[s].kept = task[s].kept
      /\ task'[s].reloaded = task[s].reloaded
      /\ task'[s].absent = task[s].absent
      /\ task'[s].partial = task[s].partial
      /\ task'[s].alone = task[s].alone
      /\ \A r \in Sessions \ {s} : task'[r] = task[r]
      /\ task' \in [Sessions -> Task]
  BY <1>1, <1>2 DEF Task
<1>4. /\ task[s].pc \in Region /\ task'[s].pc \in Planned /\ owner = s
      /\ task[s].pc \in Planned /\ (~past.lapsed \/ task[s].alone) => AllSettled
  BY <1>1, <1>3, Alone DEF Region, Planned, Before, During, After
<1>5. TypeOK'
  BY <1>3 DEF Prepare, IInv, TypeOK
<1>6. Knows(s, task[s])'
  BY <1>1, <1>3 DEF Knows, Before, During, After, Planned, Task
<1>7. ~past'.lapsed \/ task'[s].alone => AllSettled
  BY <1>1, <1>3, <1>4 DEF Prepare, Planned, During, After
<1>8. task'[s].pc \in During \cup {"preparing"} => Progress(task[s])'
  <2>1. Progress(task[s])
    BY <1>1 DEF IInv, ProgressInv, During
  <2>. QED
    BY <1>1, <1>3, <2>1 DEF Prepare, Progress, Done, MaySkip, Renews, FullApply, Knows, During
<1>9. ~past'.lapsed /\ Relies(task[s])' => RecordTrue(marker, Base(task[s]))'
  <2>1. ~past.lapsed /\ Relies(task[s]) => RecordTrue(marker, Base(task[s]))
    BY DEF IInv, RecordInv
  <2>. QED
    BY <1>1, <1>3, <1>4, <1>7, <2>1 DEF Prepare, Relies, RecordTrue, Blind, Base, Knows, Before,
      During, Lapses
<1>10. /\ past'.served \in Values /\ Served(Base(task[s]))'
       /\ task'[s].kept = None \/ ~task'[s].reloaded \/ task'[s].pc = "recording"
             => Known(Base(task[s]))'
  BY <1>1, <1>3, <1>4 DEF Prepare, IInv, IngressInv, Served, Known, Base, Knows, Before, During,
    Lapses
<1>. QED
  BY <1>3, <1>4, <1>5, <1>6, <1>7, <1>8, <1>9, <1>10, InsideStep DEF Prepare

LEMMA PrepareFailsStep ==
  ASSUME IInv, NEW s \in Sessions, PrepareFails(s)
  PROVE  IInv'
<1>1. PICK broken \in {FALSE, FullApply(task[s])} :
        task' = [task EXCEPT ![s].pc = "recording", ![s].partial = broken]
  BY DEF PrepareFails
<1>2. /\ task \in [Sessions -> Task] /\ task[s] \in Task /\ task[s].pc = "preparing"
      /\ Knows(s, task[s])
      /\ past \in [lapsed : BOOLEAN, torn : BOOLEAN, murky : BOOLEAN, served : Here]
  BY DEF PrepareFails, At, Working, Staging, IInv, TypeOK, KnowsInv
<1>3. /\ task' = [task EXCEPT ![s] = [task[s] EXCEPT !.pc = "recording", !.partial = broken]]
      /\ [task[s] EXCEPT !.pc = "recording", !.partial = broken] \in Task
  BY <1>1, <1>2 DEF FullApply, Task, Places
<1>4. /\ task'[s].pc = "recording"
      /\ task'[s].view = task[s].view
      /\ task'[s].edit = task[s].edit
      /\ task'[s].goal = task[s].goal
      /\ task'[s].prev = task[s].prev
      /\ task'[s].todo = task[s].todo
      /\ task'[s].touched = task[s].touched
      /\ task'[s].kept = task[s].kept
      /\ task'[s].reloaded = task[s].reloaded
      /\ task'[s].absent = task[s].absent
      /\ task'[s].partial = broken
      /\ task'[s].alone = task[s].alone
      /\ \A r \in Sessions \ {s} : task'[r] = task[r]
      /\ task' \in [Sessions -> Task]
  BY <1>2, <1>3 DEF Task
<1>5. /\ task[s].pc \in Region /\ task'[s].pc \in Planned /\ owner = s
      /\ task[s].pc \in Planned /\ (~past.lapsed \/ task[s].alone) => AllSettled
  BY <1>2, <1>4, Alone DEF Region, Planned, Before, During, After
<1>6. TypeOK'
  BY <1>2, <1>4 DEF PrepareFails, RollsBack, IInv, TypeOK
<1>7. Knows(s, task[s])'
  BY <1>2, <1>4 DEF Knows, Before, During, After, Planned, Task
<1>8. ~past'.lapsed \/ task'[s].alone => AllSettled
  BY <1>2, <1>4, <1>5 DEF PrepareFails, Planned, During, After
<1>9. task'[s].pc \in During \cup {"preparing"} => Progress(task[s])'
  BY <1>4 DEF During
<1>10. ~past'.lapsed /\ Relies(task[s])' => RecordTrue(marker, Base(task[s]))'
  <2>1. ~past.lapsed /\ Relies(task[s]) => RecordTrue(marker, Base(task[s]))
    BY DEF IInv, RecordInv
  <2>. QED
    BY <1>2, <1>4, <1>5, <1>8, <2>1 DEF PrepareFails, Relies, RecordTrue, Blind, Base, Knows,
      Before, During, Lapses
<1>11. /\ past'.served \in Values /\ Served(Base(task[s]))'
       /\ task'[s].kept = None \/ ~task'[s].reloaded \/ task'[s].pc = "recording"
             => Known(Base(task[s]))'
  BY <1>2, <1>4, <1>5 DEF PrepareFails, IInv, IngressInv, Served, Known, Base, Knows, Before,
    During, Lapses
<1>. QED
  BY <1>4, <1>5, <1>6, <1>7, <1>8, <1>9, <1>10, <1>11, InsideStep DEF PrepareFails

LEMMA SkipSliceStep ==
  ASSUME IInv, NEW s \in Sessions, SkipSlice(s)
  PROVE  IInv'
<1>1. /\ task \in [Sessions -> Task] /\ task[s] \in Task /\ task[s].pc = "applying"
      /\ Knows(s, task[s])
      /\ past \in [lapsed : BOOLEAN, torn : BOOLEAN, murky : BOOLEAN, served : Here]
  BY DEF SkipSlice, At, Working, Staging, IInv, TypeOK, KnowsInv
<1>2. /\ task' = [task EXCEPT ![s] = [task[s] EXCEPT !.todo = (task[s].todo \ {Slice(s)})]]
      /\ [task[s] EXCEPT !.todo = (task[s].todo \ {Slice(s)})] \in Task
  <2>1. [task[s] EXCEPT !.todo = (task[s].todo \ {Slice(s)})] \in Task
    BY <1>1 DEF Task
  <2>. QED
    BY <1>1, <2>1, Zenon DEF SkipSlice
<1>3. /\ task'[s].pc = task[s].pc
      /\ task'[s].view = task[s].view
      /\ task'[s].edit = task[s].edit
      /\ task'[s].goal = task[s].goal
      /\ task'[s].prev = task[s].prev
      /\ task'[s].todo = (task[s].todo \ {Slice(s)})
      /\ task'[s].touched = task[s].touched
      /\ task'[s].kept = task[s].kept
      /\ task'[s].reloaded = task[s].reloaded
      /\ task'[s].absent = task[s].absent
      /\ task'[s].partial = task[s].partial
      /\ task'[s].alone = task[s].alone
      /\ \A r \in Sessions \ {s} : task'[r] = task[r]
      /\ task' \in [Sessions -> Task]
  BY <1>1, <1>2 DEF Task
<1>4. /\ task[s].pc \in Region /\ task'[s].pc \in Planned /\ owner = s
      /\ task[s].pc \in Planned /\ (~past.lapsed \/ task[s].alone) => AllSettled
  BY <1>1, <1>3, Alone DEF Region, Planned, Before, During, After
<1>5. TypeOK'
  BY <1>3 DEF SkipSlice, IInv, TypeOK
<1>6. Knows(s, task[s])'
  BY <1>1, <1>3 DEF Knows, Before, During, After, Planned, Task
<1>7. ~past'.lapsed \/ task'[s].alone => AllSettled
  BY <1>1, <1>3, <1>4 DEF SkipSlice, Planned, During, After
<1>8. task'[s].pc \in During \cup {"preparing"} => Progress(task[s])'
  <2>. DEFINE x == Slice(s)
              t == task[s]
  <2>1. Progress(t)
    BY <1>1 DEF IInv, ProgressInv, During
  <2>2. /\ x \in t.todo /\ x \in Slices /\ x \in DOMAIN t.prev /\ t.prev[x] = t.goal[x]
        /\ x \in Checked => live[x] = t.goal[x]
        /\ task'[s].todo = t.todo \ {x}
    BY <1>1, <1>3, NextSlice DEF SkipSlice, Skips, Changed, Todo, IInv, Task
  <2>3. ~FullApply(t)
    BY <2>2, EmptyType DEF FullApply
  <2>4. ~past.lapsed => live[x] = t.goal[x] /\ (x = "nginx" => loaded = t.goal[x])
    BY <1>1, <2>1, <2>2 DEF Progress, MaySkip
  <2>. HIDE DEF x
  <2>5. Done(task[s])'
    BY <1>1, <1>3, <2>1, <2>2, <2>3, <2>4 DEF Progress, Done, Renews, FullApply, SkipSlice
  <2>. QED
    BY <1>1, <1>3, <2>1, <2>5 DEF SkipSlice, Progress, MaySkip, x
<1>9. ~past'.lapsed /\ Relies(task[s])' => RecordTrue(marker, Base(task[s]))'
  <2>1. ~past.lapsed /\ Relies(task[s]) => RecordTrue(marker, Base(task[s]))
    BY DEF IInv, RecordInv
  <2>. QED
    BY <1>1, <1>3, <1>4, <1>7, <2>1 DEF SkipSlice, Relies, RecordTrue, Blind, Base, Knows,
      Before, During, Lapses
<1>10. /\ past'.served \in Values /\ Served(Base(task[s]))'
       /\ task'[s].kept = None \/ ~task'[s].reloaded \/ task'[s].pc = "recording"
             => Known(Base(task[s]))'
  BY <1>1, <1>3, <1>4 DEF SkipSlice, IInv, IngressInv, Served, Known, Base, Knows, Before,
    During, Lapses
<1>. QED
  BY <1>3, <1>4, <1>5, <1>6, <1>7, <1>8, <1>9, <1>10, InsideStep DEF SkipSlice

(* What a step does to the slice it has reached.                           *)
LEMMA Reached ==
  ASSUME IInv, NEW s \in Sessions, Working(s)
  PROVE  /\ Slice(s) \in task[s].todo /\ Slice(s) \in Slices
         /\ task[s].goal \in Configs /\ task[s].goal[Slice(s)] \in Here
         /\ live \in [Slices -> Here] /\ "nginx" \in Slices /\ "nginx" \in Checked
         /\ "cluster_followers" \notin Checked
<1>1. Slice(s) \in task[s].todo /\ Slice(s) \in Slices
  BY NextSlice DEF Todo, IInv, TypeOK, Task
<1>2. task[s].goal \in Configs
  BY DEF Working, At, IInv, KnowsInv, Knows, Planned, During
<1>3. live \in [Slices -> Here]
  BY DEF IInv, TypeOK
<1>. QED
  BY <1>1, <1>2, <1>3, SlicesAssumption DEF Configs, Here, Checked

LEMMA ApplySliceStep ==
  ASSUME IInv, NEW s \in Sessions, ApplySlice(s)
  PROVE  IInv'
<1>. DEFINE x == Slice(s)
<1>1. /\ x \in task[s].todo /\ x \in Slices /\ task[s].goal \in Configs /\ task[s].goal[x] \in Here
      /\ live \in [Slices -> Here] /\ "nginx" \in Slices /\ "nginx" \in Checked
      /\ "cluster_followers" \notin Checked
  BY Reached DEF ApplySlice, Staging
<1>2. /\ task \in [Sessions -> Task] /\ task[s] \in Task /\ task[s].pc = "applying"
      /\ Knows(s, task[s])
      /\ past \in [lapsed : BOOLEAN, torn : BOOLEAN, murky : BOOLEAN, served : Here]
  BY DEF ApplySlice, At, Working, Staging, IInv, TypeOK, KnowsInv
<1>3. /\ task' = [task EXCEPT ![s] = [task[s] EXCEPT !.todo = (task[s].todo \ {x}),
           !.touched = TRUE]]
      /\ [task[s] EXCEPT !.todo = (task[s].todo \ {x}), !.touched = TRUE] \in Task
  <2>1. [task[s] EXCEPT !.todo = (task[s].todo \ {x}), !.touched = TRUE] \in Task
    BY <1>1, <1>2 DEF Task, Places
  <2>. QED
    BY <1>2, <2>1, Zenon DEF ApplySlice, Goes
<1>4. /\ task'[s].pc = task[s].pc
      /\ task'[s].view = task[s].view
      /\ task'[s].edit = task[s].edit
      /\ task'[s].goal = task[s].goal
      /\ task'[s].prev = task[s].prev
      /\ task'[s].todo = (task[s].todo \ {x})
      /\ task'[s].touched = TRUE
      /\ task'[s].kept = task[s].kept
      /\ task'[s].reloaded = task[s].reloaded
      /\ task'[s].absent = task[s].absent
      /\ task'[s].partial = task[s].partial
      /\ task'[s].alone = task[s].alone
      /\ \A r \in Sessions \ {s} : task'[r] = task[r]
      /\ task' \in [Sessions -> Task]
  BY <1>2, <1>3 DEF Task
<1>5. /\ task[s].pc \in Region /\ task'[s].pc \in Planned /\ owner = s
      /\ task[s].pc \in Planned /\ (~past.lapsed \/ task[s].alone) => AllSettled
  BY <1>2, <1>4, Alone DEF Region, Planned, Before, During, After
<1>6. /\ live' = [live EXCEPT ![x] = task[s].goal[x]] /\ x # "nginx"
      /\ loaded' = loaded /\ past' = past /\ marker' = marker
  BY DEF ApplySlice
<1>7. TypeOK'
  BY <1>1, <1>2, <1>4, <1>6 DEF ApplySlice, IInv, TypeOK
<1>8. Knows(s, task[s])'
  BY <1>2, <1>4 DEF Knows, Before, During, After, Planned, Task
<1>9. ~past'.lapsed \/ task'[s].alone => AllSettled
  BY <1>2, <1>4, <1>5, <1>6 DEF Planned, During, After
<1>10. task'[s].pc \in During \cup {"preparing"} => Progress(task[s])'
  <2>1. Progress(task[s])
    BY <1>2 DEF IInv, ProgressInv, During
  <2>. QED
    BY <1>1, <1>2, <1>4, <1>6, <2>1 DEF Progress, Done, MaySkip, Renews, FullApply, Knows
<1>11. ~past'.lapsed /\ Relies(task[s])' => RecordTrue(marker, Base(task[s]))'
  <2>1. ~past.lapsed /\ Relies(task[s]) => RecordTrue(marker, Base(task[s]))
    BY DEF IInv, RecordInv
  <2>. QED
    BY <1>1, <1>2, <1>4, <1>5, <1>6, <1>9, <2>1 DEF Relies, RecordTrue, Blind, Base, Knows,
      Before, During
<1>12. /\ past'.served \in Values /\ Served(Base(task[s]))'
       /\ task'[s].kept = None \/ ~task'[s].reloaded \/ task'[s].pc = "recording"
             => Known(Base(task[s]))'
  BY <1>1, <1>2, <1>4, <1>5, <1>6 DEF IInv, IngressInv, Served, Known, Base, Knows, Before, During
<1>. QED
  BY <1>4, <1>5, <1>7, <1>8, <1>9, <1>10, <1>11, <1>12, InsideStep DEF ApplySlice

LEMMA FollowersUnavailableStep ==
  ASSUME IInv, NEW s \in Sessions, FollowersUnavailable(s)
  PROVE  IInv'
<1>. DEFINE x == Slice(s)
<1>1. /\ x \in task[s].todo /\ x \in Slices /\ task[s].goal \in Configs /\ task[s].goal[x] \in Here
      /\ live \in [Slices -> Here] /\ "nginx" \in Slices /\ "nginx" \in Checked
      /\ "cluster_followers" \notin Checked
  BY Reached DEF FollowersUnavailable, Staging
<1>2. PICK v \in Here :
        /\ live' = [live EXCEPT ![x] = v] /\ x = "cluster_followers"
        /\ loaded' = loaded /\ marker' = marker
        /\ past' = [past EXCEPT !.lapsed = @ \/ (x \in DOMAIN task[s].prev /\ v # task[s].prev[x])]
  <2>1. {live[x], task[s].goal[x], Mixed} \subseteq Here
    BY <1>1 DEF Here
  <2>. QED
    BY <2>1 DEF FollowersUnavailable, Lapses
<1>3. /\ task \in [Sessions -> Task] /\ task[s] \in Task /\ task[s].pc = "applying"
      /\ Knows(s, task[s])
      /\ past \in [lapsed : BOOLEAN, torn : BOOLEAN, murky : BOOLEAN, served : Here]
  BY DEF FollowersUnavailable, At, Working, Staging, IInv, TypeOK, KnowsInv
<1>4. /\ task' = [task EXCEPT ![s] = [task[s] EXCEPT !.todo = (task[s].todo \ {x}),
           !.touched = TRUE, !.absent = TRUE]]
      /\ [task[s] EXCEPT !.todo = (task[s].todo \ {x}), !.touched = TRUE,
           !.absent = TRUE] \in Task
  <2>1. [task[s] EXCEPT !.todo = (task[s].todo \ {x}), !.touched = TRUE, !.absent = TRUE] \in Task
    BY <1>1, <1>3 DEF Task, Places
  <2>. QED
    BY <1>3, <2>1, Zenon DEF FollowersUnavailable, Goes
<1>5. /\ task'[s].pc = task[s].pc
      /\ task'[s].view = task[s].view
      /\ task'[s].edit = task[s].edit
      /\ task'[s].goal = task[s].goal
      /\ task'[s].prev = task[s].prev
      /\ task'[s].todo = (task[s].todo \ {x})
      /\ task'[s].touched = TRUE
      /\ task'[s].kept = task[s].kept
      /\ task'[s].reloaded = task[s].reloaded
      /\ task'[s].absent = TRUE
      /\ task'[s].partial = task[s].partial
      /\ task'[s].alone = task[s].alone
      /\ \A r \in Sessions \ {s} : task'[r] = task[r]
      /\ task' \in [Sessions -> Task]
  BY <1>3, <1>4 DEF Task
<1>6. /\ task[s].pc \in Region /\ task'[s].pc \in Planned /\ owner = s
      /\ task[s].pc \in Planned /\ (~past.lapsed \/ task[s].alone) => AllSettled
  BY <1>3, <1>5, Alone DEF Region, Planned, Before, During, After
<1>7. /\ live' = [live EXCEPT ![x] = v] /\ v \in Here /\ x = "cluster_followers"
      /\ loaded' = loaded /\ marker' = marker
      /\ past' = [past EXCEPT !.lapsed = @ \/ (x \in DOMAIN task[s].prev /\ v # task[s].prev[x])]
  BY <1>2
<1>8. TypeOK'
  BY <1>1, <1>3, <1>5, <1>7 DEF FollowersUnavailable, IInv, TypeOK
<1>9. Knows(s, task[s])'
  BY <1>3, <1>5 DEF Knows, Before, During, After, Planned, Task
<1>10. ~past'.lapsed \/ task'[s].alone => AllSettled
  BY <1>3, <1>5, <1>6, <1>7 DEF Planned, During, After
<1>11. task'[s].pc \in During \cup {"preparing"} => Progress(task[s])'
  <2>1. Progress(task[s])
    BY <1>3 DEF IInv, ProgressInv, During
  <2>2. ~past'.lapsed => ~past.lapsed /\ (x \in DOMAIN task[s].prev => v = task[s].prev[x])
    BY <1>3, <1>7
  <2>3. live'[x] = v /\ x = "cluster_followers" /\ \A y \in Slices \ {x} : live'[y] = live[y]
    BY <1>1, <1>7
  <2>. HIDE DEF x
  <2>4. Done(task[s])'
    BY <1>1, <1>3, <1>5, <1>7, <2>1, <2>2, <2>3 DEF Progress, Done, Renews, FullApply
  <2>5. ~past'.lapsed => MaySkip(task[s])'
    BY <1>1, <1>3, <1>5, <1>7, <2>1, <2>2, <2>3 DEF Progress, MaySkip
  <2>. QED
    BY <1>1, <1>3, <1>5, <1>7, <2>1, <2>2, <2>3, <2>4, <2>5 DEF Progress
<1>12. ~past'.lapsed /\ Relies(task[s])' => RecordTrue(marker, Base(task[s]))'
  <2>1. ~past.lapsed /\ Relies(task[s]) => RecordTrue(marker, Base(task[s]))
    BY DEF IInv, RecordInv
  <2>. QED
    BY <1>1, <1>3, <1>5, <1>6, <1>7, <1>10, <2>1 DEF Relies, RecordTrue, Blind, Base, Knows,
      Before, During
<1>13. /\ past'.served \in Values /\ Served(Base(task[s]))'
       /\ task'[s].kept = None \/ ~task'[s].reloaded \/ task'[s].pc = "recording"
             => Known(Base(task[s]))'
  BY <1>1, <1>3, <1>5, <1>6, <1>7 DEF IInv, IngressInv, Served, Known, Base, Knows, Before, During
<1>. QED
  BY <1>5, <1>6, <1>8, <1>9, <1>10, <1>11, <1>12, <1>13, InsideStep DEF FollowersUnavailable

LEMMA SliceFailsStep ==
  ASSUME IInv, NEW s \in Sessions, SliceFails(s)
  PROVE  IInv'
<1>. DEFINE x == Slice(s)
<1>1. /\ x \in task[s].todo /\ x \in Slices /\ task[s].goal \in Configs /\ task[s].goal[x] \in Here
      /\ live \in [Slices -> Here] /\ "nginx" \in Slices /\ "nginx" \in Checked
      /\ "cluster_followers" \notin Checked
  BY Reached DEF SliceFails, Staging
<1>2. PICK touched \in BOOLEAN :
        /\ task' = [task EXCEPT ![s] = [task[s] EXCEPT !.pc = "failing", !.touched = touched]]
        /\ live' \in [Slices -> Here] /\ \A y \in Slices \ {x} : live'[y] = live[y]
        /\ x # "nginx" /\ loaded' = loaded /\ marker' = marker /\ past' = past
        /\ touched \in {task[s].touched, TRUE} /\ (~touched => live' = live)
  <2>1. {live[x], task[s].goal[x], Mixed} \subseteq Here
    BY <1>1 DEF Here
  <2>2. task \in [Sessions -> Task]
    BY DEF IInv, TypeOK
  <2>3. x # "nginx" /\ loaded' = loaded /\ marker' = marker /\ past' = past
    BY DEF SliceFails
  <2>4. CASE \E v \in {live[x], task[s].goal[x], Mixed} :
               /\ live' = [live EXCEPT ![x] = v]
               /\ task' = [task EXCEPT ![s].pc = "failing", ![s].touched = TRUE]
    <3>1. task' = [task EXCEPT ![s] = [task[s] EXCEPT !.pc = "failing", !.touched = TRUE]]
      BY <2>2, <2>4
    <3>2. live' \in [Slices -> Here] /\ \A y \in Slices \ {x} : live'[y] = live[y]
      BY <1>1, <2>1, <2>4
    <3>. QED
      BY <2>3, <3>1, <3>2
  <2>5. CASE Goes(s, "failing") /\ UNCHANGED live
    <3>1. /\ task' = [task EXCEPT ![s] = [task[s] EXCEPT !.pc = "failing",
               !.touched = task[s].touched]]
          /\ task[s].touched \in BOOLEAN
      BY <2>2, <2>5 DEF Goes, Task
    <3>. QED
      BY <1>1, <2>3, <2>5, <3>1
  <2>. QED
    BY <2>4, <2>5 DEF SliceFails
<1>3. /\ task \in [Sessions -> Task] /\ task[s] \in Task /\ task[s].pc = "applying"
      /\ Knows(s, task[s])
      /\ past \in [lapsed : BOOLEAN, torn : BOOLEAN, murky : BOOLEAN, served : Here]
  BY DEF SliceFails, At, Working, Staging, IInv, TypeOK, KnowsInv
<1>4. /\ task' = [task EXCEPT ![s] = [task[s] EXCEPT !.pc = "failing", !.touched = touched]]
      /\ [task[s] EXCEPT !.pc = "failing", !.touched = touched] \in Task
  BY <1>2, <1>3 DEF Task, Places
<1>5. /\ task'[s].pc = "failing"
      /\ task'[s].view = task[s].view
      /\ task'[s].edit = task[s].edit
      /\ task'[s].goal = task[s].goal
      /\ task'[s].prev = task[s].prev
      /\ task'[s].todo = task[s].todo
      /\ task'[s].touched = touched
      /\ task'[s].kept = task[s].kept
      /\ task'[s].reloaded = task[s].reloaded
      /\ task'[s].absent = task[s].absent
      /\ task'[s].partial = task[s].partial
      /\ task'[s].alone = task[s].alone
      /\ \A r \in Sessions \ {s} : task'[r] = task[r]
      /\ task' \in [Sessions -> Task]
  BY <1>3, <1>4 DEF Task
<1>6. /\ task[s].pc \in Region /\ task'[s].pc \in Planned /\ owner = s
      /\ task[s].pc \in Planned /\ (~past.lapsed \/ task[s].alone) => AllSettled
  BY <1>3, <1>5, Alone DEF Region, Planned, Before, During, After
<1>7. /\ live' \in [Slices -> Here] /\ \A y \in Slices \ {x} : live'[y] = live[y]
      /\ x # "nginx" /\ loaded' = loaded /\ marker' = marker /\ past' = past
      /\ touched \in {task[s].touched, TRUE} /\ (~touched => live' = live)
  BY <1>2
<1>8. TypeOK'
  BY <1>1, <1>3, <1>5, <1>7 DEF SliceFails, IInv, TypeOK
<1>9. Knows(s, task[s])'
  BY <1>3, <1>5, <1>7 DEF Knows, Before, During, After, Planned, Task
<1>10. ~past'.lapsed \/ task'[s].alone => AllSettled
  BY <1>2, <1>3, <1>5, <1>6 DEF Planned, During
<1>11. task'[s].pc \in During \cup {"preparing"} => Progress(task[s])'
  BY <1>5 DEF During
<1>12. ~past'.lapsed /\ Relies(task[s])' => RecordTrue(marker, Base(task[s]))'
  <2>1. ~past.lapsed /\ Relies(task[s]) => RecordTrue(marker, Base(task[s]))
    BY DEF IInv, RecordInv
  <2>. QED
    BY <1>1, <1>3, <1>5, <1>6, <1>7, <1>10, <2>1 DEF Relies, RecordTrue, Blind, Base, Knows,
      Before, During
<1>13. /\ past'.served \in Values /\ Served(Base(task[s]))'
       /\ task'[s].kept = None \/ ~task'[s].reloaded \/ task'[s].pc = "recording"
             => Known(Base(task[s]))'
  BY <1>1, <1>3, <1>5, <1>6, <1>7 DEF IInv, IngressInv, Served, Known, Base, Knows, Before, During
<1>. QED
  BY <1>5, <1>6, <1>8, <1>9, <1>10, <1>11, <1>12, <1>13, InsideStep DEF SliceFails

LEMMA SwapFilesStep ==
  ASSUME IInv, NEW s \in Sessions, SwapFiles(s)
  PROVE  IInv'
<1>1. /\ task[s].goal \in Configs /\ task[s].goal["nginx"] \in Values \cap Here
      /\ live \in [Slices -> Here] /\ "nginx" \in Slices /\ "nginx" \in Checked
      /\ loaded \in Here /\ None \notin Here /\ Mixed \notin Values
  <2>1. task[s].goal \in Configs
    BY DEF SwapFiles, Staging, Working, At, IInv, KnowsInv, Knows, Planned, During
  <2>. QED
    BY <2>1, SlicesAssumption, ValuesAssumption DEF Configs, Here, Checked, IInv, TypeOK
<1>2. "nginx" \in task[s].todo
  BY NextSlice DEF SwapFiles, Staging, Todo, IInv
<1>3. /\ task \in [Sessions -> Task] /\ task[s] \in Task /\ task[s].pc = "applying"
      /\ Knows(s, task[s])
      /\ past \in [lapsed : BOOLEAN, torn : BOOLEAN, murky : BOOLEAN, served : Here]
  BY DEF SwapFiles, At, Working, Staging, IInv, TypeOK, KnowsInv
<1>4. /\ task' = [task EXCEPT ![s] = [task[s] EXCEPT !.pc = "swapped", !.kept = live["nginx"]]]
      /\ [task[s] EXCEPT !.pc = "swapped", !.kept = live["nginx"]] \in Task
  <2>1. [task[s] EXCEPT !.pc = "swapped", !.kept = live["nginx"]] \in Task
    BY <1>1, <1>3 DEF Task, Places
  <2>. QED
    BY <1>3, <2>1, Zenon DEF SwapFiles, Goes
<1>5. /\ task'[s].pc = "swapped"
      /\ task'[s].view = task[s].view
      /\ task'[s].edit = task[s].edit
      /\ task'[s].goal = task[s].goal
      /\ task'[s].prev = task[s].prev
      /\ task'[s].todo = task[s].todo
      /\ task'[s].touched = task[s].touched
      /\ task'[s].kept = live["nginx"]
      /\ task'[s].reloaded = task[s].reloaded
      /\ task'[s].absent = task[s].absent
      /\ task'[s].partial = task[s].partial
      /\ task'[s].alone = task[s].alone
      /\ \A r \in Sessions \ {s} : task'[r] = task[r]
      /\ task' \in [Sessions -> Task]
  BY <1>3, <1>4 DEF Task
<1>6. /\ task[s].pc \in Region /\ task'[s].pc \in Planned /\ owner = s
      /\ task[s].pc \in Planned /\ (~past.lapsed \/ task[s].alone) => AllSettled
  BY <1>3, <1>5, Alone DEF Region, Planned, Before, During, After
<1>7. /\ live' = [live EXCEPT !["nginx"] = task[s].goal["nginx"]] /\ "nginx" \in task[s].todo
      /\ loaded' = loaded /\ past' = past /\ marker' = marker
  BY <1>2 DEF SwapFiles
<1>8. TypeOK'
  BY <1>1, <1>3, <1>5, <1>7 DEF SwapFiles, IInv, TypeOK
<1>9. Knows(s, task[s])'
  BY <1>1, <1>3, <1>5, <1>7 DEF Knows, Before, During, After, Planned, Task
<1>10. ~past'.lapsed \/ task'[s].alone => AllSettled
  BY <1>3, <1>5, <1>6, <1>7 DEF Planned, During, After
<1>11. task'[s].pc \in During \cup {"preparing"} => Progress(task[s])'
  <2>1. Progress(task[s])
    BY <1>3 DEF IInv, ProgressInv, During
  <2>. QED
    BY <1>1, <1>3, <1>5, <1>7, <2>1 DEF Progress, Done, MaySkip, Renews, FullApply, Knows
<1>12. ~past'.lapsed /\ Relies(task[s])' => RecordTrue(marker, Base(task[s]))'
  <2>1. ~past.lapsed /\ Relies(task[s]) => RecordTrue(marker, Base(task[s]))
    BY DEF IInv, RecordInv
  <2>. QED
    BY <1>1, <1>3, <1>5, <1>6, <1>7, <1>10, <2>1 DEF Relies, RecordTrue, Blind, Base, Knows,
      Before, During
<1>13. /\ past'.served \in Values /\ Served(Base(task[s]))'
       /\ task'[s].kept = None \/ ~task'[s].reloaded \/ task'[s].pc = "recording"
             => Known(Base(task[s]))'
  BY <1>1, <1>3, <1>5, <1>6, <1>7 DEF IInv, IngressInv, Served, Known, Base, Knows, Before, During
<1>. QED
  BY <1>5, <1>6, <1>8, <1>9, <1>10, <1>11, <1>12, <1>13, InsideStep DEF SwapFiles

LEMMA SwapFailsStep ==
  ASSUME IInv, NEW s \in Sessions, SwapFails(s)
  PROVE  IInv'
<1>1. /\ task[s].goal \in Configs /\ task[s].goal["nginx"] \in Values \cap Here
      /\ live \in [Slices -> Here] /\ "nginx" \in Slices /\ "nginx" \in Checked
      /\ loaded \in Here /\ None \notin Here /\ Mixed \notin Values
  <2>1. task[s].goal \in Configs
    BY DEF SwapFails, Staging, Working, At, IInv, KnowsInv, Knows, Planned, During
  <2>. QED
    BY <2>1, SlicesAssumption, ValuesAssumption DEF Configs, Here, Checked, IInv, TypeOK
<1>2. "nginx" \in task[s].todo
  BY NextSlice DEF SwapFails, Staging, Todo, IInv
<1>3. PICK v \in {live["nginx"], Mixed} :
        /\ live' = [live EXCEPT !["nginx"] = v]
        /\ past' = [past EXCEPT !.torn = @ \/ v = Mixed]
  BY DEF SwapFails
<1>4. /\ task \in [Sessions -> Task] /\ task[s] \in Task /\ task[s].pc = "applying"
      /\ Knows(s, task[s])
      /\ past \in [lapsed : BOOLEAN, torn : BOOLEAN, murky : BOOLEAN, served : Here]
  BY DEF SwapFails, At, Working, Staging, IInv, TypeOK, KnowsInv
<1>5. /\ task' = [task EXCEPT ![s] = [task[s] EXCEPT !.pc = "failing"]]
      /\ [task[s] EXCEPT !.pc = "failing"] \in Task
  <2>1. [task[s] EXCEPT !.pc = "failing"] \in Task
    BY <1>1, <1>4 DEF Task, Places
  <2>. QED
    BY <1>4, <2>1, Zenon DEF SwapFails, Goes
<1>6. /\ task'[s].pc = "failing"
      /\ task'[s].view = task[s].view
      /\ task'[s].edit = task[s].edit
      /\ task'[s].goal = task[s].goal
      /\ task'[s].prev = task[s].prev
      /\ task'[s].todo = task[s].todo
      /\ task'[s].touched = task[s].touched
      /\ task'[s].kept = task[s].kept
      /\ task'[s].reloaded = task[s].reloaded
      /\ task'[s].absent = task[s].absent
      /\ task'[s].partial = task[s].partial
      /\ task'[s].alone = task[s].alone
      /\ \A r \in Sessions \ {s} : task'[r] = task[r]
      /\ task' \in [Sessions -> Task]
  BY <1>4, <1>5 DEF Task
<1>7. /\ task[s].pc \in Region /\ task'[s].pc \in Planned /\ owner = s
      /\ task[s].pc \in Planned /\ (~past.lapsed \/ task[s].alone) => AllSettled
  BY <1>4, <1>6, Alone DEF Region, Planned, Before, During, After
<1>8. /\ live' = [live EXCEPT !["nginx"] = v] /\ v \in {live["nginx"], Mixed}
      /\ past' = [past EXCEPT !.torn = @ \/ v = Mixed]
      /\ "nginx" \in task[s].todo /\ Mixed \in Here
      /\ loaded' = loaded /\ marker' = marker
  BY <1>2, <1>3 DEF SwapFails, Here
<1>9. TypeOK'
  <2>1. UNCHANGED <<db, marker, loaded, owner, writer>>
    BY DEF SwapFails
  <2>2. live' \in [Slices -> Here]
    BY <1>1, <1>8
  <2>3. past' \in [lapsed : BOOLEAN, torn : BOOLEAN, murky : BOOLEAN, served : Here]
    BY <1>4, <1>8
  <2>. QED
    BY <1>6, <2>1, <2>2, <2>3 DEF IInv, TypeOK
<1>10. Knows(s, task[s])'
  BY <1>4, <1>6 DEF Knows, Before, During, After, Planned, Task
<1>11. ~past'.lapsed \/ task'[s].alone => AllSettled
  BY <1>4, <1>6, <1>7, <1>8 DEF Planned, During, After
<1>12. task'[s].pc \in During \cup {"preparing"} => Progress(task[s])'
  BY <1>6 DEF During
<1>13. ~past'.lapsed /\ Relies(task[s])' => RecordTrue(marker, Base(task[s]))'
  <2>1. ~past.lapsed /\ Relies(task[s]) => RecordTrue(marker, Base(task[s]))
    BY DEF IInv, RecordInv
  <2>. QED
    BY <1>1, <1>4, <1>6, <1>7, <1>8, <1>11, <2>1 DEF Relies, RecordTrue, Blind, Base, Knows,
      Before, During
<1>14. /\ past'.served \in Values /\ Served(Base(task[s]))'
       /\ task'[s].kept = None \/ ~task'[s].reloaded \/ task'[s].pc = "recording"
             => Known(Base(task[s]))'
  BY <1>1, <1>4, <1>6, <1>7, <1>8 DEF IInv, IngressInv, Served, Known, Base, Knows, Before, During
<1>. QED
  BY <1>6, <1>7, <1>9, <1>10, <1>11, <1>12, <1>13, <1>14, InsideStep DEF SwapFails

LEMMA ValidateFailsStep ==
  ASSUME IInv, NEW s \in Sessions, ValidateFails(s)
  PROVE  IInv'
<1>1. /\ task[s].goal \in Configs /\ task[s].goal["nginx"] \in Values \cap Here
      /\ live \in [Slices -> Here] /\ "nginx" \in Slices /\ "nginx" \in Checked
      /\ loaded \in Here /\ None \notin Here /\ Mixed \notin Values
  <2>1. task[s].goal \in Configs
    BY DEF ValidateFails, Staging, Working, At, IInv, KnowsInv, Knows, Planned, During
  <2>. QED
    BY <2>1, SlicesAssumption, ValuesAssumption DEF Configs, Here, Checked, IInv, TypeOK
<1>2. /\ task \in [Sessions -> Task] /\ task[s] \in Task /\ task[s].pc = "swapped"
      /\ Knows(s, task[s])
      /\ past \in [lapsed : BOOLEAN, torn : BOOLEAN, murky : BOOLEAN, served : Here]
  BY DEF ValidateFails, At, Working, Staging, IInv, TypeOK, KnowsInv
<1>3. /\ task' = [task EXCEPT ![s] = [task[s] EXCEPT !.pc = "failing"]]
      /\ [task[s] EXCEPT !.pc = "failing"] \in Task
  <2>1. [task[s] EXCEPT !.pc = "failing"] \in Task
    BY <1>1, <1>2 DEF Task, Places
  <2>. QED
    BY <1>2, <2>1, Zenon DEF ValidateFails, Goes
<1>4. /\ task'[s].pc = "failing"
      /\ task'[s].view = task[s].view
      /\ task'[s].edit = task[s].edit
      /\ task'[s].goal = task[s].goal
      /\ task'[s].prev = task[s].prev
      /\ task'[s].todo = task[s].todo
      /\ task'[s].touched = task[s].touched
      /\ task'[s].kept = task[s].kept
      /\ task'[s].reloaded = task[s].reloaded
      /\ task'[s].absent = task[s].absent
      /\ task'[s].partial = task[s].partial
      /\ task'[s].alone = task[s].alone
      /\ \A r \in Sessions \ {s} : task'[r] = task[r]
      /\ task' \in [Sessions -> Task]
  BY <1>2, <1>3 DEF Task
<1>5. /\ task[s].pc \in Region /\ task'[s].pc \in Planned /\ owner = s
      /\ task[s].pc \in Planned /\ (~past.lapsed \/ task[s].alone) => AllSettled
  BY <1>2, <1>4, Alone DEF Region, Planned, Before, During, After
<1>6. /\ live' = live /\ loaded' = loaded /\ past' = past /\ marker' = marker
  BY DEF ValidateFails
<1>7. TypeOK'
  BY <1>1, <1>2, <1>4, <1>6 DEF ValidateFails, IInv, TypeOK
<1>8. Knows(s, task[s])'
  BY <1>2, <1>4 DEF Knows, Before, During, After, Planned, Task
<1>9. ~past'.lapsed \/ task'[s].alone => AllSettled
  BY <1>2, <1>4, <1>5, <1>6 DEF Planned, During, After
<1>10. task'[s].pc \in During \cup {"preparing"} => Progress(task[s])'
  BY <1>4 DEF During
<1>11. ~past'.lapsed /\ Relies(task[s])' => RecordTrue(marker, Base(task[s]))'
  <2>1. ~past.lapsed /\ Relies(task[s]) => RecordTrue(marker, Base(task[s]))
    BY DEF IInv, RecordInv
  <2>. QED
    BY <1>1, <1>2, <1>4, <1>5, <1>6, <1>9, <2>1 DEF Relies, RecordTrue, Blind, Base, Knows,
      Before, During
<1>12. /\ past'.served \in Values /\ Served(Base(task[s]))'
       /\ task'[s].kept = None \/ ~task'[s].reloaded \/ task'[s].pc = "recording"
             => Known(Base(task[s]))'
  BY <1>1, <1>2, <1>4, <1>5, <1>6 DEF IInv, IngressInv, Served, Known, Base, Knows, Before, During
<1>. QED
  BY <1>4, <1>5, <1>7, <1>8, <1>9, <1>10, <1>11, <1>12, InsideStep DEF ValidateFails

LEMMA ReloadNginxStep ==
  ASSUME IInv, NEW s \in Sessions, ReloadNginx(s)
  PROVE  IInv'
<1>1. /\ task[s].goal \in Configs /\ task[s].goal["nginx"] \in Values \cap Here
      /\ live \in [Slices -> Here] /\ "nginx" \in Slices /\ "nginx" \in Checked
      /\ loaded \in Here /\ None \notin Here /\ Mixed \notin Values
  <2>1. task[s].goal \in Configs
    BY DEF ReloadNginx, Staging, Working, At, IInv, KnowsInv, Knows, Planned, During
  <2>. QED
    BY <2>1, SlicesAssumption, ValuesAssumption DEF Configs, Here, Checked, IInv, TypeOK
<1>2. /\ task \in [Sessions -> Task] /\ task[s] \in Task /\ task[s].pc = "swapped"
      /\ Knows(s, task[s])
      /\ past \in [lapsed : BOOLEAN, torn : BOOLEAN, murky : BOOLEAN, served : Here]
  BY DEF ReloadNginx, At, Working, Staging, IInv, TypeOK, KnowsInv
<1>3. /\ task' = [task EXCEPT ![s] = [task[s] EXCEPT !.pc = "applying",
           !.todo = (task[s].todo \ {"nginx"}), !.touched = TRUE, !.reloaded = TRUE]]
      /\ [task[s] EXCEPT !.pc = "applying", !.todo = (task[s].todo \ {"nginx"}),
           !.touched = TRUE, !.reloaded = TRUE] \in Task
  <2>1. [task[s] EXCEPT !.pc = "applying", !.todo = (task[s].todo \ {"nginx"}),
          !.touched = TRUE, !.reloaded = TRUE] \in Task
    BY <1>1, <1>2 DEF Task, Places
  <2>. QED
    BY <1>2, <2>1, Zenon DEF ReloadNginx, Goes
<1>4. /\ task'[s].pc = "applying"
      /\ task'[s].view = task[s].view
      /\ task'[s].edit = task[s].edit
      /\ task'[s].goal = task[s].goal
      /\ task'[s].prev = task[s].prev
      /\ task'[s].todo = (task[s].todo \ {"nginx"})
      /\ task'[s].touched = TRUE
      /\ task'[s].kept = task[s].kept
      /\ task'[s].reloaded = TRUE
      /\ task'[s].absent = task[s].absent
      /\ task'[s].partial = task[s].partial
      /\ task'[s].alone = task[s].alone
      /\ \A r \in Sessions \ {s} : task'[r] = task[r]
      /\ task' \in [Sessions -> Task]
  BY <1>2, <1>3 DEF Task
<1>5. /\ task[s].pc \in Region /\ task'[s].pc \in Planned /\ owner = s
      /\ task[s].pc \in Planned /\ (~past.lapsed \/ task[s].alone) => AllSettled
  BY <1>2, <1>4, Alone DEF Region, Planned, Before, During, After
<1>6. /\ live' = live /\ loaded' = live["nginx"] /\ past' = past /\ marker' = marker
  BY DEF ReloadNginx
<1>7. TypeOK'
  BY <1>1, <1>2, <1>4, <1>6 DEF ReloadNginx, IInv, TypeOK
<1>8. Knows(s, task[s])'
  BY <1>2, <1>4 DEF Knows, Before, During, After, Planned, Task
<1>9. ~past'.lapsed \/ task'[s].alone => AllSettled
  BY <1>2, <1>4, <1>5, <1>6 DEF Planned, During, After
<1>10. task'[s].pc \in During \cup {"preparing"} => Progress(task[s])'
  <2>1. Progress(task[s])
    BY <1>2 DEF IInv, ProgressInv, During
  <2>. QED
    BY <1>1, <1>2, <1>4, <1>6, <2>1 DEF Progress, Done, MaySkip, Renews, FullApply, Knows
<1>11. ~past'.lapsed /\ Relies(task[s])' => RecordTrue(marker, Base(task[s]))'
  <2>1. ~past.lapsed /\ Relies(task[s]) => RecordTrue(marker, Base(task[s]))
    BY DEF IInv, RecordInv
  <2>. QED
    BY <1>1, <1>2, <1>4, <1>5, <1>6, <1>9, <2>1 DEF Relies, RecordTrue, Blind, Base, Knows,
      Before, During
<1>12. /\ past'.served \in Values /\ Served(Base(task[s]))'
       /\ task'[s].kept = None \/ ~task'[s].reloaded \/ task'[s].pc = "recording"
             => Known(Base(task[s]))'
  BY <1>1, <1>2, <1>4, <1>5, <1>6 DEF IInv, IngressInv, Served, Known, Base, Knows, Before, During
<1>. QED
  BY <1>4, <1>5, <1>7, <1>8, <1>9, <1>10, <1>11, <1>12, InsideStep DEF ReloadNginx

LEMMA ReloadFailsStep ==
  ASSUME IInv, NEW s \in Sessions, ReloadFails(s)
  PROVE  IInv'
<1>1. /\ task[s].goal \in Configs /\ task[s].goal["nginx"] \in Values \cap Here
      /\ live \in [Slices -> Here] /\ "nginx" \in Slices /\ "nginx" \in Checked
      /\ loaded \in Here /\ None \notin Here /\ Mixed \notin Values
  <2>1. task[s].goal \in Configs
    BY DEF ReloadFails, Staging, Working, At, IInv, KnowsInv, Knows, Planned, During
  <2>. QED
    BY <2>1, SlicesAssumption, ValuesAssumption DEF Configs, Here, Checked, IInv, TypeOK
<1>2. /\ task \in [Sessions -> Task] /\ task[s] \in Task /\ task[s].pc = "swapped"
      /\ Knows(s, task[s])
      /\ past \in [lapsed : BOOLEAN, torn : BOOLEAN, murky : BOOLEAN, served : Here]
  BY DEF ReloadFails, At, Working, Staging, IInv, TypeOK, KnowsInv
<1>3. /\ task' = [task EXCEPT ![s] = [task[s] EXCEPT !.pc = "failing", !.touched = TRUE]]
      /\ [task[s] EXCEPT !.pc = "failing", !.touched = TRUE] \in Task
  <2>1. [task[s] EXCEPT !.pc = "failing", !.touched = TRUE] \in Task
    BY <1>1, <1>2 DEF Task, Places
  <2>. QED
    BY <1>2, <2>1, Zenon DEF ReloadFails, Goes
<1>4. /\ task'[s].pc = "failing"
      /\ task'[s].view = task[s].view
      /\ task'[s].edit = task[s].edit
      /\ task'[s].goal = task[s].goal
      /\ task'[s].prev = task[s].prev
      /\ task'[s].todo = task[s].todo
      /\ task'[s].touched = TRUE
      /\ task'[s].kept = task[s].kept
      /\ task'[s].reloaded = task[s].reloaded
      /\ task'[s].absent = task[s].absent
      /\ task'[s].partial = task[s].partial
      /\ task'[s].alone = task[s].alone
      /\ \A r \in Sessions \ {s} : task'[r] = task[r]
      /\ task' \in [Sessions -> Task]
  BY <1>2, <1>3 DEF Task
<1>5. /\ task[s].pc \in Region /\ task'[s].pc \in Planned /\ owner = s
      /\ task[s].pc \in Planned /\ (~past.lapsed \/ task[s].alone) => AllSettled
  BY <1>2, <1>4, Alone DEF Region, Planned, Before, During, After
<1>6. /\ live' = live /\ loaded' \in {loaded, live["nginx"]} /\ marker' = marker
      /\ past' = [past EXCEPT !.murky = @ \/ loaded' # loaded]
  BY DEF ReloadFails
<1>7. TypeOK'
  <2>1. loaded' \in Here
    BY <1>1, <1>6
  <2>2. past' \in [lapsed : BOOLEAN, torn : BOOLEAN, murky : BOOLEAN, served : Here]
    BY <1>2, <1>6
  <2>. QED
    BY <1>4, <2>1, <2>2 DEF ReloadFails, IInv, TypeOK
<1>8. Knows(s, task[s])'
  BY <1>2, <1>4 DEF Knows, Before, During, After, Planned, Task
<1>9. ~past'.lapsed \/ task'[s].alone => AllSettled
  BY <1>2, <1>4, <1>5, <1>6 DEF Planned, During, After
<1>10. task'[s].pc \in During \cup {"preparing"} => Progress(task[s])'
  BY <1>4 DEF During
<1>11. ~past'.lapsed /\ Relies(task[s])' => RecordTrue(marker, Base(task[s]))'
  <2>1. ~past.lapsed /\ Relies(task[s]) => RecordTrue(marker, Base(task[s]))
    BY DEF IInv, RecordInv
  <2>. QED
    BY <1>1, <1>2, <1>4, <1>5, <1>6, <1>9, <2>1 DEF Relies, RecordTrue, Blind, Base, Knows,
      Before, During
<1>12. /\ past'.served \in Values /\ Served(Base(task[s]))'
       /\ task'[s].kept = None \/ ~task'[s].reloaded \/ task'[s].pc = "recording"
             => Known(Base(task[s]))'
  BY <1>1, <1>2, <1>4, <1>5, <1>6 DEF IInv, IngressInv, Served, Known, Base, Knows, Before, During
<1>. QED
  BY <1>4, <1>5, <1>7, <1>8, <1>9, <1>10, <1>11, <1>12, InsideStep DEF ReloadFails

LEMMA VerifyStep ==
  ASSUME IInv, NEW s \in Sessions, Verify(s)
  PROVE  IInv'
<1>1. /\ task[s].goal \in Configs /\ task[s].goal["nginx"] \in Values \cap Here
      /\ live \in [Slices -> Here] /\ "nginx" \in Slices /\ "nginx" \in Checked
      /\ loaded \in Here /\ None \notin Here /\ Mixed \notin Values
  <2>1. task[s].goal \in Configs
    BY DEF Verify, At, IInv, KnowsInv, Knows, Planned, During
  <2>. QED
    BY <2>1, SlicesAssumption, ValuesAssumption DEF Configs, Here, Checked, IInv, TypeOK
<1>2. /\ task \in [Sessions -> Task] /\ task[s] \in Task /\ task[s].pc = "applying"
      /\ Knows(s, task[s])
      /\ past \in [lapsed : BOOLEAN, torn : BOOLEAN, murky : BOOLEAN, served : Here]
  BY DEF Verify, At, Working, Staging, IInv, TypeOK, KnowsInv
<1>3. /\ task' = [task EXCEPT ![s] = [task[s] EXCEPT !.pc = "applied", !.kept = None]]
      /\ [task[s] EXCEPT !.pc = "applied", !.kept = None] \in Task
  <2>1. [task[s] EXCEPT !.pc = "applied", !.kept = None] \in Task
    BY <1>1, <1>2 DEF Task, Places
  <2>. QED
    BY <1>2, <2>1, Zenon DEF Verify, Goes
<1>4. /\ task'[s].pc = "applied"
      /\ task'[s].view = task[s].view
      /\ task'[s].edit = task[s].edit
      /\ task'[s].goal = task[s].goal
      /\ task'[s].prev = task[s].prev
      /\ task'[s].todo = task[s].todo
      /\ task'[s].touched = task[s].touched
      /\ task'[s].kept = None
      /\ task'[s].reloaded = task[s].reloaded
      /\ task'[s].absent = task[s].absent
      /\ task'[s].partial = task[s].partial
      /\ task'[s].alone = task[s].alone
      /\ \A r \in Sessions \ {s} : task'[r] = task[r]
      /\ task' \in [Sessions -> Task]
  BY <1>2, <1>3 DEF Task
<1>5. /\ task[s].pc \in Region /\ task'[s].pc \in Planned /\ owner = s
      /\ task[s].pc \in Planned /\ (~past.lapsed \/ task[s].alone) => AllSettled
  BY <1>2, <1>4, Alone DEF Region, Planned, Before, During, After
<1>6. /\ live' = live /\ loaded' = loaded /\ marker' = marker /\ task[s].todo = {}
      /\ past' = [lapsed |-> past.lapsed /\ ~(FullApply(task[s]) /\ task[s].alone),
                  torn   |-> FALSE,
                  murky  |-> past.murky /\ task[s].kept = None,
                  served |-> task[s].goal["nginx"]]
  BY DEF Verify, Todo
<1>7. TypeOK'
  BY <1>1, <1>2, <1>4, <1>6 DEF Verify, IInv, TypeOK
<1>8. Knows(s, task[s])'
  BY <1>2, <1>4, <1>6 DEF Knows, Before, During, After, Planned, Task
<1>9. ~past'.lapsed \/ task'[s].alone => AllSettled
  BY <1>2, <1>4, <1>5, <1>6 DEF Planned, During, After
<1>10. task'[s].pc \in During \cup {"preparing"} => Progress(task[s])'
  <2>1. Progress(task[s])
    BY <1>2 DEF IInv, ProgressInv, During
  <2>2. ~past'.lapsed => ~past.lapsed \/ Renews(task[s])
    BY <1>2, <1>6 DEF Renews
  <2>3. Renews(task[s])' = Renews(task[s])
    BY <1>4 DEF Renews, FullApply
  <2>4. Done(task[s])'
    BY <1>1, <1>4, <1>6, <2>1, <2>2, <2>3 DEF Progress, Done
  <2>5. task[s].prev = Empty => "cluster_followers" \notin DOMAIN task[s].prev
    BY EmptyType
  <2>. QED
    BY <1>1, <1>2, <1>4, <1>6, <2>1, <2>2, <2>4, <2>5 DEF Progress, MaySkip, Renews, FullApply
<1>11. ~past'.lapsed /\ Relies(task[s])' => RecordTrue(marker, Base(task[s]))'
  <2>1. ~past.lapsed /\ Relies(task[s]) => RecordTrue(marker, Base(task[s]))
    BY DEF IInv, RecordInv
  <2>. QED
    BY <1>1, <1>2, <1>4, <1>5, <1>6, <1>9, <2>1 DEF Relies, RecordTrue, Blind, Base, Knows,
      Before, During
<1>12. /\ past'.served \in Values /\ Served(Base(task[s]))'
       /\ task'[s].kept = None \/ ~task'[s].reloaded \/ task'[s].pc = "recording"
             => Known(Base(task[s]))'
  <2>1. Progress(task[s])
    BY <1>2 DEF IInv, ProgressInv, During
  <2>2. live["nginx"] = task[s].goal["nginx"]
    BY <1>1, <1>6, <2>1 DEF Progress, Done
  <2>3. CASE task[s].kept = None
    <3>1. Known(live["nginx"])
      BY <1>2, <1>5, <2>3 DEF IInv, IngressInv, Base
    <3>. QED
      BY <1>1, <1>2, <1>4, <1>6, <2>2, <2>3, <3>1 DEF Served, Known, Base
  <2>4. CASE task[s].kept # None
    <3>1. loaded = task[s].goal["nginx"]
      BY <1>2, <2>1, <2>4 DEF Progress, Knows
    <3>. QED
      BY <1>1, <1>4, <1>6, <2>2, <3>1 DEF Served, Known, Base
  <2>. QED
    BY <2>3, <2>4
<1>. QED
  BY <1>4, <1>5, <1>7, <1>8, <1>9, <1>10, <1>11, <1>12, InsideStep DEF Verify

LEMMA VerifyFailsStep ==
  ASSUME IInv, NEW s \in Sessions, VerifyFails(s)
  PROVE  IInv'
<1>1. /\ live \in [Slices -> Here] /\ "nginx" \in Slices /\ "nginx" \in Checked
  BY SlicesAssumption DEF Checked, IInv, TypeOK
<1>2. /\ task \in [Sessions -> Task] /\ task[s] \in Task /\ task[s].pc = "applying"
      /\ Knows(s, task[s])
      /\ past \in [lapsed : BOOLEAN, torn : BOOLEAN, murky : BOOLEAN, served : Here]
  BY DEF VerifyFails, At, Working, Staging, IInv, TypeOK, KnowsInv
<1>3. /\ task' = [task EXCEPT ![s] = [task[s] EXCEPT !.pc = "failing"]]
      /\ [task[s] EXCEPT !.pc = "failing"] \in Task
  <2>1. [task[s] EXCEPT !.pc = "failing"] \in Task
    BY <1>1, <1>2 DEF Task, Places
  <2>. QED
    BY <1>2, <2>1, Zenon DEF VerifyFails, Goes
<1>4. /\ task'[s].pc = "failing"
      /\ task'[s].view = task[s].view
      /\ task'[s].edit = task[s].edit
      /\ task'[s].goal = task[s].goal
      /\ task'[s].prev = task[s].prev
      /\ task'[s].todo = task[s].todo
      /\ task'[s].touched = task[s].touched
      /\ task'[s].kept = task[s].kept
      /\ task'[s].reloaded = task[s].reloaded
      /\ task'[s].absent = task[s].absent
      /\ task'[s].partial = task[s].partial
      /\ task'[s].alone = task[s].alone
      /\ \A r \in Sessions \ {s} : task'[r] = task[r]
      /\ task' \in [Sessions -> Task]
  BY <1>2, <1>3 DEF Task
<1>5. /\ task[s].pc \in Region /\ task'[s].pc \in Planned /\ owner = s
      /\ task[s].pc \in Planned /\ (~past.lapsed \/ task[s].alone) => AllSettled
  BY <1>2, <1>4, Alone DEF Region, Planned, Before, During, After
<1>6. /\ live' = live /\ loaded' = loaded /\ past' = past /\ marker' = marker
  BY DEF VerifyFails
<1>7. TypeOK'
  BY <1>1, <1>2, <1>4, <1>6 DEF VerifyFails, IInv, TypeOK
<1>8. Knows(s, task[s])'
  BY <1>2, <1>4 DEF Knows, Before, During, After, Planned, Task
<1>9. ~past'.lapsed \/ task'[s].alone => AllSettled
  BY <1>2, <1>4, <1>5, <1>6 DEF Planned, During, After
<1>10. task'[s].pc \in During \cup {"preparing"} => Progress(task[s])'
  BY <1>4 DEF During
<1>11. ~past'.lapsed /\ Relies(task[s])' => RecordTrue(marker, Base(task[s]))'
  <2>1. ~past.lapsed /\ Relies(task[s]) => RecordTrue(marker, Base(task[s]))
    BY DEF IInv, RecordInv
  <2>. QED
    BY <1>1, <1>2, <1>4, <1>5, <1>6, <1>9, <2>1 DEF Relies, RecordTrue, Blind, Base, Knows,
      Before, During
<1>12. /\ past'.served \in Values /\ Served(Base(task[s]))'
       /\ task'[s].kept = None \/ ~task'[s].reloaded \/ task'[s].pc = "recording"
             => Known(Base(task[s]))'
  BY <1>1, <1>2, <1>4, <1>5, <1>6 DEF IInv, IngressInv, Served, Known, Base, Knows, Before, During
<1>. QED
  BY <1>4, <1>5, <1>7, <1>8, <1>9, <1>10, <1>11, <1>12, InsideStep DEF VerifyFails

-----------------------------------------------------------------------------
(* The failed apply, still in the section.                                 *)

LEMMA RecordFailsStep ==
  ASSUME IInv, NEW s \in Sessions, RecordFails(s)
  PROVE  IInv'
<1>1. /\ live \in [Slices -> Here] /\ "nginx" \in Slices /\ "nginx" \in Checked
      /\ loaded \in Here
  BY SlicesAssumption DEF Checked, IInv, TypeOK
<1>2. /\ task \in [Sessions -> Task] /\ task[s] \in Task /\ task[s].pc = "applied"
      /\ Knows(s, task[s])
      /\ past \in [lapsed : BOOLEAN, torn : BOOLEAN, murky : BOOLEAN, served : Here]
  BY DEF RecordFails, At, Working, Staging, IInv, TypeOK, KnowsInv
<1>3. /\ task' = [task EXCEPT ![s] = [task[s] EXCEPT !.pc = "recording", !.partial = TRUE]]
      /\ [task[s] EXCEPT !.pc = "recording", !.partial = TRUE] \in Task
  <2>1. [task[s] EXCEPT !.pc = "recording", !.partial = TRUE] \in Task
    BY <1>1, <1>2 DEF Task, Places
  <2>. QED
    BY <1>2, <2>1, Zenon DEF RecordFails, Goes
<1>4. /\ task'[s].pc = "recording"
      /\ task'[s].view = task[s].view
      /\ task'[s].edit = task[s].edit
      /\ task'[s].goal = task[s].goal
      /\ task'[s].prev = task[s].prev
      /\ task'[s].todo = task[s].todo
      /\ task'[s].touched = task[s].touched
      /\ task'[s].kept = task[s].kept
      /\ task'[s].reloaded = task[s].reloaded
      /\ task'[s].absent = task[s].absent
      /\ task'[s].partial = TRUE
      /\ task'[s].alone = task[s].alone
      /\ \A r \in Sessions \ {s} : task'[r] = task[r]
      /\ task' \in [Sessions -> Task]
  BY <1>2, <1>3 DEF Task
<1>5. /\ task[s].pc \in Region /\ task'[s].pc \in Planned /\ owner = s
      /\ task[s].pc \in Planned /\ (~past.lapsed \/ task[s].alone) => AllSettled
  BY <1>2, <1>4, Alone DEF Region, Planned, Before, During, After
<1>6. /\ live' = live /\ loaded' = loaded /\ past' = past /\ marker' = marker
  BY DEF RecordFails
<1>7. TypeOK'
  <2>1. writer' \in Deferred \cup {None}
    BY DEF RecordFails, RollsBack, IInv, TypeOK
  <2>2. live' \in [Slices -> Here] /\ loaded' \in Here
    BY <1>1, <1>2, <1>6 DEF Task
  <2>3. past' \in [lapsed : BOOLEAN, torn : BOOLEAN, murky : BOOLEAN, served : Here]
    BY <1>2, <1>6
  <2>. QED
    BY <1>4, <2>1, <2>2, <2>3 DEF RecordFails, IInv, TypeOK
<1>8. Knows(s, task[s])'
  BY <1>2, <1>4 DEF Knows, Before, During, After, Planned, Task
<1>9. ~past'.lapsed \/ task'[s].alone => AllSettled
  BY <1>2, <1>4, <1>5, <1>6 DEF Planned, During, After
<1>10. task'[s].pc \in During \cup {"preparing"} => Progress(task[s])'
  BY <1>4 DEF During
<1>11. ~past'.lapsed /\ Relies(task[s])' => RecordTrue(marker, Base(task[s]))'
  <2>1. ~past.lapsed /\ Relies(task[s]) => RecordTrue(marker, Base(task[s]))
    BY DEF IInv, RecordInv
  <2>. QED
    BY <1>1, <1>2, <1>4, <1>5, <1>6, <1>9, <2>1 DEF Relies, RecordTrue, Blind, Base, Knows,
      Before, During
<1>12. /\ past'.served \in Values /\ Served(Base(task[s]))'
       /\ task'[s].kept = None \/ ~task'[s].reloaded \/ task'[s].pc = "recording"
             => Known(Base(task[s]))'
  BY <1>1, <1>2, <1>4, <1>5, <1>6 DEF IInv, IngressInv, Served, Known, Base, Knows, Before, During
<1>. QED
  BY <1>4, <1>5, <1>7, <1>8, <1>9, <1>10, <1>11, <1>12, InsideStep DEF RecordFails

LEMMA RollBackStep ==
  ASSUME IInv, NEW s \in Sessions, RollBack(s)
  PROVE  IInv'
<1>1. /\ live \in [Slices -> Here] /\ "nginx" \in Slices /\ "nginx" \in Checked
      /\ loaded \in Here
  BY SlicesAssumption DEF Checked, IInv, TypeOK
<1>2. /\ task \in [Sessions -> Task] /\ task[s] \in Task /\ task[s].pc = "failing"
      /\ Knows(s, task[s])
      /\ past \in [lapsed : BOOLEAN, torn : BOOLEAN, murky : BOOLEAN, served : Here]
  BY DEF RollBack, At, Working, Staging, IInv, TypeOK, KnowsInv
<1>3. /\ task' = [task EXCEPT ![s] = [task[s] EXCEPT !.pc = "recording",
           !.partial = task[s].touched]]
      /\ [task[s] EXCEPT !.pc = "recording", !.partial = task[s].touched] \in Task
  <2>1. [task[s] EXCEPT !.pc = "recording", !.partial = task[s].touched] \in Task
    BY <1>1, <1>2 DEF Task, Places
  <2>. QED
    BY <1>2, <2>1, Zenon DEF RollBack, Goes
<1>4. /\ task'[s].pc = "recording"
      /\ task'[s].view = task[s].view
      /\ task'[s].edit = task[s].edit
      /\ task'[s].goal = task[s].goal
      /\ task'[s].prev = task[s].prev
      /\ task'[s].todo = task[s].todo
      /\ task'[s].touched = task[s].touched
      /\ task'[s].kept = task[s].kept
      /\ task'[s].reloaded = task[s].reloaded
      /\ task'[s].absent = task[s].absent
      /\ task'[s].partial = task[s].touched
      /\ task'[s].alone = task[s].alone
      /\ \A r \in Sessions \ {s} : task'[r] = task[r]
      /\ task' \in [Sessions -> Task]
  BY <1>2, <1>3 DEF Task
<1>5. /\ task[s].pc \in Region /\ task'[s].pc \in Planned /\ owner = s
      /\ task[s].pc \in Planned /\ (~past.lapsed \/ task[s].alone) => AllSettled
  BY <1>2, <1>4, Alone DEF Region, Planned, Before, During, After
<1>6. /\ live' = IF task[s].kept = None THEN live ELSE [live EXCEPT !["nginx"] = task[s].kept]
      /\ loaded' = loaded /\ past' = past /\ marker' = marker
      /\ task[s].kept = None \/ ~task[s].reloaded
  BY DEF RollBack
<1>7. TypeOK'
  <2>1. writer' \in Deferred \cup {None}
    BY DEF RollBack, RollsBack, IInv, TypeOK
  <2>2. live' \in [Slices -> Here] /\ loaded' \in Here
    BY <1>1, <1>2, <1>6 DEF Task
  <2>3. past' \in [lapsed : BOOLEAN, torn : BOOLEAN, murky : BOOLEAN, served : Here]
    BY <1>2, <1>6
  <2>. QED
    BY <1>4, <2>1, <2>2, <2>3 DEF RollBack, IInv, TypeOK
<1>8. Knows(s, task[s])'
  BY <1>2, <1>4 DEF Knows, Before, During, After, Planned, Task
<1>9. ~past'.lapsed \/ task'[s].alone => AllSettled
  BY <1>2, <1>4, <1>5, <1>6 DEF Planned, During, After
<1>10. task'[s].pc \in During \cup {"preparing"} => Progress(task[s])'
  BY <1>4 DEF During
<1>11. ~past'.lapsed /\ Relies(task[s])' => RecordTrue(marker, Base(task[s]))'
  <2>1. ~past.lapsed /\ Relies(task[s]) => RecordTrue(marker, Base(task[s]))
    BY DEF IInv, RecordInv
  <2>. QED
    BY <1>1, <1>2, <1>4, <1>5, <1>6, <1>9, <2>1 DEF Relies, RecordTrue, Blind, Base, Knows,
      Before, During
<1>12. /\ past'.served \in Values /\ Served(Base(task[s]))'
       /\ task'[s].kept = None \/ ~task'[s].reloaded \/ task'[s].pc = "recording"
             => Known(Base(task[s]))'
  BY <1>1, <1>2, <1>4, <1>5, <1>6 DEF IInv, IngressInv, Served, Known, Base, Knows, Before, During
<1>. QED
  BY <1>4, <1>5, <1>7, <1>8, <1>9, <1>10, <1>11, <1>12, InsideStep DEF RollBack

LEMMA RestoreFilesStep ==
  ASSUME IInv, NEW s \in Sessions, RestoreFiles(s)
  PROVE  IInv'
<1>1. /\ live \in [Slices -> Here] /\ "nginx" \in Slices /\ "nginx" \in Checked
      /\ loaded \in Here
  BY SlicesAssumption DEF Checked, IInv, TypeOK
<1>2. /\ task \in [Sessions -> Task] /\ task[s] \in Task /\ task[s].pc = "failing"
      /\ Knows(s, task[s])
      /\ past \in [lapsed : BOOLEAN, torn : BOOLEAN, murky : BOOLEAN, served : Here]
  BY DEF RestoreFiles, At, Working, Staging, IInv, TypeOK, KnowsInv
<1>3. /\ task' = [task EXCEPT ![s] = [task[s] EXCEPT !.pc = "reverting"]]
      /\ [task[s] EXCEPT !.pc = "reverting"] \in Task
  <2>1. [task[s] EXCEPT !.pc = "reverting"] \in Task
    BY <1>1, <1>2 DEF Task, Places
  <2>. QED
    BY <1>2, <2>1, Zenon DEF RestoreFiles, Goes
<1>4. /\ task'[s].pc = "reverting"
      /\ task'[s].view = task[s].view
      /\ task'[s].edit = task[s].edit
      /\ task'[s].goal = task[s].goal
      /\ task'[s].prev = task[s].prev
      /\ task'[s].todo = task[s].todo
      /\ task'[s].touched = task[s].touched
      /\ task'[s].kept = task[s].kept
      /\ task'[s].reloaded = task[s].reloaded
      /\ task'[s].absent = task[s].absent
      /\ task'[s].partial = task[s].partial
      /\ task'[s].alone = task[s].alone
      /\ \A r \in Sessions \ {s} : task'[r] = task[r]
      /\ task' \in [Sessions -> Task]
  BY <1>2, <1>3 DEF Task
<1>5. /\ task[s].pc \in Region /\ task'[s].pc \in Planned /\ owner = s
      /\ task[s].pc \in Planned /\ (~past.lapsed \/ task[s].alone) => AllSettled
  BY <1>2, <1>4, Alone DEF Region, Planned, Before, During, After
<1>6. /\ live' = [live EXCEPT !["nginx"] = task[s].kept] /\ task[s].kept # None /\ task[s].reloaded
      /\ loaded' = loaded /\ past' = past /\ marker' = marker
  BY DEF RestoreFiles
<1>7. TypeOK'
  <2>1. writer' \in Deferred \cup {None}
    BY DEF RestoreFiles, RollsBack, IInv, TypeOK
  <2>2. live' \in [Slices -> Here] /\ loaded' \in Here
    BY <1>1, <1>2, <1>6 DEF Task
  <2>3. past' \in [lapsed : BOOLEAN, torn : BOOLEAN, murky : BOOLEAN, served : Here]
    BY <1>2, <1>6
  <2>. QED
    BY <1>4, <2>1, <2>2, <2>3 DEF RestoreFiles, IInv, TypeOK
<1>8. Knows(s, task[s])'
  BY <1>2, <1>4, <1>6 DEF Knows, Before, During, After, Planned, Task
<1>9. ~past'.lapsed \/ task'[s].alone => AllSettled
  BY <1>2, <1>4, <1>5, <1>6 DEF Planned, During, After
<1>10. task'[s].pc \in During \cup {"preparing"} => Progress(task[s])'
  BY <1>4 DEF During
<1>11. ~past'.lapsed /\ Relies(task[s])' => RecordTrue(marker, Base(task[s]))'
  <2>1. ~past.lapsed /\ Relies(task[s]) => RecordTrue(marker, Base(task[s]))
    BY DEF IInv, RecordInv
  <2>. QED
    BY <1>1, <1>2, <1>4, <1>5, <1>6, <1>9, <2>1 DEF Relies, RecordTrue, Blind, Base, Knows,
      Before, During
<1>12. /\ past'.served \in Values /\ Served(Base(task[s]))'
       /\ task'[s].kept = None \/ ~task'[s].reloaded \/ task'[s].pc = "recording"
             => Known(Base(task[s]))'
  BY <1>1, <1>2, <1>4, <1>5, <1>6 DEF IInv, IngressInv, Served, Known, Base, Knows, Before, During
<1>. QED
  BY <1>4, <1>5, <1>7, <1>8, <1>9, <1>10, <1>11, <1>12, InsideStep DEF RestoreFiles

LEMMA ReloadRestoredStep ==
  ASSUME IInv, NEW s \in Sessions, ReloadRestored(s)
  PROVE  IInv'
<1>1. /\ live \in [Slices -> Here] /\ "nginx" \in Slices /\ "nginx" \in Checked
      /\ loaded \in Here
  BY SlicesAssumption DEF Checked, IInv, TypeOK
<1>2. /\ task \in [Sessions -> Task] /\ task[s] \in Task /\ task[s].pc = "reverting"
      /\ Knows(s, task[s])
      /\ past \in [lapsed : BOOLEAN, torn : BOOLEAN, murky : BOOLEAN, served : Here]
  BY DEF ReloadRestored, At, Working, Staging, IInv, TypeOK, KnowsInv
<1>3. /\ task' = [task EXCEPT ![s] = [task[s] EXCEPT !.pc = "recording",
           !.partial = task[s].touched]]
      /\ [task[s] EXCEPT !.pc = "recording", !.partial = task[s].touched] \in Task
  <2>1. [task[s] EXCEPT !.pc = "recording", !.partial = task[s].touched] \in Task
    BY <1>1, <1>2 DEF Task, Places
  <2>. QED
    BY <1>2, <2>1, Zenon DEF ReloadRestored, Goes
<1>4. /\ task'[s].pc = "recording"
      /\ task'[s].view = task[s].view
      /\ task'[s].edit = task[s].edit
      /\ task'[s].goal = task[s].goal
      /\ task'[s].prev = task[s].prev
      /\ task'[s].todo = task[s].todo
      /\ task'[s].touched = task[s].touched
      /\ task'[s].kept = task[s].kept
      /\ task'[s].reloaded = task[s].reloaded
      /\ task'[s].absent = task[s].absent
      /\ task'[s].partial = task[s].touched
      /\ task'[s].alone = task[s].alone
      /\ \A r \in Sessions \ {s} : task'[r] = task[r]
      /\ task' \in [Sessions -> Task]
  BY <1>2, <1>3 DEF Task
<1>5. /\ task[s].pc \in Region /\ task'[s].pc \in Planned /\ owner = s
      /\ task[s].pc \in Planned /\ (~past.lapsed \/ task[s].alone) => AllSettled
  BY <1>2, <1>4, Alone DEF Region, Planned, Before, During, After
<1>6. /\ live' = live /\ loaded' = live["nginx"] /\ past' = past /\ marker' = marker
  BY DEF ReloadRestored
<1>7. TypeOK'
  <2>1. writer' \in Deferred \cup {None}
    BY DEF ReloadRestored, RollsBack, IInv, TypeOK
  <2>2. live' \in [Slices -> Here] /\ loaded' \in Here
    BY <1>1, <1>2, <1>6 DEF Task
  <2>3. past' \in [lapsed : BOOLEAN, torn : BOOLEAN, murky : BOOLEAN, served : Here]
    BY <1>2, <1>6
  <2>. QED
    BY <1>4, <2>1, <2>2, <2>3 DEF ReloadRestored, IInv, TypeOK
<1>8. Knows(s, task[s])'
  BY <1>2, <1>4 DEF Knows, Before, During, After, Planned, Task
<1>9. ~past'.lapsed \/ task'[s].alone => AllSettled
  BY <1>2, <1>4, <1>5, <1>6 DEF Planned, During, After
<1>10. task'[s].pc \in During \cup {"preparing"} => Progress(task[s])'
  BY <1>4 DEF During
<1>11. ~past'.lapsed /\ Relies(task[s])' => RecordTrue(marker, Base(task[s]))'
  <2>1. ~past.lapsed /\ Relies(task[s]) => RecordTrue(marker, Base(task[s]))
    BY DEF IInv, RecordInv
  <2>. QED
    BY <1>1, <1>2, <1>4, <1>5, <1>6, <1>9, <2>1 DEF Relies, RecordTrue, Blind, Base, Knows,
      Before, During
<1>12. /\ past'.served \in Values /\ Served(Base(task[s]))'
       /\ task'[s].kept = None \/ ~task'[s].reloaded \/ task'[s].pc = "recording"
             => Known(Base(task[s]))'
  BY <1>1, <1>2, <1>4, <1>5, <1>6 DEF IInv, IngressInv, Served, Known, Base, Knows, Before, During
<1>. QED
  BY <1>4, <1>5, <1>7, <1>8, <1>9, <1>10, <1>11, <1>12, InsideStep DEF ReloadRestored

LEMMA RestoredReloadFailsStep ==
  ASSUME IInv, NEW s \in Sessions, RestoredReloadFails(s)
  PROVE  IInv'
<1>1. /\ live \in [Slices -> Here] /\ "nginx" \in Slices /\ "nginx" \in Checked
      /\ loaded \in Here
  BY SlicesAssumption DEF Checked, IInv, TypeOK
<1>2. /\ task \in [Sessions -> Task] /\ task[s] \in Task /\ task[s].pc = "reverting"
      /\ Knows(s, task[s])
      /\ past \in [lapsed : BOOLEAN, torn : BOOLEAN, murky : BOOLEAN, served : Here]
  BY DEF RestoredReloadFails, At, Working, Staging, IInv, TypeOK, KnowsInv
<1>3. /\ task' = [task EXCEPT ![s] = [task[s] EXCEPT !.pc = "recording"]]
      /\ [task[s] EXCEPT !.pc = "recording"] \in Task
  <2>1. [task[s] EXCEPT !.pc = "recording"] \in Task
    BY <1>1, <1>2 DEF Task, Places
  <2>. QED
    BY <1>2, <2>1, Zenon DEF RestoredReloadFails, Goes
<1>4. /\ task'[s].pc = "recording"
      /\ task'[s].view = task[s].view
      /\ task'[s].edit = task[s].edit
      /\ task'[s].goal = task[s].goal
      /\ task'[s].prev = task[s].prev
      /\ task'[s].todo = task[s].todo
      /\ task'[s].touched = task[s].touched
      /\ task'[s].kept = task[s].kept
      /\ task'[s].reloaded = task[s].reloaded
      /\ task'[s].absent = task[s].absent
      /\ task'[s].partial = task[s].partial
      /\ task'[s].alone = task[s].alone
      /\ \A r \in Sessions \ {s} : task'[r] = task[r]
      /\ task' \in [Sessions -> Task]
  BY <1>2, <1>3 DEF Task
<1>5. /\ task[s].pc \in Region /\ task'[s].pc \in Planned /\ owner = s
      /\ task[s].pc \in Planned /\ (~past.lapsed \/ task[s].alone) => AllSettled
  BY <1>2, <1>4, Alone DEF Region, Planned, Before, During, After
<1>6. /\ live' = live /\ loaded' \in {loaded, live["nginx"]} /\ marker' = marker
      /\ past' = [past EXCEPT !.lapsed = TRUE, !.murky = TRUE]
  BY DEF RestoredReloadFails
<1>7. TypeOK'
  <2>1. writer' \in Deferred \cup {None}
    BY DEF RestoredReloadFails, RollsBack, IInv, TypeOK
  <2>2. live' \in [Slices -> Here] /\ loaded' \in Here
    BY <1>1, <1>2, <1>6 DEF Task
  <2>3. past' \in [lapsed : BOOLEAN, torn : BOOLEAN, murky : BOOLEAN, served : Here]
    BY <1>2, <1>6
  <2>. QED
    BY <1>4, <2>1, <2>2, <2>3 DEF RestoredReloadFails, IInv, TypeOK
<1>8. Knows(s, task[s])'
  BY <1>2, <1>4 DEF Knows, Before, During, After, Planned, Task
<1>9. ~past'.lapsed \/ task'[s].alone => AllSettled
  BY <1>2, <1>4, <1>5, <1>6 DEF Planned, During, After
<1>10. task'[s].pc \in During \cup {"preparing"} => Progress(task[s])'
  BY <1>4 DEF During
<1>11. ~past'.lapsed /\ Relies(task[s])' => RecordTrue(marker, Base(task[s]))'
  <2>1. ~past.lapsed /\ Relies(task[s]) => RecordTrue(marker, Base(task[s]))
    BY DEF IInv, RecordInv
  <2>. QED
    BY <1>1, <1>2, <1>4, <1>5, <1>6, <1>9, <2>1 DEF Relies, RecordTrue, Blind, Base, Knows,
      Before, During
<1>12. /\ past'.served \in Values /\ Served(Base(task[s]))'
       /\ task'[s].kept = None \/ ~task'[s].reloaded \/ task'[s].pc = "recording"
             => Known(Base(task[s]))'
  BY <1>1, <1>2, <1>4, <1>5, <1>6 DEF IInv, IngressInv, Served, Known, Base, Knows, Before, During
<1>. QED
  BY <1>4, <1>5, <1>7, <1>8, <1>9, <1>10, <1>11, <1>12, InsideStep DEF RestoredReloadFails

-----------------------------------------------------------------------------
(* The ends of an apply.                                                   *)

(* What a successful apply records is what the host has.                   *)
LEMMA RecordedTrue ==
  ASSUME IInv, NEW s \in Sessions, task[s].pc \in {"applied", "deferred"}
  PROVE  /\ Recorded(task[s]) \in [state : Configs, slices : Partial]
         /\ task[s].pc = "applied" /\ ~past.lapsed => RecordTrue(Recorded(task[s]), live["nginx"])
<1>. DEFINE t == task[s]
            C == "cluster_followers"
<1>1. /\ t \in Task /\ t.goal \in Configs
      /\ t.pc = "applied" => t.todo = {}
      /\ C \in DOMAIN t.prev => t.prev[C] \in Values
  BY DEF IInv, TypeOK, KnowsInv, Knows, Planned, During
<1>2. t.pc = "applied" => Progress(t)
  BY DEF IInv, ProgressInv, During
<1>3. /\ "nginx" \in Slices /\ C \notin Checked /\ "nginx" \in Checked /\ Checked \subseteq Slices
      /\ DOMAIN t.prev \subseteq Slices /\ t.goal \in [Slices -> Values] /\ DOMAIN t.goal = Slices
  BY <1>1, PartialType, SlicesAssumption DEF Checked, Configs, Task
<1>. DEFINE slices == Recorded(t).slices
<1>4. Recorded(t) = [state |-> t.goal, slices |-> slices] /\ Recorded(t).state = t.goal
  BY DEF Recorded
<1>5. /\ DOMAIN slices \subseteq Slices /\ slices \in [DOMAIN slices -> Values]
      /\ \A x \in DOMAIN slices : slices[x] = t.goal[x]
                                \/ (x = C /\ t.absent /\ C \in DOMAIN t.prev /\ slices[x] = t.prev[x])
      /\ C \in DOMAIN slices /\ t.absent => C \in DOMAIN t.prev /\ slices[C] = t.prev[C]
  <2>1. CASE ~t.absent
    <3>1. slices = t.goal
      BY <2>1 DEF Recorded
    <3>. HIDE DEF slices, t
    <3>. QED
      BY <1>3, <2>1, <3>1
  <2>2. CASE t.absent /\ C \in DOMAIN t.prev
    <3>1. slices = [t.goal EXCEPT ![C] = t.prev[C]]
      BY <2>2 DEF Recorded
    <3>. HIDE DEF slices, t, C
    <3>2. slices \in [Slices -> Values] /\ DOMAIN slices = Slices
      BY <1>1, <1>3, <2>2, <3>1
    <3>3. slices[C] = t.prev[C] /\ \A x \in Slices \ {C} : slices[x] = t.goal[x]
      BY <1>1, <1>3, <2>2, <3>1
    <3>. QED
      BY <2>2, <3>2, <3>3
  <2>3. CASE t.absent /\ C \notin DOMAIN t.prev
    <3>1. slices = [y \in DOMAIN t.goal \ {C} |-> t.goal[y]]
      BY <2>3 DEF Recorded, Without
    <3>. HIDE DEF slices, t, C
    <3>2. slices \in [Slices \ {C} -> Values] /\ DOMAIN slices = Slices \ {C}
      BY <1>3, <3>1
    <3>3. \A x \in Slices \ {C} : slices[x] = t.goal[x]
      BY <1>3, <3>1
    <3>. QED
      BY <3>2, <3>3
  <2>. QED
    BY <2>1, <2>2, <2>3
<1>. HIDE DEF slices
<1>6. Recorded(t) \in [state : Configs, slices : Partial]
  <2>1. slices \in Partial
    BY <1>5, PartialType
  <2>. QED
    BY <1>1, <1>4, <2>1
<1>7. ASSUME t.pc = "applied", ~past.lapsed
      PROVE  RecordTrue(Recorded(t), live["nginx"])
  <2>1. \A x \in Slices : /\ (x = C /\ t.absent) \/ live[x] = t.goal[x]
                          /\ x = "nginx" => loaded = t.goal[x]
    BY <1>1, <1>2, <1>7 DEF Progress, Done
  <2>2. t.absent /\ C \in DOMAIN t.prev => live[C] = t.prev[C]
    BY <1>2, <1>7 DEF Progress
  <2>3. Blind(Recorded(t).slices)
    BY <1>3, <1>5, <2>1, <2>2 DEF Blind, slices
  <2>4. loaded = t.goal["nginx"] /\ live["nginx"] = t.goal["nginx"]
    BY <1>1, <1>2, <1>3, <1>7, <2>1 DEF Progress, Done
  <2>. QED
    BY <1>4, <2>3, <2>4 DEF RecordTrue
<1>. QED
  BY <1>6, <1>7

(* What every end of an apply starts from.                                 *)
LEMMA Leaving ==
  ASSUME IInv, NEW s \in Sessions, task[s].pc \in {"applied", "recording"}
  PROVE  /\ task[s].pc \in Region /\ owner = s
         /\ ~past.lapsed => AllSettled
         /\ past.served \in Values /\ Served(live["nginx"]) /\ Known(live["nginx"])
<1>1. /\ task[s].pc \in Region /\ task[s].pc \in Planned
      /\ task[s].pc = "applied" => task[s].kept = None
      /\ Base(task[s]) = live["nginx"]
  BY DEF Region, Planned, Before, During, After, IInv, KnowsInv, Knows, Base
<1>2. owner = s /\ (~past.lapsed => AllSettled)
  BY <1>1, Alone
<1>. QED
  BY <1>1, <1>2 DEF IInv, IngressInv

LEMMA CommitHereStep ==
  ASSUME IInv, NEW s \in Sessions, CommitHere(s)
  PROVE  IInv'
<1>1. /\ task[s].pc = "applied" /\ owner' = None /\ marker' = Recorded(task[s])
      /\ UNCHANGED <<db, live, loaded, writer, past>>
  BY DEF CommitHere, At
<1>2. /\ task' \in [Sessions -> Task] /\ task'[s].pc = "done" /\ Knows(s, task[s])'
      /\ \A r \in Sessions \ {s} : task'[r] = task[r]
  BY Ending DEF IInv, CommitHere
<1>3. TypeOK'
  BY <1>1, <1>2, RecordedTrue DEF IInv, TypeOK
<1>4. task'[s].pc \notin Region /\ ~Unsettled(s)'
  BY <1>2 DEF Region, Before, During, After, Unsettled
<1>5. ~past'.lapsed => RecordTrue(marker, live["nginx"])'
  BY <1>1, RecordedTrue DEF RecordTrue, Blind
<1>6. past'.served \in Values /\ Served(live["nginx"])' /\ Known(live["nginx"])'
  BY <1>1, Leaving DEF Served, Known
<1>. QED
  BY <1>1, <1>2, <1>3, <1>4, <1>5, <1>6, Leaving, LeaveStep

LEMMA LeaveToCallerStep ==
  ASSUME IInv, NEW s \in Sessions, LeaveToCaller(s)
  PROVE  IInv'
<1>1. /\ task[s].pc = "applied" /\ owner' = None /\ writer' = s /\ s \in Deferred
      /\ task \in [Sessions -> Task] /\ task[s] \in Task
      /\ UNCHANGED <<db, marker, live, loaded, past>>
  BY DEF LeaveToCaller, At, IInv, TypeOK
<1>2. /\ task'[s] = [task[s] EXCEPT !.pc = "deferred"]
      /\ \A r \in Sessions \ {s} : task'[r] = task[r]
      /\ task' \in [Sessions -> Task]
  <2>1. [task[s] EXCEPT !.pc = "deferred"] \in Task
    BY <1>1 DEF Task, Places
  <2>. QED
    BY <1>1, <2>1 DEF LeaveToCaller, Goes
<1>3. TypeOK'
  BY <1>1, <1>2 DEF IInv, TypeOK
<1>4. task'[s].pc = "deferred" /\ task'[s].pc \notin Region
  BY <1>1, <1>2 DEF Region, Before, During, After, Task
<1>5. Knows(s, task[s])'
  <2>1. Knows(s, task[s])
    BY DEF IInv, KnowsInv
  <2>. QED
    BY <1>1, <1>2, <2>1 DEF Knows, Before, During, After, Planned, Task
<1>6. Recorded(task[s])' = Recorded(task[s])
  BY <1>1, <1>2 DEF Recorded, Task
<1>7. ~past'.lapsed => RecordTrue(Recorded(task[s]), live["nginx"])'
  BY <1>1, <1>6, RecordedTrue DEF RecordTrue, Blind
<1>8. ~AllSettled'
  BY <1>4 DEF AllSettled, Unsettled
<1>9. past'.served \in Values /\ Served(live["nginx"])' /\ Known(live["nginx"])'
  BY <1>1, Leaving DEF Served, Known
<1>. QED
  BY <1>1, <1>2, <1>3, <1>4, <1>5, <1>7, <1>8, <1>9, Leaving, LeaveStep

LEMMA RecordFailureStep ==
  ASSUME IInv, NEW s \in Sessions, RecordFailure(s)
  PROVE  IInv'
<1>1. /\ task[s].pc = "recording" /\ owner' = None
      /\ marker' = IF task[s].partial THEN NoRun ELSE marker
      /\ UNCHANGED <<db, live, loaded, writer, past>>
  BY DEF RecordFailure, At
<1>2. /\ task' \in [Sessions -> Task] /\ task'[s].pc = "done" /\ Knows(s, task[s])'
      /\ \A r \in Sessions \ {s} : task'[r] = task[r]
  BY Ending DEF IInv, RecordFailure
<1>3. TypeOK'
  BY <1>1, <1>2 DEF IInv, TypeOK
<1>4. task'[s].pc \notin Region /\ ~Unsettled(s)'
  BY <1>2 DEF Region, Before, During, After, Unsettled
<1>5. ~past'.lapsed => RecordTrue(marker, live["nginx"])'
  <2>1. CASE task[s].partial
    BY <1>1, <2>1, EmptyType DEF RecordTrue, Blind, NoRun
  <2>2. CASE ~task[s].partial
    <3>1. Relies(task[s]) /\ Base(task[s]) = live["nginx"]
      BY <1>1, <2>2 DEF Relies, Base
    <3>2. ~past.lapsed => RecordTrue(marker, live["nginx"])
      BY <3>1 DEF IInv, RecordInv
    <3>. QED
      BY <1>1, <2>2, <3>2 DEF RecordTrue, Blind
  <2>. QED
    BY <2>1, <2>2
<1>6. past'.served \in Values /\ Served(live["nginx"])' /\ Known(live["nginx"])'
  BY <1>1, Leaving DEF Served, Known
<1>. QED
  BY <1>1, <1>2, <1>3, <1>4, <1>5, <1>6, Leaving, LeaveStep

LEMMA RecordFailureFailsStep ==
  ASSUME IInv, NEW s \in Sessions, RecordFailureFails(s)
  PROVE  IInv'
<1>1. /\ task[s].pc = "recording" /\ owner' = None
      /\ past' = [past EXCEPT !.lapsed = @ \/ task[s].partial]
      /\ past \in [lapsed : BOOLEAN, torn : BOOLEAN, murky : BOOLEAN, served : Here]
      /\ task[s].partial \in BOOLEAN
      /\ UNCHANGED <<db, marker, live, loaded, writer>>
  BY DEF RecordFailureFails, At, Lapses, IInv, TypeOK, Task
<1>2. /\ task' \in [Sessions -> Task] /\ task'[s].pc = "done" /\ Knows(s, task[s])'
      /\ \A r \in Sessions \ {s} : task'[r] = task[r]
  BY Ending DEF IInv, RecordFailureFails
<1>3. TypeOK'
  <2>1. past' \in [lapsed : BOOLEAN, torn : BOOLEAN, murky : BOOLEAN, served : Here]
    BY <1>1
  <2>. QED
    BY <1>1, <1>2, <2>1 DEF IInv, TypeOK
<1>4. task'[s].pc \notin Region /\ ~Unsettled(s)'
  BY <1>2 DEF Region, Before, During, After, Unsettled
<1>5. ~past'.lapsed => ~past.lapsed /\ RecordTrue(marker, live["nginx"])'
  <2>1. ~past'.lapsed => ~past.lapsed /\ ~task[s].partial
    BY <1>1
  <2>2. ~task[s].partial => Relies(task[s]) /\ Base(task[s]) = live["nginx"]
    BY <1>1 DEF Relies, Base
  <2>3. ~past'.lapsed => RecordTrue(marker, live["nginx"])
    BY <2>1, <2>2 DEF IInv, RecordInv
  <2>. QED
    BY <1>1, <2>1, <2>3 DEF RecordTrue, Blind
<1>6. past'.served \in Values /\ Served(live["nginx"])' /\ Known(live["nginx"])'
  BY <1>1, Leaving DEF Served, Known
<1>. QED
  BY <1>1, <1>2, <1>3, <1>4, <1>5, <1>6, Leaving, LeaveStep

-----------------------------------------------------------------------------
(* The caller's commit, when its apply has left the section.               *)

LEMMA CommitStep ==
  ASSUME IInv, NEW s \in Sessions, Commit(s)
  PROVE  IInv'
<1>1. /\ task[s].pc = "deferred" /\ marker' = Recorded(task[s]) /\ writer' = None
      /\ UNCHANGED <<live, loaded, owner, past>>
  BY DEF Commit, At
<1>2. /\ task' \in [Sessions -> Task] /\ task'[s].pc = "done" /\ Knows(s, task[s])'
      /\ \A r \in Sessions \ {s} : task'[r] = task[r]
  BY Ending DEF IInv, Commit
<1>3. TypeOK'
  <2>1. db' \in Configs
    <3>1. db \in Configs /\ task[s].edit \in Partial
      BY DEF IInv, TypeOK, Task
    <3>2. \A x \in DOMAIN task[s].edit : task[s].edit[x] \in Values
      BY <3>1, PartialType
    <3>. QED
      BY <3>1, <3>2 DEF Commit, Configs
  <2>. QED
    BY <1>1, <1>2, <2>1, RecordedTrue DEF IInv, TypeOK
<1>4. /\ task[s].pc \notin Region /\ task'[s].pc \notin Region
      /\ Unsettled(s) /\ ~Unsettled(s)'
  BY <1>1, <1>2 DEF Region, Before, During, After, Unsettled
<1>5. RecordInv'
  <2>. SUFFICES ASSUME ~past.lapsed
                PROVE  RecordInv'
    BY <1>1 DEF RecordInv
  <2>1. RecordTrue(marker, live["nginx"])'
    <3>1. RecordTrue(Recorded(task[s]), live["nginx"])
      BY <1>1 DEF IInv, RecordInv
    <3>. QED
      BY <1>1, <3>1 DEF RecordTrue, Blind
  <2>2. \A r \in Sessions : Relies(task[r])' => Base(task[r])' = live'["nginx"]
    <3>. SUFFICES ASSUME NEW r \in Sessions, Relies(task[r])'
                  PROVE  Base(task[r])' = live'["nginx"]
      OBVIOUS
    <3>1. r # s /\ task'[r] = task[r]
      BY <1>2 DEF Relies
    <3>2. task[r].pc \notin Planned
      BY <1>4 DEF IInv, OwnerInv, AllSettled
    <3>. QED
      BY <1>1, <3>1, <3>2 DEF Relies, Base, Planned, During, After
  <2>3. \A r \in Sessions : task'[r].pc = "deferred" => r # s /\ task'[r] = task[r]
    BY <1>2
  <2>. QED
    BY <1>1, <2>1, <2>2, <2>3 DEF IInv, RecordInv, RecordTrue, Blind, Recorded
<1>. QED
  BY <1>1, <1>2, <1>3, <1>4, <1>5, OutsideStep

LEMMA CommitFailsStep ==
  ASSUME IInv, NEW s \in Sessions, CommitFails(s)
  PROVE  IInv'
<1>1. /\ task[s].pc = "deferred" /\ writer' = None
      /\ task \in [Sessions -> Task] /\ task[s] \in Task
      /\ UNCHANGED <<db, marker, live, loaded, owner, past>>
  BY DEF CommitFails, At, IInv, TypeOK
<1>2. /\ task'[s] = [task[s] EXCEPT !.pc = "invalidating"] /\ task'[s].pc = "invalidating"
      /\ \A r \in Sessions \ {s} : task'[r] = task[r]
      /\ task' \in [Sessions -> Task]
  <2>1. [task[s] EXCEPT !.pc = "invalidating"] \in Task
    BY <1>1 DEF Task, Places
  <2>2. [task[s] EXCEPT !.pc = "invalidating"].pc = "invalidating"
    BY <1>1 DEF Task
  <2>. QED
    BY <1>1, <2>1, <2>2 DEF CommitFails, Goes
<1>3. TypeOK'
  BY <1>1, <1>2 DEF IInv, TypeOK
<1>4. /\ task[s].pc \notin Region /\ task'[s].pc \notin Region
      /\ Unsettled(s) /\ Unsettled(s)'
  BY <1>1, <1>2 DEF Region, Before, During, After, Unsettled
<1>5. Knows(s, task[s])'
  <2>1. Knows(s, task[s])
    BY DEF IInv, KnowsInv
  <2>. QED
    BY <1>1, <1>2, <2>1 DEF Knows, Before, During, After, Planned, Task
<1>6. RecordInv'
  <2>1. AllSettled' = AllSettled
    BY <1>2, <1>4 DEF AllSettled, Unsettled
  <2>2. \A r \in Sessions : Relies(task[r])' => r # s /\ Relies(task[r])
    BY <1>2, <2>1 DEF Relies
  <2>3. \A r \in Sessions : task'[r].pc = "deferred" => r # s
    BY <1>2
  <2>. QED
    BY <1>1, <1>2, <2>1, <2>2, <2>3 DEF IInv, RecordInv, RecordTrue, Blind, Base, Recorded
<1>. QED
  BY <1>1, <1>2, <1>3, <1>4, <1>5, <1>6, OutsideStep

LEMMA InvalidateDurablyStep ==
  ASSUME IInv, NEW s \in Sessions, InvalidateDurably(s)
  PROVE  IInv'
<1>1. /\ task[s].pc = "invalidating" /\ marker' = NoRun
      /\ UNCHANGED <<db, live, loaded, owner, writer, past>>
  BY DEF InvalidateDurably, At
<1>2. /\ task' \in [Sessions -> Task] /\ task'[s].pc = "done" /\ Knows(s, task[s])'
      /\ \A r \in Sessions \ {s} : task'[r] = task[r]
  BY Ending DEF IInv, InvalidateDurably
<1>3. TypeOK'
  BY <1>1, <1>2 DEF IInv, TypeOK
<1>4. /\ task[s].pc \notin Region /\ task'[s].pc \notin Region
      /\ Unsettled(s) /\ ~Unsettled(s)'
  BY <1>1, <1>2 DEF Region, Before, During, After, Unsettled
<1>5. RecordInv'
  <2>1. Blind(marker.slices)' /\ marker' = NoRun
    BY <1>1, EmptyType DEF NoRun, Blind
  <2>2. \A r \in Sessions : task'[r].pc = "deferred" => r # s /\ task'[r] = task[r]
    BY <1>2
  <2>3. ASSUME ~past'.lapsed, NEW r \in Sessions, task'[r].pc = "deferred"
        PROVE  RecordTrue(Recorded(task[r]), live["nginx"])'
    <3>1. RecordTrue(Recorded(task[r]), live["nginx"])
      BY <1>1, <2>2, <2>3 DEF IInv, RecordInv
    <3>. QED
      BY <1>1, <2>2, <2>3, <3>1 DEF RecordTrue, Blind, Recorded
  <2>. QED
    BY <2>1, <2>3 DEF RecordInv, RecordTrue
<1>. QED
  BY <1>1, <1>2, <1>3, <1>4, <1>5, OutsideStep

LEMMA InvalidationFailsStep ==
  ASSUME IInv, NEW s \in Sessions, InvalidationFails(s)
  PROVE  IInv'
<1>1. /\ task[s].pc = "invalidating" /\ past' = [past EXCEPT !.lapsed = @ \/ TRUE]
      /\ past \in [lapsed : BOOLEAN, torn : BOOLEAN, murky : BOOLEAN, served : Here]
      /\ UNCHANGED <<db, marker, live, loaded, owner, writer>>
  BY DEF InvalidationFails, At, Lapses, IInv, TypeOK
<1>2. /\ task' \in [Sessions -> Task] /\ task'[s].pc = "done" /\ Knows(s, task[s])'
      /\ \A r \in Sessions \ {s} : task'[r] = task[r]
  BY Ending DEF IInv, InvalidationFails
<1>3. /\ past' \in [lapsed : BOOLEAN, torn : BOOLEAN, murky : BOOLEAN, served : Here]
      /\ past'.lapsed /\ past'.torn = past.torn /\ past'.murky = past.murky
      /\ past'.served = past.served
  BY <1>1
<1>4. TypeOK'
  BY <1>1, <1>2, <1>3 DEF IInv, TypeOK
<1>5. /\ task[s].pc \notin Region /\ task'[s].pc \notin Region /\ ~Unsettled(s)'
  BY <1>1, <1>2 DEF Region, Before, During, After, Unsettled
<1>. QED
  BY <1>1, <1>2, <1>3, <1>4, <1>5, OutsideStep DEF RecordInv

-----------------------------------------------------------------------------
(* Interruptions and upgrades.                                             *)

LEMMA InterruptedStep ==
  ASSUME IInv, NEW s \in Sessions, Interrupted(s)
  PROVE  IInv'
<1>1. /\ task[s] \in Task /\ task[s].pc \notin {"idle", "done"}
      /\ Knows(s, task[s])
      /\ past \in [lapsed : BOOLEAN, torn : BOOLEAN, murky : BOOLEAN, served : Here]
      /\ owner' = (IF owner = s THEN None ELSE owner)
      /\ UNCHANGED <<db, marker>>
  BY DEF Interrupted, At, IInv, TypeOK, KnowsInv
<1>2. /\ task' \in [Sessions -> Task] /\ task'[s].pc = "done" /\ Knows(s, task[s])'
      /\ \A r \in Sessions \ {s} : task'[r] = task[r]
  BY Ending DEF IInv, Interrupted
<1>3. /\ past' \in [lapsed : BOOLEAN, torn : BOOLEAN, murky : BOOLEAN, served : Here]
      /\ past'.lapsed = (past.lapsed \/ task[s].pc \in Hosting)
      /\ past'.torn = (past.torn \/ task[s].pc \in Hosting)
      /\ past'.murky = (past.murky \/ loaded' # live'["nginx"])
      /\ past'.served = past.served
  BY <1>1 DEF Interrupted
<1>4. live' \in [Slices -> Here] /\ loaded' \in Here
  <2>1. live \in [Slices -> Here] /\ loaded \in Here /\ "nginx" \in Slices /\ live["nginx"] \in Here
    BY SlicesAssumption DEF IInv, TypeOK
  <2>2. Working(s) => {task[s].goal[Slice(s)], Mixed} \subseteq Here
    BY Reached DEF Here
  <2>3. task[s].kept # None => {task[s].kept, Mixed} \subseteq Here
    BY <1>1 DEF Task, Here
  <2>. QED
    BY <2>1, <2>2, <2>3 DEF Interrupted, HalfDone
<1>5. TypeOK'
  BY <1>1, <1>2, <1>3, <1>4, SessionsAssumption DEF Interrupted, RollsBack, IInv, TypeOK
<1>6. task'[s].pc \notin Region /\ ~Unsettled(s)'
  BY <1>2 DEF Region, Before, During, After, Unsettled
<1>7. task[s].pc \notin During \cup After => UNCHANGED <<live, loaded>>
  BY DEF Interrupted, HalfDone, Working, At, During, After
<1>8. CASE task[s].pc \in Region
  <2>1. owner = s /\ owner' = None /\ past.served \in Values /\ Served(Base(task[s]))
    BY <1>1, <1>8, Alone DEF IInv, IngressInv
  <2>2. task[s].pc \in Before => Base(task[s]) = live["nginx"]
    BY DEF Base, Before
  <2>3. task[s].pc \notin Before => task[s].pc \in Hosting
    BY <1>8 DEF Region, During, After, Hosting
  <2>4. task[s].pc \in Before => UNCHANGED <<live, loaded>>
    BY <1>7 DEF Before, During, After
  <2>5. /\ past'.served \in Values
        /\ Served(live["nginx"])' /\ Known(live["nginx"])'
    BY <1>3, <2>1, <2>2, <2>3, <2>4 DEF Served, Known
  <2>6. ~past'.lapsed => ~past.lapsed /\ live' = live /\ loaded' = loaded
    BY <1>3, <2>3, <2>4
  <2>7. ~past'.lapsed /\ AllSettled' => RecordTrue(marker, live["nginx"])'
    <3>. SUFFICES ASSUME ~past'.lapsed, AllSettled'
                  PROVE  RecordTrue(marker, live["nginx"])'
      OBVIOUS
    <3>1. task[s].pc \in Before /\ ~past.lapsed
      BY <1>3, <2>3
    <3>2. AllSettled
      BY <1>2, <3>1 DEF AllSettled, Unsettled, Before
    <3>3. Relies(task[s])
      BY <1>1, <3>1, <3>2 DEF Relies, Knows, Before
    <3>4. RecordTrue(marker, live["nginx"])
      BY <2>2, <3>1, <3>3 DEF IInv, RecordInv
    <3>. QED
      BY <1>1, <2>6, <3>4 DEF RecordTrue, Blind
  <2>. QED
    BY <1>2, <1>5, <1>6, <1>8, <2>1, <2>5, <2>6, <2>7, LeaveStep
<1>9. CASE task[s].pc \notin Region
  <2>1. owner # s /\ owner' = owner /\ UNCHANGED <<live, loaded>>
    BY <1>1, <1>7, <1>9 DEF IInv, OwnerInv, Region
  <2>2. past'.served = past.served /\ (past.lapsed => past'.lapsed)
        /\ (past.torn => past'.torn) /\ (past.murky => past'.murky)
    BY <1>3
  <2>3. RecordInv'
    <3>1. CASE Unsettled(s)
      <4>1. past'.lapsed
        BY <1>3, <3>1 DEF Unsettled, Hosting
      <4>. QED
        BY <4>1 DEF RecordInv
    <3>2. CASE ~Unsettled(s)
      <4>1. task[s].pc \notin Hosting
        BY <1>9, <3>2 DEF Unsettled, Hosting, Region, During, After
      <4>. QED
        BY <1>1, <1>2, <1>3, <1>6, <1>9, <2>1, <3>2, <4>1, QuietRecord
    <3>. QED
      BY <3>1, <3>2
  <2>. QED
    BY <1>2, <1>5, <1>6, <1>9, <2>1, <2>2, <2>3, OutsideStep
<1>. QED
  BY <1>8, <1>9

LEMMA UpgradeStep ==
  ASSUME IInv, Upgrade
  PROVE  IInv'
<1>1. /\ \A s \in Sessions : task[s].pc \in {"idle", "done"}
      /\ marker' = [marker EXCEPT !.slices = Empty]
      /\ UNCHANGED <<db, live, loaded, owner, writer, task, past>>
  BY DEF Upgrade
<1>2. owner = None /\ AllSettled
  BY <1>1 DEF IInv, TypeOK, OwnerInv, AllSettled, Unsettled, Before, During, After
<1>3. /\ marker' \in [state : Configs, slices : Partial] \cup {NoRun}
      /\ marker'.slices = Empty
      /\ marker' # NoRun => marker # NoRun /\ marker'.state = marker.state
  <2>1. CASE marker = NoRun
    BY <1>1, <2>1 DEF NoRun
  <2>2. CASE marker \in [state : Configs, slices : Partial]
    <3>1. /\ marker' \in [state : Configs, slices : Partial] /\ marker'.slices = Empty
          /\ marker'.state = marker.state
      BY <1>1, <2>2, EmptyType
    <3>2. marker = NoRun => marker' = NoRun
      BY <1>1 DEF NoRun
    <3>. QED
      BY <3>1, <3>2
  <2>. QED
    BY <2>1, <2>2 DEF IInv, TypeOK
<1>4. TypeOK'
  BY <1>1, <1>3 DEF IInv, TypeOK
<1>5. OwnerInv'
  BY <1>1 DEF IInv, OwnerInv, AllSettled, Unsettled
<1>6. KnowsInv'
  BY <1>1 DEF IInv, KnowsInv, Knows
<1>7. ProgressInv'
  BY <1>1 DEF ProgressInv, During
<1>8. RecordInv'
  <2>1. ~past.lapsed => RecordTrue(marker, live["nginx"])
    BY <1>2 DEF IInv, RecordInv
  <2>2. ~past.lapsed => RecordTrue(marker, live["nginx"])'
    BY <1>1, <1>3, <2>1, EmptyType DEF RecordTrue, Blind
  <2>3. \A s \in Sessions : ~Relies(task[s])' /\ task'[s].pc # "deferred"
    BY <1>1 DEF Relies
  <2>. QED
    BY <1>1, <2>2, <2>3 DEF RecordInv
<1>9. IngressInv'
  BY <1>1 DEF IInv, IngressInv, Served, Known, Base
<1>. QED
  BY <1>4, <1>5, <1>6, <1>7, <1>8, <1>9 DEF IInv

-----------------------------------------------------------------------------
(* The inductive invariant, and the properties it gives.                   *)

LEMMA InitInv == Init => IInv
<1>. SUFFICES ASSUME Init
              PROVE  IInv
  OBVIOUS
<1>1. PICK v \in Values : db = [x \in Slices |-> v]
  BY DEF Init
<1>2. /\ db \in Configs /\ db \in [Slices -> Here] /\ "nginx" \in Slices
      /\ db["nginx"] = v /\ v \in Here /\ db \in Partial
  BY <1>1, SlicesAssumption, PartialType DEF Configs, Here
<1>3. /\ live = db /\ loaded = v /\ owner = None /\ writer = None
      /\ marker \in {NoRun, [state |-> db, slices |-> db]}
      /\ task = [s \in Sessions |-> Fresh] /\ past.served = v
      /\ past = [lapsed |-> FALSE, torn |-> FALSE, murky |-> FALSE, served |-> db["nginx"]]
  BY <1>2 DEF Init
<1>4. TypeOK
  BY <1>2, <1>3, FreshType DEF TypeOK
<1>5. \A s \in Sessions : task[s] = Fresh /\ task[s].pc = "idle"
  BY <1>3 DEF Fresh
<1>6. OwnerInv
  BY <1>3, <1>5, SessionsAssumption DEF OwnerInv, Before, During, After, Unsettled, Planned
<1>7. KnowsInv
  <2>1. /\ Fresh.pc = "idle" /\ Fresh.todo = Slices /\ Fresh.kept = None /\ ~Fresh.absent
        /\ ~Fresh.touched /\ ~Fresh.reloaded /\ ~Fresh.partial /\ DOMAIN Fresh.prev = {}
    BY EmptyType DEF Fresh
  <2>. QED
    BY <1>5, <2>1 DEF KnowsInv, Knows, Before, During, After, Planned
<1>8. ProgressInv
  BY <1>5 DEF ProgressInv, During
<1>9. RecordInv
  <2>1. RecordTrue(marker, live["nginx"])
    <3>1. CASE marker = NoRun
      BY <3>1, EmptyType DEF RecordTrue, Blind, NoRun
    <3>2. CASE marker = [state |-> db, slices |-> db]
      BY <1>2, <1>3, <3>2 DEF RecordTrue, Blind
    <3>. QED
      BY <1>3, <3>1, <3>2
  <2>. QED
    BY <1>5, <2>1 DEF RecordInv, Relies
<1>10. IngressInv
  BY <1>2, <1>3, SessionsAssumption DEF IngressInv, Served, Known
<1>. QED
  BY <1>4, <1>6, <1>7, <1>8, <1>9, <1>10 DEF IInv

LEMMA StepInv == IInv /\ [Next]_vars => IInv'
<1>. SUFFICES ASSUME IInv, [Next]_vars
              PROVE  IInv'
  OBVIOUS
<1>1. CASE UNCHANGED vars
  <2>1. TypeOK' /\ OwnerInv'
    BY <1>1 DEF vars, IInv, TypeOK, OwnerInv, AllSettled, Unsettled, FullApply, Renews
  <2>2. KnowsInv'
    BY <1>1 DEF vars, IInv, KnowsInv, Knows
  <2>3. ProgressInv'
    BY <1>1 DEF vars, IInv, ProgressInv, Progress, Done, MaySkip, Renews, FullApply
  <2>4. RecordInv'
    <3>1. /\ marker' = marker /\ live' = live /\ loaded' = loaded
          /\ owner' = owner /\ task' = task /\ past' = past
      BY <1>1 DEF vars
    <3>. QED
      BY <3>1 DEF IInv, RecordInv, RecordTrue, Blind, Relies, AllSettled, Unsettled, Base, Recorded
  <2>5. IngressInv'
    BY <1>1 DEF vars, IInv, IngressInv, Served, Known, Base
  <2>. QED
    BY <2>1, <2>2, <2>3, <2>4, <2>5 DEF IInv
<1>2. ASSUME NEW s \in Sessions, Applies(s)
      PROVE  IInv'
  BY <1>2, BuildStep, ReadStep, PrepareStep, PrepareFailsStep, SkipSliceStep,
     ApplySliceStep, FollowersUnavailableStep, SliceFailsStep, SwapFilesStep,
     SwapFailsStep, ValidateFailsStep, ReloadNginxStep, ReloadFailsStep, VerifyStep,
     VerifyFailsStep
  DEF Applies
<1>3. CASE Next
  BY <1>2, <1>3, LoadStep, ChangeStep, FlushTimesOutStep, EnterStep, LockRefusedStep,
     CommitHereStep, LeaveToCallerStep, RecordFailsStep, CommitStep,
     CommitFailsStep, InvalidateDurablyStep, InvalidationFailsStep, RollBackStep,
     RestoreFilesStep, ReloadRestoredStep, RestoredReloadFailsStep,
     RecordFailureStep, RecordFailureFailsStep, InterruptedStep,
     UpgradeStep
  DEF Next
<1>. QED
  BY <1>1, <1>3

(* The inductive invariant of an apply: who is in the section, what each   *)
(* session knows, what an apply has done and may still skip, that the      *)
(* record is true, and which proxy files are there to go back to.          *)
THEOREM Invariance == Spec => []IInv
<1>. QED
  BY InitInv, StepInv, PTL DEF Spec

(* What the last successful apply recorded is what the host has, whatever  *)
(* failed since and however sessions overlap, until one of the accidents   *)
(* of past.lapsed, and again after the next full apply.                    *)
THEOREM RecordIsTrue == Spec => []MarkerIsTrue
<1>1. IInv => MarkerIsTrue
  BY DEF IInv, RecordInv, RecordTrue, MarkerIsTrue, Settled, AllSettled
<1>. QED
  BY <1>1, Invariance, PTL

(* An apply that reports success has brought every slice it can compare to *)
(* the desired state, and every other one unless the record has lapsed.    *)
THEOREM Convergence == Spec => []SuccessConverges
<1>1. IInv => SuccessConverges
  <2>. SUFFICES ASSUME IInv, NEW s \in Sessions, At(s, "applied")
                PROVE  /\ \A x \in Checked : live[x] = task[s].goal[x]
                       /\ ~past.lapsed =>
                           Blind(IF task[s].absent THEN Without(task[s].goal, "cluster_followers")
                                                   ELSE task[s].goal)
    BY DEF SuccessConverges
  <2>1. task[s].todo = {} /\ task[s].goal \in Configs /\ task[s].pc = "applied"
    BY DEF At, IInv, KnowsInv, Knows, Planned, During
  <2>2. Progress(task[s])
    BY <2>1 DEF IInv, ProgressInv, During
  <2>3. DOMAIN task[s].goal = Slices /\ Checked \subseteq Slices
    BY <2>1 DEF Configs, Checked
  <2>4. \A x \in Slices : /\ x \in Checked => live[x] = task[s].goal[x]
                          /\ ~past.lapsed =>
                               /\ (x = "cluster_followers" /\ task[s].absent) \/ live[x] = task[s].goal[x]
                               /\ x = "nginx" => loaded = task[s].goal[x]
    BY <2>1, <2>2 DEF Progress, Done
  <2>5. ~past.lapsed /\ ~task[s].absent => Blind(task[s].goal)
    BY <2>3, <2>4 DEF Blind
  <2>6. ~past.lapsed /\ task[s].absent => Blind(Without(task[s].goal, "cluster_followers"))
    <3>1. /\ DOMAIN Without(task[s].goal, "cluster_followers") = Slices \ {"cluster_followers"}
          /\ \A x \in Slices \ {"cluster_followers"} :
                Without(task[s].goal, "cluster_followers")[x] = task[s].goal[x]
      BY <2>3 DEF Without
    <3>. QED
      BY <2>3, <2>4, <3>1 DEF Blind
  <2>. QED
    BY <2>3, <2>4, <2>5, <2>6
<1>. QED
  BY <1>1, Invariance, PTL

(* After a failed apply the proxy files are those of the last successful   *)
(* one, and nginx runs with them unless a reload was left in doubt.        *)
THEOREM IngressIsKept == Spec => []FailureKeepsIngress
<1>1. IInv => FailureKeepsIngress
  BY ValuesAssumption DEF IInv, IngressInv, Served, Known, FailureKeepsIngress
<1>. QED
  BY <1>1, Invariance, PTL

-----------------------------------------------------------------------------
(* The initial records are records; the runs are numbers.                  *)
LEMMA HardeningNames ==
  ASSUME H!HardeningAssumption
  PROVE  /\ MaxRuns \in Nat /\ MaxTries \in Nat /\ H!Runs \subseteq Nat /\ H!Unrated \in H!Ratings
         /\ H!NoClone \in [row : BOOLEAN, guest : BOOLEAN]
         /\ H!NoWork \in H!Works /\ H!Due \in H!Cleanups
<1>1. H!Unrated \in H!Ratings
  BY DEF H!Unrated, H!Ratings
<1>2. "none" \in H!Places /\ "none" \in H!Statuses
  BY DEF H!Places, H!Unclone, H!Statuses
<1>. QED BY <1>1, <1>2
     DEF H!HardeningAssumption, H!Runs, H!NoClone, H!NoWork, H!Due, H!Works, H!Cleanups

(* What the invariant says of types.                                       *)
LEMMA HardeningTyped ==
  ASSUME H!HardeningAssumption, H!IInv
  PROVE  /\ work \in [H!Runs -> H!Works] /\ cleanup \in H!Cleanups /\ before \in H!Pasts
         /\ row \in [H!Runs -> H!Statuses] /\ phase \in [H!Runs -> {1, 2}]
         /\ rated \in [H!Runs -> H!Ratings]
         /\ clone \in [H!Runs -> [row : BOOLEAN, guest : BOOLEAN]]
         /\ \A q \in H!Runs : row[q] = "none" <=> work[q].at = "none"
  BY DEF H!IInv, H!TypeOK, H!RecordsOK, H!Statuses, H!Ratings, H!RunInv, H!At

(* A thread that goes on keeps the rest of its record.                     *)
LEMMA HardeningMoves ==
  ASSUME H!HardeningAssumption, H!IInv, NEW r \in H!Runs, NEW where \in H!Places, H!Goes(r, where)
  PROVE  /\ work' \in [H!Runs -> H!Works]
         /\ work'[r] = [at |-> where, mine |-> work[r].mine, saw |-> work[r].saw,
                        has |-> work[r].has]
         /\ \A q \in H!Runs \ {r} : work'[q] = work[q]
<1>1. [work[r] EXCEPT !.at = where] = [at |-> where, mine |-> work[r].mine,
                                       saw |-> work[r].saw, has |-> work[r].has]
  BY HardeningTyped DEF H!Works
<1>2. [work[r] EXCEPT !.at = where] \in H!Works
  BY HardeningTyped DEF H!Works
<1>3. work' = [work EXCEPT ![r] = [work[r] EXCEPT !.at = where]]
  BY DEF H!Goes
<1>. QED BY <1>1, <1>2, <1>3, HardeningTyped

LEMMA Hardening_StartPhase1 ==
  ASSUME H!HardeningAssumption, H!IInv, NEW r \in H!Runs,
         H!Create(r, 1, H!Unrated), UNCHANGED <<asking, before>>
  PROVE  H!IInv'
<1>1. /\ work' \in [H!Runs -> H!Works] /\ work'[r] = [at |-> "queued",
                                                      mine |-> work[r].mine,
                                                      saw |-> work[r].saw,
                                                      has |-> work[r].has]
      /\ \A q \in H!Runs \ {r} : work'[q] = work[q]
  BY HardeningMoves DEF H!Create, H!After, H!Left, H!Places, H!Unclone, H!Cloning
<1>2. H!TypeOK'
  <2>1. row' \in [H!Runs -> H!Statuses]
    BY <1>1, HardeningTyped
    DEF H!Create, H!Set, H!Thread, H!Idle, H!Statuses, H!Active, H!rowVars
  <2>2. phase' \in [H!Runs -> {1, 2}]
    BY <1>1, HardeningTyped DEF H!Create, H!Thread, H!Idle, H!rowVars
  <2>3. stop' \in [H!Runs -> BOOLEAN]
    BY <1>1 DEF H!Create, H!Thread, H!Idle, H!rowVars, H!IInv, H!TypeOK
  <2>4. restart' \in [H!Runs -> BOOLEAN]
    BY <1>1 DEF H!Create, H!Thread, H!Idle, H!rowVars, H!IInv, H!TypeOK
  <2>5. rated' \in [H!Runs -> H!Ratings]
    BY <1>1, HardeningTyped, HardeningNames
    DEF H!Create, H!Thread, H!Idle, H!rowVars, H!Works
  <2>6. clone' \in [H!Runs -> [row : BOOLEAN, guest : BOOLEAN]]
    BY <1>1, HardeningTyped DEF H!Create, H!Thread, H!Idle, H!rowVars
  <2>7. lock' \in {"none", "clone", "cleanup", "other"}
    BY <1>1 DEF H!Create, H!Thread, H!Idle, H!rowVars, H!IInv, H!TypeOK
  <2>. QED BY <2>1, <2>2, <2>3, <2>4, <2>5, <2>6, <2>7 DEF H!TypeOK
<1>3. H!LockInv'
  BY <1>1, HardeningTyped, HardeningNames, SMTT(10)
  DEF H!IInv, H!LockInv, H!Create, H!At, H!Goes, H!Set, H!bounds, H!Works, H!Cleanups,
      H!Pasts
<1>4. H!RecordsOK'
  <2>1. work' \in [H!Runs -> H!Works]
    BY <1>1, HardeningTyped
  <2>2. cleanup' \in H!Cleanups
    BY HardeningTyped, HardeningNames
    DEF H!Create, H!Cleanups, H!Thread, H!Swept, H!Retried, H!Due, H!Reads,
        H!Interrupted, H!ClonesOf, H!vars
  <2>3. before' \in H!Pasts
    BY HardeningTyped, HardeningNames
    DEF H!Create, H!Pasts, H!Forgets, H!Cleanups, H!Live, H!Thread
  <2>. QED BY <2>1, <2>2, <2>3 DEF H!RecordsOK
<1>5. H!RunInv'
  BY <1>1, HardeningTyped, HardeningNames, SMTT(10)
  DEF H!IInv, H!RunInv, H!Create, H!At, H!Goes, H!Set, H!Rest, H!NoClone, H!bounds,
      H!Unclone, H!Cloning, H!Works, H!Cleanups, H!Pasts
<1>6. H!TestInv'
  BY <1>1, SMTT(10)
  DEF H!IInv, H!RunInv, H!TestInv, H!Create, H!At, H!Goes, H!Live, H!Set, H!Rest,
      H!NoClone, H!bounds, H!Unclone, H!Cloning
<1>7. H!CleanupInv'
  BY <1>1, SMTT(10)
  DEF H!IInv, H!CleanupInv, H!Create, H!Goes, H!Live, H!Set, H!Found, H!Active,
      H!bounds
<1>8. H!VerdictsAreTested'
  BY <1>1, HardeningTyped, HardeningNames, SMTT(10)
  DEF H!IInv, H!TypeOK, H!LockInv, H!RunInv, H!TestInv, H!CleanupInv,
      H!VerdictsAreTested, H!ClonesAreRemoved, H!Create, H!At, H!Goes, H!Live, H!Fault,
      H!Set, H!Forgets, H!Thread, H!Idle, H!Swept, H!Serves, H!Retried, H!Rest,
      H!Complete, H!Resumes, H!After, H!Left, H!Verdict, H!Records, H!Interrupted,
      H!ClonesOf, H!Reads, H!Create, H!Resumable, H!Found, H!Active, H!Unrated,
      H!NoWork, H!NoClone, H!Due, H!bounds, H!rowVars, H!vars, H!Unclone, H!Cloning,
      H!Places, H!Statuses, H!Ratings, H!Works, H!Cleanups, H!Pasts
<1>9. H!ClonesAreRemoved'
  BY <1>1, SMTT(10)
  DEF H!IInv, H!ClonesAreRemoved, H!Create, H!Goes, H!Live, H!Set, H!bounds
<1>. QED BY <1>2, <1>3, <1>4, <1>5, <1>6, <1>7, <1>8, <1>9 DEF H!IInv

LEMMA Hardening_StopPhase1 ==
  ASSUME H!HardeningAssumption, H!IInv,
         H!StopPhase1
  PROVE  H!IInv'
<1>1. work' = work
  BY DEF H!StopPhase1, H!Idle, H!vars, H!rowVars
<1>2. H!TypeOK'
  <2>1. row' \in [H!Runs -> H!Statuses]
    BY <1>1, HardeningTyped
    DEF H!StopPhase1, H!Set, H!Thread, H!Idle, H!Statuses, H!Active, H!rowVars
  <2>2. phase' \in [H!Runs -> {1, 2}]
    BY <1>1, HardeningTyped DEF H!StopPhase1, H!Thread, H!Idle, H!rowVars
  <2>3. stop' \in [H!Runs -> BOOLEAN]
    BY <1>1 DEF H!StopPhase1, H!Thread, H!Idle, H!rowVars, H!IInv, H!TypeOK
  <2>4. restart' \in [H!Runs -> BOOLEAN]
    BY <1>1 DEF H!StopPhase1, H!Thread, H!Idle, H!rowVars, H!IInv, H!TypeOK
  <2>5. rated' \in [H!Runs -> H!Ratings]
    BY <1>1, HardeningTyped, HardeningNames
    DEF H!StopPhase1, H!Thread, H!Idle, H!rowVars, H!Works
  <2>6. clone' \in [H!Runs -> [row : BOOLEAN, guest : BOOLEAN]]
    BY <1>1, HardeningTyped DEF H!StopPhase1, H!Thread, H!Idle, H!rowVars
  <2>7. lock' \in {"none", "clone", "cleanup", "other"}
    BY <1>1 DEF H!StopPhase1, H!Thread, H!Idle, H!rowVars, H!IInv, H!TypeOK
  <2>. QED BY <2>1, <2>2, <2>3, <2>4, <2>5, <2>6, <2>7 DEF H!TypeOK
<1>3. H!LockInv'
  BY <1>1, SMTT(10) DEF H!IInv, H!LockInv, H!StopPhase1, H!At, H!Set, H!Active, H!bounds
<1>4. H!RecordsOK'
  <2>1. work' \in [H!Runs -> H!Works]
    BY <1>1, HardeningTyped
  <2>2. cleanup' \in H!Cleanups
    BY HardeningTyped, HardeningNames
    DEF H!StopPhase1, H!Cleanups, H!Thread, H!Swept, H!Retried, H!Due, H!Reads,
        H!Interrupted, H!ClonesOf, H!vars
  <2>3. before' \in H!Pasts
    BY HardeningTyped, HardeningNames
    DEF H!StopPhase1, H!Pasts, H!Forgets, H!Cleanups, H!Live, H!Thread
  <2>. QED BY <2>1, <2>2, <2>3 DEF H!RecordsOK
<1>5. H!RunInv'
  BY <1>1, HardeningTyped, HardeningNames, SMTT(10)
  DEF H!IInv, H!RunInv, H!StopPhase1, H!At, H!Set, H!Rest, H!Active, H!NoClone,
      H!bounds, H!Unclone, H!Cloning, H!Works, H!Cleanups, H!Pasts
<1>6. H!TestInv'
  BY <1>1, SMTT(10)
  DEF H!IInv, H!TestInv, H!StopPhase1, H!At, H!Live, H!Set, H!Active, H!bounds
<1>7. H!CleanupInv'
  BY <1>1, HardeningTyped, HardeningNames, SMTT(10)
  DEF H!IInv, H!RunInv, H!TestInv, H!CleanupInv, H!StopPhase1, H!At, H!Live, H!Set,
      H!Rest, H!Found, H!Active, H!NoClone, H!bounds, H!Unclone, H!Cloning, H!Works,
      H!Cleanups, H!Pasts
<1>8. H!VerdictsAreTested'
  BY <1>1, HardeningTyped, HardeningNames, SMTT(10)
  DEF H!IInv, H!VerdictsAreTested, H!StopPhase1, H!Set, H!Rest, H!Active, H!bounds,
      H!Works, H!Cleanups, H!Pasts
<1>9. H!ClonesAreRemoved'
  BY <1>1, SMTT(10)
  DEF H!IInv, H!ClonesAreRemoved, H!StopPhase1, H!Live, H!Set, H!Active, H!bounds
<1>. QED BY <1>2, <1>3, <1>4, <1>5, <1>6, <1>7, <1>8, <1>9 DEF H!IInv

LEMMA Hardening_AskPhase2 ==
  ASSUME H!HardeningAssumption, H!IInv, NEW a \in Admins,
         H!AskPhase2(a)
  PROVE  H!IInv'
<1>1. work' = work
  BY DEF H!AskPhase2, H!Idle, H!vars, H!rowVars
<1>2. H!TypeOK'
  BY <1>1, SMTT(10)
  DEF H!IInv, H!TypeOK, H!AskPhase2, H!Resumable, H!Active, H!bounds, H!rowVars
<1>3. H!LockInv'
  BY <1>1, SMTT(10)
  DEF H!IInv, H!LockInv, H!AskPhase2, H!At, H!Resumable, H!Active, H!bounds, H!rowVars
<1>4. H!RecordsOK'
  <2>1. work' \in [H!Runs -> H!Works]
    BY <1>1, HardeningTyped
  <2>2. cleanup' \in H!Cleanups
    BY HardeningTyped, HardeningNames
    DEF H!AskPhase2, H!Cleanups, H!Thread, H!Swept, H!Retried, H!Due, H!Reads,
        H!Interrupted, H!ClonesOf, H!vars
  <2>3. before' \in H!Pasts
    BY HardeningTyped, HardeningNames
    DEF H!AskPhase2, H!Pasts, H!Forgets, H!Cleanups, H!Live, H!Thread
  <2>. QED BY <2>1, <2>2, <2>3 DEF H!RecordsOK
<1>5. H!RunInv'
  BY <1>1, SMTT(10)
  DEF H!IInv, H!RunInv, H!AskPhase2, H!At, H!Rest, H!Resumable, H!Active, H!NoClone,
      H!bounds, H!rowVars, H!Unclone, H!Cloning
<1>6. H!TestInv'
  BY <1>1, SMTT(10)
  DEF H!IInv, H!TestInv, H!AskPhase2, H!At, H!Live, H!Resumable, H!Active, H!bounds,
      H!rowVars
<1>7. H!CleanupInv'
  BY <1>1, SMTT(10)
  DEF H!IInv, H!CleanupInv, H!AskPhase2, H!Live, H!Resumable, H!Found, H!Active,
      H!bounds, H!rowVars
<1>8. H!VerdictsAreTested'
  BY <1>1, SMTT(10)
  DEF H!IInv, H!VerdictsAreTested, H!AskPhase2, H!Rest, H!Resumable, H!Active,
      H!bounds, H!rowVars
<1>9. H!ClonesAreRemoved'
  BY <1>1, SMTT(10)
  DEF H!IInv, H!ClonesAreRemoved, H!AskPhase2, H!Live, H!Resumable, H!Active, H!bounds,
      H!rowVars
<1>. QED BY <1>2, <1>3, <1>4, <1>5, <1>6, <1>7, <1>8, <1>9 DEF H!IInv

LEMMA Hardening_StartPhase2 ==
  ASSUME H!HardeningAssumption, H!IInv, NEW a \in Admins, NEW r \in H!Runs,
         H!Create(r, 2, IF asking[a] \in H!Runs THEN rated[asking[a]] ELSE H!Unrated),
         asking' = [asking EXCEPT ![a] = 0],
         before' = [before EXCEPT !.taken = @ \cup (IF asking[a] \in @ THEN {r} ELSE {})]
  PROVE  H!IInv'
<1>1. /\ work' \in [H!Runs -> H!Works] /\ work'[r] = [at |-> "queued",
                                                      mine |-> work[r].mine,
                                                      saw |-> work[r].saw,
                                                      has |-> work[r].has]
      /\ \A q \in H!Runs \ {r} : work'[q] = work[q]
  BY HardeningMoves DEF H!Create, H!After, H!Left, H!Places, H!Unclone, H!Cloning
<1>2. H!TypeOK'
  <2>1. row' \in [H!Runs -> H!Statuses]
    BY <1>1, HardeningTyped
    DEF H!Create, H!Set, H!Thread, H!Idle, H!Statuses, H!Active, H!rowVars
  <2>2. phase' \in [H!Runs -> {1, 2}]
    BY <1>1, HardeningTyped DEF H!Create, H!Thread, H!Idle, H!rowVars
  <2>3. stop' \in [H!Runs -> BOOLEAN]
    BY <1>1 DEF H!Create, H!Thread, H!Idle, H!rowVars, H!IInv, H!TypeOK
  <2>4. restart' \in [H!Runs -> BOOLEAN]
    BY <1>1 DEF H!Create, H!Thread, H!Idle, H!rowVars, H!IInv, H!TypeOK
  <2>5. rated' \in [H!Runs -> H!Ratings]
    BY <1>1, HardeningTyped, HardeningNames
    DEF H!Create, H!Thread, H!Idle, H!rowVars, H!Works
  <2>6. clone' \in [H!Runs -> [row : BOOLEAN, guest : BOOLEAN]]
    BY <1>1, HardeningTyped DEF H!Create, H!Thread, H!Idle, H!rowVars
  <2>7. lock' \in {"none", "clone", "cleanup", "other"}
    BY <1>1 DEF H!Create, H!Thread, H!Idle, H!rowVars, H!IInv, H!TypeOK
  <2>. QED BY <2>1, <2>2, <2>3, <2>4, <2>5, <2>6, <2>7 DEF H!TypeOK
<1>3. H!LockInv'
  BY <1>1, HardeningTyped, HardeningNames, SMTT(10)
  DEF H!IInv, H!LockInv, H!Create, H!At, H!Goes, H!Set, H!bounds, H!Works, H!Cleanups,
      H!Pasts
<1>4. H!RecordsOK'
  <2>1. work' \in [H!Runs -> H!Works]
    BY <1>1, HardeningTyped
  <2>2. cleanup' \in H!Cleanups
    BY HardeningTyped, HardeningNames
    DEF H!Create, H!Cleanups, H!Thread, H!Swept, H!Retried, H!Due, H!Reads,
        H!Interrupted, H!ClonesOf, H!vars
  <2>3. before' \in H!Pasts
    BY HardeningTyped, HardeningNames
    DEF H!Create, H!Pasts, H!Forgets, H!Cleanups, H!Live, H!Thread
  <2>. QED BY <2>1, <2>2, <2>3 DEF H!RecordsOK
<1>5. H!RunInv'
  BY <1>1, HardeningTyped, HardeningNames, SMTT(10)
  DEF H!IInv, H!RunInv, H!Create, H!At, H!Goes, H!Set, H!Rest, H!NoClone, H!bounds,
      H!Unclone, H!Cloning, H!Works, H!Cleanups, H!Pasts
<1>6. H!TestInv'
  BY <1>1, HardeningTyped, HardeningNames, SMTT(10)
  DEF H!IInv, H!RunInv, H!TestInv, H!Create, H!At, H!Goes, H!Live, H!Set, H!Rest,
      H!NoClone, H!bounds, H!Unclone, H!Cloning, H!Works, H!Cleanups, H!Pasts
<1>7. H!CleanupInv'
  BY <1>1, SMTT(10)
  DEF H!IInv, H!CleanupInv, H!Create, H!Goes, H!Live, H!Set, H!Found, H!Active,
      H!bounds
<1>8. H!VerdictsAreTested'
  BY <1>1, HardeningTyped, HardeningNames, SMTT(10)
  DEF H!IInv, H!TypeOK, H!LockInv, H!RunInv, H!TestInv, H!CleanupInv,
      H!VerdictsAreTested, H!ClonesAreRemoved, H!Create, H!At, H!Goes, H!Live, H!Fault,
      H!Set, H!Forgets, H!Thread, H!Idle, H!Swept, H!Serves, H!Retried, H!Rest,
      H!Complete, H!Resumes, H!After, H!Left, H!Verdict, H!Records, H!Interrupted,
      H!ClonesOf, H!Reads, H!Create, H!Resumable, H!Found, H!Active, H!Unrated,
      H!NoWork, H!NoClone, H!Due, H!bounds, H!rowVars, H!vars, H!Unclone, H!Cloning,
      H!Places, H!Statuses, H!Ratings, H!Works, H!Cleanups, H!Pasts
<1>9. H!ClonesAreRemoved'
  BY <1>1, SMTT(10)
  DEF H!IInv, H!ClonesAreRemoved, H!Create, H!Goes, H!Live, H!Set, H!bounds
<1>. QED BY <1>2, <1>3, <1>4, <1>5, <1>6, <1>7, <1>8, <1>9 DEF H!IInv

LEMMA Hardening_StopPhase2 ==
  ASSUME H!HardeningAssumption, H!IInv,
         H!StopPhase2
  PROVE  H!IInv'
<1>1. work' = work
  BY DEF H!StopPhase2, H!Idle, H!vars, H!rowVars
<1>2. H!TypeOK'
  <2>1. row' \in [H!Runs -> H!Statuses]
    BY <1>1, HardeningTyped
    DEF H!StopPhase2, H!Set, H!Thread, H!Idle, H!Statuses, H!Active, H!rowVars
  <2>2. phase' \in [H!Runs -> {1, 2}]
    BY <1>1, HardeningTyped DEF H!StopPhase2, H!Thread, H!Idle, H!rowVars
  <2>3. stop' \in [H!Runs -> BOOLEAN]
    BY <1>1 DEF H!StopPhase2, H!Thread, H!Idle, H!rowVars, H!IInv, H!TypeOK
  <2>4. restart' \in [H!Runs -> BOOLEAN]
    BY <1>1 DEF H!StopPhase2, H!Thread, H!Idle, H!rowVars, H!IInv, H!TypeOK
  <2>5. rated' \in [H!Runs -> H!Ratings]
    BY <1>1, HardeningTyped, HardeningNames
    DEF H!StopPhase2, H!Thread, H!Idle, H!rowVars, H!Works
  <2>6. clone' \in [H!Runs -> [row : BOOLEAN, guest : BOOLEAN]]
    BY <1>1, HardeningTyped DEF H!StopPhase2, H!Thread, H!Idle, H!rowVars
  <2>7. lock' \in {"none", "clone", "cleanup", "other"}
    BY <1>1 DEF H!StopPhase2, H!Thread, H!Idle, H!rowVars, H!IInv, H!TypeOK
  <2>. QED BY <2>1, <2>2, <2>3, <2>4, <2>5, <2>6, <2>7 DEF H!TypeOK
<1>3. H!LockInv'
  BY <1>1, SMTT(10)
  DEF H!IInv, H!LockInv, H!StopPhase2, H!At, H!Live, H!Set, H!Forgets, H!Active,
      H!bounds
<1>4. H!RecordsOK'
  <2>1. work' \in [H!Runs -> H!Works]
    BY <1>1, HardeningTyped
  <2>2. cleanup' \in H!Cleanups
    BY HardeningTyped, HardeningNames
    DEF H!StopPhase2, H!Cleanups, H!Thread, H!Swept, H!Retried, H!Due, H!Reads,
        H!Interrupted, H!ClonesOf, H!vars
  <2>3. before' \in H!Pasts
    <3>1. before' = before \/ \E r \in H!Runs : before' = [before EXCEPT !.forgotten = @ \cup {r}]
      BY DEF H!StopPhase2, H!Forgets
    <3>2. CASE before' = before
      BY <3>2, HardeningTyped
    <3>3. ASSUME NEW r \in H!Runs, before' = [before EXCEPT !.forgotten = @ \cup {r}]
          PROVE  before' \in H!Pasts
      BY <3>3, HardeningTyped DEF H!Pasts
    <3>. QED BY <3>1, <3>2, <3>3
  <2>. QED BY <2>1, <2>2, <2>3 DEF H!RecordsOK
<1>5. H!RunInv'
  BY <1>1, SMTT(10)
  DEF H!IInv, H!RunInv, H!StopPhase2, H!At, H!Live, H!Set, H!Forgets, H!Rest, H!Active,
      H!NoClone, H!bounds, H!Unclone, H!Cloning
<1>6. H!TestInv'
  BY <1>1, HardeningTyped, HardeningNames, SMTT(10)
  DEF H!IInv, H!TestInv, H!StopPhase2, H!At, H!Live, H!Set, H!Forgets, H!Active,
      H!bounds, H!Works, H!Cleanups, H!Pasts
<1>7. H!CleanupInv'
  BY <1>1, HardeningTyped, HardeningNames, SMTT(10)
  DEF H!IInv, H!CleanupInv, H!StopPhase2, H!Live, H!Set, H!Forgets, H!Found, H!Active,
      H!bounds, H!Works, H!Cleanups, H!Pasts
<1>8. H!VerdictsAreTested'
  BY <1>1, HardeningTyped, HardeningNames, SMTT(10)
  DEF H!IInv, H!VerdictsAreTested, H!StopPhase2, H!Live, H!Set, H!Forgets, H!Rest,
      H!Active, H!bounds, H!Works, H!Cleanups, H!Pasts
<1>9. H!ClonesAreRemoved'
  BY <1>1, HardeningTyped, HardeningNames, SMTT(10)
  DEF H!IInv, H!ClonesAreRemoved, H!StopPhase2, H!Live, H!Set, H!Forgets, H!Active,
      H!bounds, H!Works, H!Cleanups, H!Pasts
<1>. QED BY <1>2, <1>3, <1>4, <1>5, <1>6, <1>7, <1>8, <1>9 DEF H!IInv

LEMMA Hardening_Load1 ==
  ASSUME H!HardeningAssumption, H!IInv, NEW r \in H!Runs,
         H!Load1(r)
  PROVE  H!IInv'
<1>1. CASE row[r] = "cancelled"
  <2>1. /\ work' \in [H!Runs -> H!Works] /\ work'[r] = [at |-> "over",
                                                        mine |-> work[r].mine,
                                                        saw |-> work[r].saw,
                                                        has |-> work[r].has]
        /\ \A q \in H!Runs \ {r} : work'[q] = work[q]
    BY <1>1, HardeningMoves DEF H!Load1, H!After, H!Left, H!Places, H!Unclone, H!Cloning
  <2>2. H!TypeOK'
    BY <1>1, <2>1, SMTT(10)
    DEF H!IInv, H!TypeOK, H!Load1, H!At, H!Goes, H!Thread, H!Active
  <2>3. H!LockInv'
    BY <1>1, <2>1, HardeningTyped, HardeningNames, SMTT(10)
    DEF H!IInv, H!LockInv, H!Load1, H!At, H!Goes, H!Thread, H!Works, H!Cleanups,
        H!Pasts
  <2>4. H!RecordsOK'
    <3>1. work' \in [H!Runs -> H!Works]
      BY <1>1, <2>1, HardeningTyped
    <3>2. cleanup' \in H!Cleanups
      BY <1>1, HardeningTyped, HardeningNames
      DEF H!Load1, H!Cleanups, H!Thread, H!Swept, H!Retried, H!Due, H!Reads,
          H!Interrupted, H!ClonesOf, H!vars
    <3>3. before' \in H!Pasts
      BY <1>1, HardeningTyped, HardeningNames
      DEF H!Load1, H!Pasts, H!Forgets, H!Cleanups, H!Live, H!Thread
    <3>. QED BY <3>1, <3>2, <3>3 DEF H!RecordsOK
  <2>5. H!RunInv'
    <3>1. work[r].at = "queued" /\ UNCHANGED <<row, clone, phase>>
      BY DEF H!Load1, H!At, H!Thread
    <3>. QED BY <1>1, <2>1, <3>1 DEF H!IInv, H!RunInv, H!At, H!Unclone, H!Cloning
  <2>6. H!TestInv'
    BY <1>1, <2>1, HardeningTyped, HardeningNames, SMTT(10)
    DEF H!IInv, H!TestInv, H!Load1, H!At, H!Goes, H!Live, H!Thread, H!Works,
        H!Cleanups, H!Pasts
  <2>7. H!CleanupInv'
    BY <1>1, <2>1, HardeningTyped, HardeningNames, SMTT(10)
    DEF H!IInv, H!RunInv, H!CleanupInv, H!Load1, H!At, H!Goes, H!Live, H!Thread,
        H!Rest, H!Found, H!Active, H!NoClone, H!Unclone, H!Cloning, H!Works,
        H!Cleanups, H!Pasts
  <2>8. H!VerdictsAreTested'
    BY <1>1, <2>1, SMTT(10)
    DEF H!IInv, H!VerdictsAreTested, H!Load1, H!At, H!Goes, H!Thread, H!Rest
  <2>9. H!ClonesAreRemoved'
    BY <1>1, <2>1, HardeningTyped, HardeningNames, SMTT(10)
    DEF H!IInv, H!RunInv, H!ClonesAreRemoved, H!Load1, H!At, H!Goes, H!Live, H!Thread,
        H!Rest, H!NoClone, H!Unclone, H!Cloning, H!Works, H!Cleanups, H!Pasts
  <2>. QED BY <2>2, <2>3, <2>4, <2>5, <2>6, <2>7, <2>8, <2>9 DEF H!IInv
<1>2. CASE row[r] # "cancelled"
  <2>1. /\ work' \in [H!Runs -> H!Works] /\ work'[r] = [at |-> "starting",
                                                        mine |-> work[r].mine,
                                                        saw |-> work[r].saw,
                                                        has |-> work[r].has]
        /\ \A q \in H!Runs \ {r} : work'[q] = work[q]
    BY <1>2, HardeningMoves DEF H!Load1, H!After, H!Left, H!Places, H!Unclone, H!Cloning
  <2>2. H!TypeOK'
    BY <1>2, <2>1, SMTT(10)
    DEF H!IInv, H!TypeOK, H!Load1, H!At, H!Goes, H!Thread, H!Active
  <2>3. H!LockInv'
    BY <1>2, <2>1, HardeningTyped, HardeningNames, SMTT(10)
    DEF H!IInv, H!LockInv, H!Load1, H!At, H!Goes, H!Thread, H!Works, H!Cleanups,
        H!Pasts
  <2>4. H!RecordsOK'
    <3>1. work' \in [H!Runs -> H!Works]
      BY <1>2, <2>1, HardeningTyped
    <3>2. cleanup' \in H!Cleanups
      BY <1>2, HardeningTyped, HardeningNames
      DEF H!Load1, H!Cleanups, H!Thread, H!Swept, H!Retried, H!Due, H!Reads,
          H!Interrupted, H!ClonesOf, H!vars
    <3>3. before' \in H!Pasts
      BY <1>2, HardeningTyped, HardeningNames
      DEF H!Load1, H!Pasts, H!Forgets, H!Cleanups, H!Live, H!Thread
    <3>. QED BY <3>1, <3>2, <3>3 DEF H!RecordsOK
  <2>5. H!RunInv'
    BY <1>2, <2>1, HardeningTyped, HardeningNames, SMTT(10)
    DEF H!IInv, H!RunInv, H!Load1, H!At, H!Goes, H!Thread, H!Rest, H!NoClone,
        H!Unclone, H!Cloning, H!Works, H!Cleanups, H!Pasts
  <2>6. H!TestInv'
    BY <1>2, <2>1, HardeningTyped, HardeningNames, SMTT(10)
    DEF H!IInv, H!TestInv, H!Load1, H!At, H!Goes, H!Live, H!Thread, H!Works,
        H!Cleanups, H!Pasts
  <2>7. H!CleanupInv'
    BY <1>2, <2>1, HardeningTyped, HardeningNames, SMTT(10)
    DEF H!IInv, H!CleanupInv, H!Load1, H!At, H!Goes, H!Live, H!Thread, H!Found,
        H!Active, H!Works, H!Cleanups, H!Pasts
  <2>8. H!VerdictsAreTested'
    BY <1>2, <2>1, SMTT(10)
    DEF H!IInv, H!VerdictsAreTested, H!Load1, H!At, H!Goes, H!Thread, H!Rest
  <2>9. H!ClonesAreRemoved'
    BY <1>2, <2>1, SMTT(10)
    DEF H!IInv, H!ClonesAreRemoved, H!Load1, H!At, H!Goes, H!Live, H!Thread
  <2>. QED BY <2>2, <2>3, <2>4, <2>5, <2>6, <2>7, <2>8, <2>9 DEF H!IInv
<1>. QED BY <1>1, <1>2

LEMMA Hardening_Begin1 ==
  ASSUME H!HardeningAssumption, H!IInv, NEW r \in H!Runs,
         H!Begin1(r)
  PROVE  H!IInv'
<1>1. /\ work' \in [H!Runs -> H!Works] /\ work'[r] = [at |-> "watching",
                                                      mine |-> work[r].mine,
                                                      saw |-> work[r].saw,
                                                      has |-> work[r].has]
      /\ \A q \in H!Runs \ {r} : work'[q] = work[q]
  BY HardeningMoves DEF H!Begin1, H!After, H!Left, H!Places, H!Unclone, H!Cloning
<1>2. H!TypeOK'
  <2>1. row' \in [H!Runs -> H!Statuses]
    BY <1>1, HardeningTyped
    DEF H!Begin1, H!Set, H!Thread, H!Idle, H!Statuses, H!Active, H!rowVars
  <2>2. phase' \in [H!Runs -> {1, 2}]
    BY <1>1, HardeningTyped DEF H!Begin1, H!Thread, H!Idle, H!rowVars
  <2>3. stop' \in [H!Runs -> BOOLEAN]
    BY <1>1 DEF H!Begin1, H!Thread, H!Idle, H!rowVars, H!IInv, H!TypeOK
  <2>4. restart' \in [H!Runs -> BOOLEAN]
    BY <1>1 DEF H!Begin1, H!Thread, H!Idle, H!rowVars, H!IInv, H!TypeOK
  <2>5. rated' \in [H!Runs -> H!Ratings]
    BY <1>1, HardeningTyped, HardeningNames
    DEF H!Begin1, H!Thread, H!Idle, H!rowVars, H!Works
  <2>6. clone' \in [H!Runs -> [row : BOOLEAN, guest : BOOLEAN]]
    BY <1>1, HardeningTyped DEF H!Begin1, H!Thread, H!Idle, H!rowVars
  <2>7. lock' \in {"none", "clone", "cleanup", "other"}
    BY <1>1 DEF H!Begin1, H!Thread, H!Idle, H!rowVars, H!IInv, H!TypeOK
  <2>. QED BY <2>1, <2>2, <2>3, <2>4, <2>5, <2>6, <2>7 DEF H!TypeOK
<1>3. H!LockInv'
  BY <1>1, HardeningTyped, HardeningNames, SMTT(10)
  DEF H!IInv, H!LockInv, H!Begin1, H!At, H!Goes, H!Set, H!Thread, H!Works, H!Cleanups,
      H!Pasts
<1>4. H!RecordsOK'
  <2>1. work' \in [H!Runs -> H!Works]
    BY <1>1, HardeningTyped
  <2>2. cleanup' \in H!Cleanups
    BY HardeningTyped, HardeningNames
    DEF H!Begin1, H!Cleanups, H!Thread, H!Swept, H!Retried, H!Due, H!Reads,
        H!Interrupted, H!ClonesOf, H!vars
  <2>3. before' \in H!Pasts
    BY HardeningTyped, HardeningNames
    DEF H!Begin1, H!Pasts, H!Forgets, H!Cleanups, H!Live, H!Thread
  <2>. QED BY <2>1, <2>2, <2>3 DEF H!RecordsOK
<1>5. H!RunInv'
  BY <1>1, SMTT(10)
  DEF H!IInv, H!RunInv, H!Begin1, H!At, H!Goes, H!Set, H!Thread, H!Rest, H!NoClone,
      H!Unclone, H!Cloning
<1>6. H!TestInv'
  BY <1>1, HardeningTyped, HardeningNames, SMTT(10)
  DEF H!IInv, H!TestInv, H!Begin1, H!At, H!Goes, H!Live, H!Set, H!Thread, H!Works,
      H!Cleanups, H!Pasts
<1>7. H!CleanupInv'
  BY <1>1, HardeningTyped, HardeningNames, SMTT(10)
  DEF H!IInv, H!CleanupInv, H!Begin1, H!At, H!Goes, H!Live, H!Set, H!Thread, H!Found,
      H!Active, H!Works, H!Cleanups, H!Pasts
<1>8. H!VerdictsAreTested'
  BY <1>1, SMTT(10)
  DEF H!IInv, H!VerdictsAreTested, H!Begin1, H!At, H!Goes, H!Set, H!Thread, H!Rest
<1>9. H!ClonesAreRemoved'
  BY <1>1, SMTT(10)
  DEF H!IInv, H!ClonesAreRemoved, H!Begin1, H!At, H!Goes, H!Live, H!Set, H!Thread
<1>. QED BY <1>2, <1>3, <1>4, <1>5, <1>6, <1>7, <1>8, <1>9 DEF H!IInv

LEMMA Hardening_Watched ==
  ASSUME H!HardeningAssumption, H!IInv, NEW r \in H!Runs,
         H!Watched(r)
  PROVE  H!IInv'
<1>1. /\ work' \in [H!Runs -> H!Works] /\ work'[r] = [at |-> "finishing",
                                                      mine |-> work[r].mine,
                                                      saw |-> row[r],
                                                      has |-> work[r].has]
      /\ \A q \in H!Runs \ {r} : work'[q] = work[q]
  <2>1. /\ work'[r] = [work[r] EXCEPT !.at = "finishing", !.saw = row[r]]
        /\ work[r] \in H!Works
    BY HardeningTyped DEF H!Watched, H!Resumes
  <2>2. work'[r] = [at |-> "finishing", mine |-> work[r].mine, saw |-> row[r],
                    has |-> work[r].has]
    BY <2>1 DEF H!Works, H!NoWork
  <2>3. work'[r] \in H!Works
    BY <2>1, <2>2, HardeningTyped
    DEF H!Works, H!Places, H!Unclone, H!Cloning, H!Statuses, H!Active
  <2>. QED BY <2>2, <2>3, HardeningTyped DEF H!Watched
<1>2. H!TypeOK'
  BY <1>1, SMTT(10) DEF H!IInv, H!TypeOK, H!Watched, H!At, H!Thread, H!Active
<1>3. H!LockInv'
  BY <1>1, SMTT(10) DEF H!IInv, H!LockInv, H!Watched, H!At, H!Thread
<1>4. H!RecordsOK'
  <2>1. work' \in [H!Runs -> H!Works]
    BY <1>1, HardeningTyped
  <2>2. cleanup' \in H!Cleanups
    BY HardeningTyped, HardeningNames
    DEF H!Watched, H!Cleanups, H!Thread, H!Swept, H!Retried, H!Due, H!Reads,
        H!Interrupted, H!ClonesOf, H!vars
  <2>3. before' \in H!Pasts
    BY HardeningTyped, HardeningNames
    DEF H!Watched, H!Pasts, H!Forgets, H!Cleanups, H!Live, H!Thread
  <2>. QED BY <2>1, <2>2, <2>3 DEF H!RecordsOK
<1>5. H!RunInv'
  BY <1>1, SMTT(10)
  DEF H!IInv, H!RunInv, H!Watched, H!At, H!Thread, H!Rest, H!NoClone, H!Unclone,
      H!Cloning
<1>6. H!TestInv'
  BY <1>1, SMTT(10) DEF H!IInv, H!TestInv, H!Watched, H!At, H!Live, H!Thread
<1>7. H!CleanupInv'
  BY <1>1, SMTT(10)
  DEF H!IInv, H!CleanupInv, H!Watched, H!At, H!Live, H!Thread, H!Found, H!Active
<1>8. H!VerdictsAreTested'
  BY <1>1, SMTT(10) DEF H!IInv, H!VerdictsAreTested, H!Watched, H!At, H!Thread, H!Rest
<1>9. H!ClonesAreRemoved'
  BY <1>1, SMTT(10) DEF H!IInv, H!ClonesAreRemoved, H!Watched, H!At, H!Live, H!Thread
<1>. QED BY <1>2, <1>3, <1>4, <1>5, <1>6, <1>7, <1>8, <1>9 DEF H!IInv

LEMMA Hardening_WatchFails ==
  ASSUME H!HardeningAssumption, H!IInv, NEW r \in H!Runs,
         H!WatchFails(r)
  PROVE  H!IInv'
<1>1. /\ work' \in [H!Runs -> H!Works] /\ work'[r] = [at |-> "failing",
                                                      mine |-> work[r].mine,
                                                      saw |-> work[r].saw,
                                                      has |-> work[r].has]
      /\ \A q \in H!Runs \ {r} : work'[q] = work[q]
  BY HardeningMoves DEF H!WatchFails, H!After, H!Left, H!Places, H!Unclone, H!Cloning
<1>2. H!TypeOK'
  BY <1>1, SMTT(10)
  DEF H!IInv, H!TypeOK, H!WatchFails, H!At, H!Goes, H!Fault, H!Thread, H!Active
<1>3. H!LockInv'
  BY <1>1, HardeningTyped, HardeningNames, SMTT(10)
  DEF H!IInv, H!LockInv, H!WatchFails, H!At, H!Goes, H!Fault, H!Thread, H!Works,
      H!Cleanups, H!Pasts
<1>4. H!RecordsOK'
  <2>1. work' \in [H!Runs -> H!Works]
    BY <1>1, HardeningTyped
  <2>2. cleanup' \in H!Cleanups
    BY HardeningTyped, HardeningNames
    DEF H!WatchFails, H!Cleanups, H!Thread, H!Swept, H!Retried, H!Due, H!Reads,
        H!Interrupted, H!ClonesOf, H!vars
  <2>3. before' \in H!Pasts
    BY HardeningTyped, HardeningNames
    DEF H!WatchFails, H!Pasts, H!Forgets, H!Cleanups, H!Live, H!Thread
  <2>. QED BY <2>1, <2>2, <2>3 DEF H!RecordsOK
<1>5. H!RunInv'
  BY <1>1, HardeningTyped, HardeningNames, SMTT(10)
  DEF H!IInv, H!RunInv, H!WatchFails, H!At, H!Goes, H!Fault, H!Thread, H!Rest,
      H!NoClone, H!Unclone, H!Cloning, H!Works, H!Cleanups, H!Pasts
<1>6. H!TestInv'
  BY <1>1, HardeningTyped, HardeningNames, SMTT(10)
  DEF H!IInv, H!TestInv, H!WatchFails, H!At, H!Goes, H!Live, H!Fault, H!Thread,
      H!Works, H!Cleanups, H!Pasts
<1>7. H!CleanupInv'
  BY <1>1, HardeningTyped, HardeningNames, SMTT(10)
  DEF H!IInv, H!CleanupInv, H!WatchFails, H!At, H!Goes, H!Live, H!Fault, H!Thread,
      H!Found, H!Active, H!Works, H!Cleanups, H!Pasts
<1>8. H!VerdictsAreTested'
  BY <1>1, SMTT(10)
  DEF H!IInv, H!VerdictsAreTested, H!WatchFails, H!At, H!Goes, H!Fault, H!Thread,
      H!Rest
<1>9. H!ClonesAreRemoved'
  BY <1>1, SMTT(10)
  DEF H!IInv, H!ClonesAreRemoved, H!WatchFails, H!At, H!Goes, H!Live, H!Fault, H!Thread
<1>. QED BY <1>2, <1>3, <1>4, <1>5, <1>6, <1>7, <1>8, <1>9 DEF H!IInv

LEMMA Hardening_Begin2 ==
  ASSUME H!HardeningAssumption, H!IInv, NEW r \in H!Runs,
         H!Begin2(r)
  PROVE  H!IInv'
<1>1. CASE H!Complete(rated[r])
  <2>1. /\ work' \in [H!Runs -> H!Works] /\ work'[r] = [at |-> "finishing",
                                                        mine |-> rated[r],
                                                        saw |-> "running",
                                                        has |-> FALSE]
        /\ \A q \in H!Runs \ {r} : work'[q] = work[q]
    <3>1. /\ work'[r] = [H!NoWork EXCEPT !.at = "finishing", !.mine = rated[r], !.saw = "running"]
          /\ work[r] \in H!Works
      BY <1>1, HardeningTyped DEF H!Begin2, H!Resumes
    <3>2. work'[r] = [at |-> "finishing", mine |-> rated[r], saw |-> "running",
                      has |-> FALSE]
      BY <3>1 DEF H!Works, H!NoWork
    <3>3. work'[r] \in H!Works
      <4>1. /\ rated[r] \in H!Ratings /\ "running" \in H!Statuses
            /\ {"finishing", "cloning"} \subseteq H!Places
        BY HardeningTyped DEF H!Statuses, H!Active, H!Places, H!Cloning, H!Unclone
      <4>. QED BY <3>2, <4>1 DEF H!Works
    <3>. QED BY <3>2, <3>3, HardeningTyped DEF H!Begin2
  <2>2. H!TypeOK'
    <3>1. row' \in [H!Runs -> H!Statuses]
      BY <1>1, <2>1, HardeningTyped
      DEF H!Begin2, H!Set, H!Thread, H!Idle, H!Statuses, H!Active, H!rowVars
    <3>2. phase' \in [H!Runs -> {1, 2}]
      BY <1>1, <2>1, HardeningTyped DEF H!Begin2, H!Thread, H!Idle, H!rowVars
    <3>3. stop' \in [H!Runs -> BOOLEAN]
      BY <1>1, <2>1 DEF H!Begin2, H!Thread, H!Idle, H!rowVars, H!IInv, H!TypeOK
    <3>4. restart' \in [H!Runs -> BOOLEAN]
      BY <1>1, <2>1 DEF H!Begin2, H!Thread, H!Idle, H!rowVars, H!IInv, H!TypeOK
    <3>5. rated' \in [H!Runs -> H!Ratings]
      BY <1>1, <2>1, HardeningTyped, HardeningNames
      DEF H!Begin2, H!Thread, H!Idle, H!rowVars, H!Works
    <3>6. clone' \in [H!Runs -> [row : BOOLEAN, guest : BOOLEAN]]
      BY <1>1, <2>1, HardeningTyped DEF H!Begin2, H!Thread, H!Idle, H!rowVars
    <3>7. lock' \in {"none", "clone", "cleanup", "other"}
      BY <1>1, <2>1 DEF H!Begin2, H!Thread, H!Idle, H!rowVars, H!IInv, H!TypeOK
    <3>. QED BY <3>1, <3>2, <3>3, <3>4, <3>5, <3>6, <3>7 DEF H!TypeOK
  <2>3. H!LockInv'
    BY <1>1, <2>1, SMTT(10)
    DEF H!IInv, H!LockInv, H!Begin2, H!At, H!Set, H!Thread, H!Rest, H!Complete,
        H!Resumes
  <2>4. H!RecordsOK'
    <3>1. work' \in [H!Runs -> H!Works]
      BY <1>1, <2>1, HardeningTyped
    <3>2. cleanup' \in H!Cleanups
      BY <1>1, HardeningTyped, HardeningNames
      DEF H!Begin2, H!Cleanups, H!Thread, H!Swept, H!Retried, H!Due, H!Reads,
          H!Interrupted, H!ClonesOf, H!vars
    <3>3. before' \in H!Pasts
      BY <1>1, HardeningTyped, HardeningNames
      DEF H!Begin2, H!Pasts, H!Forgets, H!Cleanups, H!Live, H!Thread
    <3>. QED BY <3>1, <3>2, <3>3 DEF H!RecordsOK
  <2>5. H!RunInv'
    BY <1>1, <2>1, SMTT(10)
    DEF H!IInv, H!RunInv, H!Begin2, H!At, H!Set, H!Thread, H!Rest, H!Complete,
        H!Resumes, H!NoClone, H!Unclone, H!Cloning
  <2>6. H!TestInv'
    BY <1>1, <2>1, SMTT(10)
    DEF H!IInv, H!TypeOK, H!LockInv, H!RunInv, H!TestInv, H!CleanupInv,
        H!VerdictsAreTested, H!ClonesAreRemoved, H!Begin2, H!At, H!Live, H!Set,
        H!Thread, H!Rest, H!Complete, H!Resumes, H!Found, H!Active, H!NoClone,
        H!Unclone, H!Cloning
  <2>7. H!CleanupInv'
    BY <1>1, <2>1, SMTT(10)
    DEF H!IInv, H!CleanupInv, H!Begin2, H!At, H!Live, H!Set, H!Thread, H!Rest,
        H!Complete, H!Resumes, H!Found, H!Active
  <2>8. H!VerdictsAreTested'
    BY <1>1, <2>1, SMTT(10)
    DEF H!IInv, H!VerdictsAreTested, H!Begin2, H!At, H!Set, H!Thread, H!Rest,
        H!Complete, H!Resumes
  <2>9. H!ClonesAreRemoved'
    BY <1>1, <2>1, SMTT(10)
    DEF H!IInv, H!ClonesAreRemoved, H!Begin2, H!At, H!Live, H!Set, H!Thread, H!Rest,
        H!Complete, H!Resumes
  <2>. QED BY <2>2, <2>3, <2>4, <2>5, <2>6, <2>7, <2>8, <2>9 DEF H!IInv
<1>2. CASE ~H!Complete(rated[r])
  <2>1. /\ work' \in [H!Runs -> H!Works] /\ work'[r] = [at |-> "cloning",
                                                        mine |-> rated[r],
                                                        saw |-> "running",
                                                        has |-> FALSE]
        /\ \A q \in H!Runs \ {r} : work'[q] = work[q]
    <3>1. /\ work'[r] = [H!NoWork EXCEPT !.at = "cloning", !.mine = rated[r], !.saw = "running"]
          /\ work[r] \in H!Works
      BY <1>2, HardeningTyped DEF H!Begin2, H!Resumes
    <3>2. work'[r] = [at |-> "cloning", mine |-> rated[r], saw |-> "running",
                      has |-> FALSE]
      BY <3>1 DEF H!Works, H!NoWork
    <3>3. work'[r] \in H!Works
      <4>1. /\ rated[r] \in H!Ratings /\ "running" \in H!Statuses
            /\ {"finishing", "cloning"} \subseteq H!Places
        BY HardeningTyped DEF H!Statuses, H!Active, H!Places, H!Cloning, H!Unclone
      <4>. QED BY <3>2, <4>1 DEF H!Works
    <3>. QED BY <3>2, <3>3, HardeningTyped DEF H!Begin2
  <2>2. H!TypeOK'
    <3>1. row' \in [H!Runs -> H!Statuses]
      BY <1>2, <2>1, HardeningTyped
      DEF H!Begin2, H!Set, H!Thread, H!Idle, H!Statuses, H!Active, H!rowVars
    <3>2. phase' \in [H!Runs -> {1, 2}]
      BY <1>2, <2>1, HardeningTyped DEF H!Begin2, H!Thread, H!Idle, H!rowVars
    <3>3. stop' \in [H!Runs -> BOOLEAN]
      BY <1>2, <2>1 DEF H!Begin2, H!Thread, H!Idle, H!rowVars, H!IInv, H!TypeOK
    <3>4. restart' \in [H!Runs -> BOOLEAN]
      BY <1>2, <2>1 DEF H!Begin2, H!Thread, H!Idle, H!rowVars, H!IInv, H!TypeOK
    <3>5. rated' \in [H!Runs -> H!Ratings]
      BY <1>2, <2>1, HardeningTyped, HardeningNames
      DEF H!Begin2, H!Thread, H!Idle, H!rowVars, H!Works
    <3>6. clone' \in [H!Runs -> [row : BOOLEAN, guest : BOOLEAN]]
      BY <1>2, <2>1, HardeningTyped DEF H!Begin2, H!Thread, H!Idle, H!rowVars
    <3>7. lock' \in {"none", "clone", "cleanup", "other"}
      BY <1>2, <2>1 DEF H!Begin2, H!Thread, H!Idle, H!rowVars, H!IInv, H!TypeOK
    <3>. QED BY <3>1, <3>2, <3>3, <3>4, <3>5, <3>6, <3>7 DEF H!TypeOK
  <2>3. H!LockInv'
    BY <1>2, <2>1, SMTT(10)
    DEF H!IInv, H!LockInv, H!Begin2, H!At, H!Set, H!Thread, H!Rest, H!Complete,
        H!Resumes
  <2>4. H!RecordsOK'
    <3>1. work' \in [H!Runs -> H!Works]
      BY <1>2, <2>1, HardeningTyped
    <3>2. cleanup' \in H!Cleanups
      BY <1>2, HardeningTyped, HardeningNames
      DEF H!Begin2, H!Cleanups, H!Thread, H!Swept, H!Retried, H!Due, H!Reads,
          H!Interrupted, H!ClonesOf, H!vars
    <3>3. before' \in H!Pasts
      BY <1>2, HardeningTyped, HardeningNames
      DEF H!Begin2, H!Pasts, H!Forgets, H!Cleanups, H!Live, H!Thread
    <3>. QED BY <3>1, <3>2, <3>3 DEF H!RecordsOK
  <2>5. H!RunInv'
    BY <1>2, <2>1, SMTT(10)
    DEF H!IInv, H!RunInv, H!Begin2, H!At, H!Set, H!Thread, H!Rest, H!Complete,
        H!Resumes, H!Unrated, H!NoWork, H!NoClone, H!Unclone, H!Cloning
  <2>6. H!TestInv'
    BY <1>2, <2>1, SMTT(10)
    DEF H!IInv, H!TypeOK, H!LockInv, H!RunInv, H!TestInv, H!CleanupInv,
        H!VerdictsAreTested, H!ClonesAreRemoved, H!Begin2, H!At, H!Live, H!Set,
        H!Thread, H!Rest, H!Complete, H!Resumes, H!Found, H!Active, H!NoClone,
        H!Unclone, H!Cloning
  <2>7. H!CleanupInv'
    BY <1>2, <2>1, SMTT(10)
    DEF H!IInv, H!CleanupInv, H!Begin2, H!At, H!Live, H!Set, H!Thread, H!Rest,
        H!Complete, H!Resumes, H!Found, H!Active
  <2>8. H!VerdictsAreTested'
    BY <1>2, <2>1, SMTT(10)
    DEF H!IInv, H!VerdictsAreTested, H!Begin2, H!At, H!Set, H!Thread, H!Rest,
        H!Complete, H!Resumes
  <2>9. H!ClonesAreRemoved'
    BY <1>2, <2>1, SMTT(10)
    DEF H!IInv, H!ClonesAreRemoved, H!Begin2, H!At, H!Live, H!Set, H!Thread, H!Rest,
        H!Complete, H!Resumes
  <2>. QED BY <2>2, <2>3, <2>4, <2>5, <2>6, <2>7, <2>8, <2>9 DEF H!IInv
<1>. QED BY <1>1, <1>2

LEMMA Hardening_Clones ==
  ASSUME H!HardeningAssumption, H!IInv, NEW r \in H!Runs,
         H!Clones(r)
  PROVE  H!IInv'
<1>1. /\ work' \in [H!Runs -> H!Works] /\ work'[r] = [at |-> "copying",
                                                      mine |-> work[r].mine,
                                                      saw |-> work[r].saw,
                                                      has |-> work[r].has]
      /\ \A q \in H!Runs \ {r} : work'[q] = work[q]
  BY HardeningMoves DEF H!Clones, H!After, H!Left, H!Places, H!Unclone, H!Cloning
<1>2. H!TypeOK'
  BY <1>1, SMTT(10) DEF H!IInv, H!TypeOK, H!Clones, H!At, H!Goes, H!Active
<1>3. H!LockInv'
  BY <1>1, SMTT(10) DEF H!IInv, H!LockInv, H!Clones, H!At, H!Goes
<1>4. H!RecordsOK'
  <2>1. work' \in [H!Runs -> H!Works]
    BY <1>1, HardeningTyped
  <2>2. cleanup' \in H!Cleanups
    BY HardeningTyped, HardeningNames
    DEF H!Clones, H!Cleanups, H!Thread, H!Swept, H!Retried, H!Due, H!Reads,
        H!Interrupted, H!ClonesOf, H!vars
  <2>3. before' \in H!Pasts
    BY HardeningTyped, HardeningNames
    DEF H!Clones, H!Pasts, H!Forgets, H!Cleanups, H!Live, H!Thread
  <2>. QED BY <2>1, <2>2, <2>3 DEF H!RecordsOK
<1>5. H!RunInv'
  BY <1>1, HardeningTyped, HardeningNames, SMTT(10)
  DEF H!IInv, H!RunInv, H!Clones, H!At, H!Goes, H!Rest, H!NoClone, H!Unclone,
      H!Cloning, H!Works, H!Cleanups, H!Pasts
<1>6. H!TestInv'
  BY <1>1, HardeningTyped, HardeningNames, SMTT(10)
  DEF H!IInv, H!TestInv, H!Clones, H!At, H!Goes, H!Live, H!Works, H!Cleanups, H!Pasts
<1>7. H!CleanupInv'
  BY <1>1, HardeningTyped, HardeningNames, SMTT(10)
  DEF H!IInv, H!CleanupInv, H!Clones, H!At, H!Goes, H!Live, H!Found, H!Active, H!Works,
      H!Cleanups, H!Pasts
<1>8. H!VerdictsAreTested'
  BY <1>1, SMTT(10) DEF H!IInv, H!VerdictsAreTested, H!Clones, H!At, H!Goes, H!Rest
<1>9. H!ClonesAreRemoved'
  BY <1>1, SMTT(10) DEF H!IInv, H!ClonesAreRemoved, H!Clones, H!At, H!Goes, H!Live
<1>. QED BY <1>2, <1>3, <1>4, <1>5, <1>6, <1>7, <1>8, <1>9 DEF H!IInv

LEMMA Hardening_Cloned ==
  ASSUME H!HardeningAssumption, H!IInv, NEW r \in H!Runs,
         H!Cloned(r)
  PROVE  H!IInv'
<1>1. /\ work' \in [H!Runs -> H!Works] /\ work'[r] = [at |-> "checking",
                                                      mine |-> work[r].mine,
                                                      saw |-> work[r].saw,
                                                      has |-> TRUE]
      /\ \A q \in H!Runs \ {r} : work'[q] = work[q]
  <2>1. /\ work'[r] = [work[r] EXCEPT !.at = "checking", !.has = TRUE]
        /\ work[r] \in H!Works
    BY HardeningTyped DEF H!Cloned, H!Resumes
  <2>2. work'[r] = [at |-> "checking", mine |-> work[r].mine, saw |-> work[r].saw,
                    has |-> TRUE]
    BY <2>1 DEF H!Works, H!NoWork
  <2>3. work'[r] \in H!Works
    BY <2>1, <2>2, HardeningTyped
    DEF H!Works, H!Places, H!Unclone, H!Cloning, H!Statuses, H!Active
  <2>. QED BY <2>2, <2>3, HardeningTyped DEF H!Cloned
<1>2. H!TypeOK'
  BY <1>1, SMTT(10) DEF H!IInv, H!TypeOK, H!Cloned, H!At, H!Active
<1>3. H!LockInv'
  BY <1>1, SMTT(10) DEF H!IInv, H!LockInv, H!Cloned, H!At
<1>4. H!RecordsOK'
  <2>1. work' \in [H!Runs -> H!Works]
    BY <1>1, HardeningTyped
  <2>2. cleanup' \in H!Cleanups
    BY HardeningTyped, HardeningNames
    DEF H!Cloned, H!Cleanups, H!Thread, H!Swept, H!Retried, H!Due, H!Reads,
        H!Interrupted, H!ClonesOf, H!vars
  <2>3. before' \in H!Pasts
    BY HardeningTyped, HardeningNames
    DEF H!Cloned, H!Pasts, H!Forgets, H!Cleanups, H!Live, H!Thread
  <2>. QED BY <2>1, <2>2, <2>3 DEF H!RecordsOK
<1>5. H!RunInv'
  BY <1>1, SMTT(10)
  DEF H!IInv, H!RunInv, H!Cloned, H!At, H!Rest, H!NoClone, H!Unclone, H!Cloning
<1>6. H!TestInv'
  BY <1>1, HardeningTyped, HardeningNames, SMTT(10)
  DEF H!IInv, H!RunInv, H!TestInv, H!Cloned, H!At, H!Live, H!Rest, H!NoClone,
      H!Unclone, H!Cloning, H!Works, H!Cleanups, H!Pasts
<1>7. H!CleanupInv'
  BY <1>1, SMTT(10)
  DEF H!IInv, H!LockInv, H!RunInv, H!CleanupInv, H!Cloned, H!At, H!Live, H!Rest,
      H!Found, H!Active, H!NoClone, H!Unclone, H!Cloning
<1>8. H!VerdictsAreTested'
  BY <1>1, SMTT(10) DEF H!IInv, H!VerdictsAreTested, H!Cloned, H!At, H!Rest
<1>9. H!ClonesAreRemoved'
  BY <1>1, SMTT(10) DEF H!IInv, H!ClonesAreRemoved, H!Cloned, H!At, H!Live
<1>. QED BY <1>2, <1>3, <1>4, <1>5, <1>6, <1>7, <1>8, <1>9 DEF H!IInv

LEMMA Hardening_LockBusy ==
  ASSUME H!HardeningAssumption, H!IInv, NEW r \in H!Runs,
         H!LockBusy(r)
  PROVE  H!IInv'
<1>1. /\ work' \in [H!Runs -> H!Works] /\ work'[r] = [at |-> "failing",
                                                      mine |-> work[r].mine,
                                                      saw |-> work[r].saw,
                                                      has |-> work[r].has]
      /\ \A q \in H!Runs \ {r} : work'[q] = work[q]
  BY HardeningMoves DEF H!LockBusy, H!After, H!Left, H!Places, H!Unclone, H!Cloning
<1>2. H!TypeOK'
  BY <1>1, SMTT(10) DEF H!IInv, H!TypeOK, H!LockBusy, H!At, H!Goes, H!Thread, H!Active
<1>3. H!LockInv'
  BY <1>1, HardeningTyped, HardeningNames, SMTT(10)
  DEF H!IInv, H!LockInv, H!LockBusy, H!At, H!Goes, H!Thread, H!Works, H!Cleanups,
      H!Pasts
<1>4. H!RecordsOK'
  <2>1. work' \in [H!Runs -> H!Works]
    BY <1>1, HardeningTyped
  <2>2. cleanup' \in H!Cleanups
    BY HardeningTyped, HardeningNames
    DEF H!LockBusy, H!Cleanups, H!Thread, H!Swept, H!Retried, H!Due, H!Reads,
        H!Interrupted, H!ClonesOf, H!vars
  <2>3. before' \in H!Pasts
    BY HardeningTyped, HardeningNames
    DEF H!LockBusy, H!Pasts, H!Forgets, H!Cleanups, H!Live, H!Thread
  <2>. QED BY <2>1, <2>2, <2>3 DEF H!RecordsOK
<1>5. H!RunInv'
  BY <1>1, HardeningTyped, HardeningNames, SMTT(10)
  DEF H!IInv, H!RunInv, H!LockBusy, H!At, H!Goes, H!Thread, H!Rest, H!NoClone,
      H!Unclone, H!Cloning, H!Works, H!Cleanups, H!Pasts
<1>6. H!TestInv'
  BY <1>1, HardeningTyped, HardeningNames, SMTT(10)
  DEF H!IInv, H!TestInv, H!LockBusy, H!At, H!Goes, H!Live, H!Thread, H!Works,
      H!Cleanups, H!Pasts
<1>7. H!CleanupInv'
  BY <1>1, HardeningTyped, HardeningNames, SMTT(10)
  DEF H!IInv, H!CleanupInv, H!LockBusy, H!At, H!Goes, H!Live, H!Thread, H!Found,
      H!Active, H!Works, H!Cleanups, H!Pasts
<1>8. H!VerdictsAreTested'
  BY <1>1, SMTT(10)
  DEF H!IInv, H!VerdictsAreTested, H!LockBusy, H!At, H!Goes, H!Thread, H!Rest
<1>9. H!ClonesAreRemoved'
  BY <1>1, SMTT(10)
  DEF H!IInv, H!ClonesAreRemoved, H!LockBusy, H!At, H!Goes, H!Live, H!Thread
<1>. QED BY <1>2, <1>3, <1>4, <1>5, <1>6, <1>7, <1>8, <1>9 DEF H!IInv

LEMMA Hardening_CloneFails ==
  ASSUME H!HardeningAssumption, H!IInv, NEW r \in H!Runs, NEW c \in BOOLEAN,
         H!CloneFails(r, c)
  PROVE  H!IInv'
<1>1. CASE c
  <2>1. /\ work' \in [H!Runs -> H!Works] /\ work'[r] = [at |-> "failing",
                                                        mine |-> work[r].mine,
                                                        saw |-> work[r].saw,
                                                        has |-> work[r].has]
        /\ \A q \in H!Runs \ {r} : work'[q] = work[q]
    BY <1>1, HardeningMoves
    DEF H!CloneFails, H!After, H!Left, H!Places, H!Unclone, H!Cloning
  <2>2. H!TypeOK'
    <3>1. row' \in [H!Runs -> H!Statuses]
      BY <1>1, <2>1, HardeningTyped
      DEF H!CloneFails, H!Set, H!Thread, H!Idle, H!Statuses, H!Active, H!rowVars
    <3>2. phase' \in [H!Runs -> {1, 2}]
      BY <1>1, <2>1, HardeningTyped DEF H!CloneFails, H!Thread, H!Idle, H!rowVars
    <3>3. stop' \in [H!Runs -> BOOLEAN]
      BY <1>1, <2>1 DEF H!CloneFails, H!Thread, H!Idle, H!rowVars, H!IInv, H!TypeOK
    <3>4. restart' \in [H!Runs -> BOOLEAN]
      BY <1>1, <2>1 DEF H!CloneFails, H!Thread, H!Idle, H!rowVars, H!IInv, H!TypeOK
    <3>5. rated' \in [H!Runs -> H!Ratings]
      BY <1>1, <2>1, HardeningTyped, HardeningNames
      DEF H!CloneFails, H!Thread, H!Idle, H!rowVars, H!Works
    <3>6. clone' \in [H!Runs -> [row : BOOLEAN, guest : BOOLEAN]]
      BY <1>1, <2>1, HardeningTyped DEF H!CloneFails, H!Thread, H!Idle, H!rowVars
    <3>7. lock' \in {"none", "clone", "cleanup", "other"}
      BY <1>1, <2>1 DEF H!CloneFails, H!Thread, H!Idle, H!rowVars, H!IInv, H!TypeOK
    <3>. QED BY <3>1, <3>2, <3>3, <3>4, <3>5, <3>6, <3>7 DEF H!TypeOK
  <2>3. H!LockInv'
    BY <1>1, <2>1, HardeningTyped, HardeningNames, SMTT(10)
    DEF H!IInv, H!LockInv, H!CloneFails, H!At, H!Goes, H!Fault, H!Forgets, H!Works,
        H!Cleanups, H!Pasts
  <2>4. H!RecordsOK'
    <3>1. work' \in [H!Runs -> H!Works]
      BY <1>1, <2>1, HardeningTyped
    <3>2. cleanup' \in H!Cleanups
      BY <1>1, HardeningTyped, HardeningNames
      DEF H!CloneFails, H!Cleanups, H!Thread, H!Swept, H!Retried, H!Due, H!Reads,
          H!Interrupted, H!ClonesOf, H!vars
    <3>3. before' \in H!Pasts
      <4>1. \/ before' = before
            \/ before' = [before EXCEPT !.forgotten = before.forgotten \cup {r}]
        BY <1>1 DEF H!CloneFails, H!Forgets
      <4>2. before \in H!Pasts /\ {r} \subseteq H!Runs
        BY HardeningTyped
      <4>. QED BY <4>1, <4>2 DEF H!Pasts
    <3>. QED BY <3>1, <3>2, <3>3 DEF H!RecordsOK
  <2>5. H!RunInv'
    BY <1>1, <2>1, HardeningTyped, HardeningNames, SMTT(10)
    DEF H!IInv, H!RunInv, H!CloneFails, H!At, H!Goes, H!Fault, H!Forgets, H!Rest,
        H!NoClone, H!Unclone, H!Cloning, H!Works, H!Cleanups, H!Pasts
  <2>6. H!TestInv'
    <3>1. /\ clone'[r].row = TRUE /\ clone'[r].guest = FALSE /\ phase[r] = 2
          /\ \A q \in H!Runs : q # r => clone'[q] = clone[q]
      BY <1>1, HardeningTyped
      DEF H!CloneFails, H!At, H!IInv, H!RunInv, H!Unclone, H!Cloning, H!NoClone
    <3>2. /\ before'.taken = before.taken
          /\ before'.forgotten = before.forgotten \cup {r}
          /\ before'.halfway = before.halfway
      BY <1>1, HardeningTyped DEF H!CloneFails, H!Forgets, H!Pasts
    <3>3. UNCHANGED <<row, phase, rated, cleanup>>
      BY DEF H!CloneFails
    <3>. QED BY <1>1, <2>1, <3>1, <3>2, <3>3 DEF H!IInv, H!TestInv, H!At, H!Live
  <2>7. H!CleanupInv'
    <3>1. /\ clone'[r].row = TRUE /\ clone'[r].guest = FALSE /\ phase[r] = 2
          /\ \A q \in H!Runs : q # r => clone'[q] = clone[q]
      BY <1>1, HardeningTyped
      DEF H!CloneFails, H!At, H!IInv, H!RunInv, H!Unclone, H!Cloning, H!NoClone
    <3>2. /\ before'.taken = before.taken
          /\ before'.forgotten = before.forgotten \cup {r}
          /\ before'.halfway = before.halfway
      BY <1>1, HardeningTyped DEF H!CloneFails, H!Forgets, H!Pasts
    <3>3. UNCHANGED <<row, phase, rated, cleanup>>
      BY DEF H!CloneFails
    <3>4. \A q \in H!Runs : H!Live(q)' <=> H!Live(q)
      BY <1>1, <2>1 DEF H!CloneFails, H!At, H!Live
    <3>5. \A q \in H!Runs : H!Found(q)' <=> H!Found(q)
      BY <3>3 DEF H!Found
    <3>6. cleanup.clones \subseteq H!Runs
      BY HardeningTyped DEF H!Cleanups
    <3>. QED BY <3>1, <3>2, <3>3, <3>4, <3>5, <3>6 DEF H!IInv, H!CleanupInv
  <2>8. H!VerdictsAreTested'
    <3>1. /\ clone'[r].row = TRUE /\ clone'[r].guest = FALSE /\ phase[r] = 2
          /\ \A q \in H!Runs : q # r => clone'[q] = clone[q]
      BY <1>1, HardeningTyped
      DEF H!CloneFails, H!At, H!IInv, H!RunInv, H!Unclone, H!Cloning, H!NoClone
    <3>2. /\ before'.taken = before.taken
          /\ before'.forgotten = before.forgotten \cup {r}
          /\ before'.halfway = before.halfway
      BY <1>1, HardeningTyped DEF H!CloneFails, H!Forgets, H!Pasts
    <3>3. UNCHANGED <<row, phase, rated, cleanup>>
      BY DEF H!CloneFails
    <3>. QED BY <3>2, <3>3 DEF H!IInv, H!VerdictsAreTested, H!Rest
  <2>9. H!ClonesAreRemoved'
    BY <1>1, <2>1, HardeningTyped, HardeningNames, SMTT(10)
    DEF H!IInv, H!ClonesAreRemoved, H!CloneFails, H!At, H!Goes, H!Live, H!Fault,
        H!Forgets, H!Works, H!Cleanups, H!Pasts
  <2>. QED BY <2>2, <2>3, <2>4, <2>5, <2>6, <2>7, <2>8, <2>9 DEF H!IInv
<1>2. CASE ~c
  <2>1. /\ work' \in [H!Runs -> H!Works] /\ work'[r] = [at |-> "failing",
                                                        mine |-> work[r].mine,
                                                        saw |-> work[r].saw,
                                                        has |-> work[r].has]
        /\ \A q \in H!Runs \ {r} : work'[q] = work[q]
    BY <1>2, HardeningMoves
    DEF H!CloneFails, H!After, H!Left, H!Places, H!Unclone, H!Cloning
  <2>2. H!TypeOK'
    BY <1>2, <2>1, HardeningTyped, HardeningNames, SMTT(10)
    DEF H!IInv, H!TypeOK, H!RunInv, H!CloneFails, H!At, H!Goes, H!Fault, H!Forgets,
        H!Rest, H!Active, H!NoClone, H!Unclone, H!Cloning, H!Works, H!Cleanups, H!Pasts
  <2>3. H!LockInv'
    BY <1>2, <2>1, HardeningTyped, HardeningNames, SMTT(10)
    DEF H!IInv, H!LockInv, H!CloneFails, H!At, H!Goes, H!Fault, H!Forgets, H!Works,
        H!Cleanups, H!Pasts
  <2>4. H!RecordsOK'
    <3>1. work' \in [H!Runs -> H!Works]
      BY <1>2, <2>1, HardeningTyped
    <3>2. cleanup' \in H!Cleanups
      BY <1>2, HardeningTyped, HardeningNames
      DEF H!CloneFails, H!Cleanups, H!Thread, H!Swept, H!Retried, H!Due, H!Reads,
          H!Interrupted, H!ClonesOf, H!vars
    <3>3. before' \in H!Pasts
      BY <1>2, HardeningTyped, HardeningNames
      DEF H!CloneFails, H!Pasts, H!Forgets, H!Cleanups, H!Live, H!Thread
    <3>. QED BY <3>1, <3>2, <3>3 DEF H!RecordsOK
  <2>5. H!RunInv'
    BY <1>2, <2>1, HardeningTyped, HardeningNames, SMTT(10)
    DEF H!IInv, H!RunInv, H!CloneFails, H!At, H!Goes, H!Fault, H!Forgets, H!Rest,
        H!NoClone, H!Unclone, H!Cloning, H!Works, H!Cleanups, H!Pasts
  <2>6. H!TestInv'
    BY <1>2, <2>1, HardeningTyped, HardeningNames, SMTT(10)
    DEF H!IInv, H!TestInv, H!CloneFails, H!At, H!Goes, H!Live, H!Fault, H!Forgets,
        H!Works, H!Cleanups, H!Pasts
  <2>7. H!CleanupInv'
    BY <1>2, <2>1, HardeningTyped, HardeningNames, SMTT(10)
    DEF H!IInv, H!CleanupInv, H!CloneFails, H!At, H!Goes, H!Live, H!Fault, H!Forgets,
        H!Found, H!Active, H!Works, H!Cleanups, H!Pasts
  <2>8. H!VerdictsAreTested'
    BY <1>2, <2>1, SMTT(10)
    DEF H!IInv, H!VerdictsAreTested, H!CloneFails, H!At, H!Goes, H!Fault, H!Forgets,
        H!Rest
  <2>9. H!ClonesAreRemoved'
    BY <1>2, <2>1, HardeningTyped, HardeningNames, SMTT(10)
    DEF H!IInv, H!RunInv, H!ClonesAreRemoved, H!CloneFails, H!At, H!Goes, H!Live,
        H!Fault, H!Forgets, H!Rest, H!NoClone, H!Unclone, H!Cloning, H!Works,
        H!Cleanups, H!Pasts
  <2>. QED BY <2>2, <2>3, <2>4, <2>5, <2>6, <2>7, <2>8, <2>9 DEF H!IInv
<1>. QED BY <1>1, <1>2

LEMMA Hardening_TestFails ==
  ASSUME H!HardeningAssumption, H!IInv, NEW r \in H!Runs,
         H!TestFails(r)
  PROVE  H!IInv'
<1>1. /\ work' \in [H!Runs -> H!Works] /\ work'[r] = [at |-> "failing",
                                                      mine |-> work[r].mine,
                                                      saw |-> work[r].saw,
                                                      has |-> work[r].has]
      /\ \A q \in H!Runs \ {r} : work'[q] = work[q]
  BY HardeningMoves DEF H!TestFails, H!After, H!Left, H!Places, H!Unclone, H!Cloning
<1>2. H!TypeOK'
  BY <1>1, SMTT(10)
  DEF H!IInv, H!TypeOK, H!TestFails, H!At, H!Goes, H!Fault, H!Thread, H!Active
<1>3. H!LockInv'
  BY <1>1, HardeningTyped, HardeningNames, SMTT(10)
  DEF H!IInv, H!LockInv, H!TestFails, H!At, H!Goes, H!Fault, H!Thread, H!Works,
      H!Cleanups, H!Pasts
<1>4. H!RecordsOK'
  <2>1. work' \in [H!Runs -> H!Works]
    BY <1>1, HardeningTyped
  <2>2. cleanup' \in H!Cleanups
    BY HardeningTyped, HardeningNames
    DEF H!TestFails, H!Cleanups, H!Thread, H!Swept, H!Retried, H!Due, H!Reads,
        H!Interrupted, H!ClonesOf, H!vars
  <2>3. before' \in H!Pasts
    BY HardeningTyped, HardeningNames
    DEF H!TestFails, H!Pasts, H!Forgets, H!Cleanups, H!Live, H!Thread
  <2>. QED BY <2>1, <2>2, <2>3 DEF H!RecordsOK
<1>5. H!RunInv'
  BY <1>1, HardeningTyped, HardeningNames, SMTT(10)
  DEF H!IInv, H!RunInv, H!TestFails, H!At, H!Goes, H!Fault, H!Thread, H!Rest,
      H!NoClone, H!Unclone, H!Cloning, H!Works, H!Cleanups, H!Pasts
<1>6. H!TestInv'
  BY <1>1, HardeningTyped, HardeningNames, SMTT(10)
  DEF H!IInv, H!TestInv, H!TestFails, H!At, H!Goes, H!Live, H!Fault, H!Thread, H!Works,
      H!Cleanups, H!Pasts
<1>7. H!CleanupInv'
  BY <1>1, HardeningTyped, HardeningNames, SMTT(10)
  DEF H!IInv, H!CleanupInv, H!TestFails, H!At, H!Goes, H!Live, H!Fault, H!Thread,
      H!Found, H!Active, H!Works, H!Cleanups, H!Pasts
<1>8. H!VerdictsAreTested'
  BY <1>1, SMTT(10)
  DEF H!IInv, H!VerdictsAreTested, H!TestFails, H!At, H!Goes, H!Fault, H!Thread, H!Rest
<1>9. H!ClonesAreRemoved'
  BY <1>1, SMTT(10)
  DEF H!IInv, H!ClonesAreRemoved, H!TestFails, H!At, H!Goes, H!Live, H!Fault, H!Thread
<1>. QED BY <1>2, <1>3, <1>4, <1>5, <1>6, <1>7, <1>8, <1>9 DEF H!IInv

LEMMA Hardening_Check ==
  ASSUME H!HardeningAssumption, H!IInv, NEW r \in H!Runs,
         H!Check(r)
  PROVE  H!IInv'
<1>1. CASE row[r] = "cancelled"
  <2>1. /\ work' \in [H!Runs -> H!Works] /\ work'[r] = [at |-> "cancelling",
                                                        mine |-> work[r].mine,
                                                        saw |-> work[r].saw,
                                                        has |-> work[r].has]
        /\ \A q \in H!Runs \ {r} : work'[q] = work[q]
    BY <1>1, HardeningMoves DEF H!Check, H!After, H!Left, H!Places, H!Unclone, H!Cloning
  <2>2. H!TypeOK'
    BY <1>1, <2>1, SMTT(10)
    DEF H!IInv, H!TypeOK, H!Check, H!At, H!Goes, H!Thread, H!Rest, H!Active
  <2>3. H!LockInv'
    BY <1>1, <2>1, HardeningTyped, HardeningNames, SMTT(10)
    DEF H!IInv, H!LockInv, H!Check, H!At, H!Goes, H!Thread, H!Rest, H!Works,
        H!Cleanups, H!Pasts
  <2>4. H!RecordsOK'
    <3>1. work' \in [H!Runs -> H!Works]
      BY <1>1, <2>1, HardeningTyped
    <3>2. cleanup' \in H!Cleanups
      BY <1>1, HardeningTyped, HardeningNames
      DEF H!Check, H!Cleanups, H!Thread, H!Swept, H!Retried, H!Due, H!Reads,
          H!Interrupted, H!ClonesOf, H!vars
    <3>3. before' \in H!Pasts
      BY <1>1, HardeningTyped, HardeningNames
      DEF H!Check, H!Pasts, H!Forgets, H!Cleanups, H!Live, H!Thread
    <3>. QED BY <3>1, <3>2, <3>3 DEF H!RecordsOK
  <2>5. H!RunInv'
    BY <1>1, <2>1, HardeningTyped, HardeningNames, SMTT(10)
    DEF H!IInv, H!RunInv, H!Check, H!At, H!Goes, H!Thread, H!Rest, H!NoClone,
        H!Unclone, H!Cloning, H!Works, H!Cleanups, H!Pasts
  <2>6. H!TestInv'
    BY <1>1, <2>1, HardeningTyped, HardeningNames, SMTT(10)
    DEF H!IInv, H!TestInv, H!Check, H!At, H!Goes, H!Live, H!Thread, H!Rest, H!Works,
        H!Cleanups, H!Pasts
  <2>7. H!CleanupInv'
    BY <1>1, <2>1, HardeningTyped, HardeningNames, SMTT(10)
    DEF H!IInv, H!CleanupInv, H!Check, H!At, H!Goes, H!Live, H!Thread, H!Rest, H!Found,
        H!Active, H!Works, H!Cleanups, H!Pasts
  <2>8. H!VerdictsAreTested'
    BY <1>1, <2>1, SMTT(10)
    DEF H!IInv, H!VerdictsAreTested, H!Check, H!At, H!Goes, H!Thread, H!Rest
  <2>9. H!ClonesAreRemoved'
    BY <1>1, <2>1, SMTT(10)
    DEF H!IInv, H!ClonesAreRemoved, H!Check, H!At, H!Goes, H!Live, H!Thread, H!Rest
  <2>. QED BY <2>2, <2>3, <2>4, <2>5, <2>6, <2>7, <2>8, <2>9 DEF H!IInv
<1>2. CASE row[r] # "cancelled"
  <2>1. /\ work' \in [H!Runs -> H!Works] /\ work'[r] = [at |-> "testing",
                                                        mine |-> work[r].mine,
                                                        saw |-> work[r].saw,
                                                        has |-> work[r].has]
        /\ \A q \in H!Runs \ {r} : work'[q] = work[q]
    BY <1>2, HardeningMoves DEF H!Check, H!After, H!Left, H!Places, H!Unclone, H!Cloning
  <2>2. H!TypeOK'
    BY <1>2, <2>1, SMTT(10)
    DEF H!IInv, H!TypeOK, H!Check, H!At, H!Goes, H!Thread, H!Rest, H!Active
  <2>3. H!LockInv'
    BY <1>2, <2>1, HardeningTyped, HardeningNames, SMTT(10)
    DEF H!IInv, H!LockInv, H!Check, H!At, H!Goes, H!Thread, H!Rest, H!Works,
        H!Cleanups, H!Pasts
  <2>4. H!RecordsOK'
    <3>1. work' \in [H!Runs -> H!Works]
      BY <1>2, <2>1, HardeningTyped
    <3>2. cleanup' \in H!Cleanups
      BY <1>2, HardeningTyped, HardeningNames
      DEF H!Check, H!Cleanups, H!Thread, H!Swept, H!Retried, H!Due, H!Reads,
          H!Interrupted, H!ClonesOf, H!vars
    <3>3. before' \in H!Pasts
      BY <1>2, HardeningTyped, HardeningNames
      DEF H!Check, H!Pasts, H!Forgets, H!Cleanups, H!Live, H!Thread
    <3>. QED BY <3>1, <3>2, <3>3 DEF H!RecordsOK
  <2>5. H!RunInv'
    BY <1>2, <2>1, HardeningTyped, HardeningNames, SMTT(10)
    DEF H!IInv, H!RunInv, H!Check, H!At, H!Goes, H!Thread, H!Rest, H!NoClone,
        H!Unclone, H!Cloning, H!Works, H!Cleanups, H!Pasts
  <2>6. H!TestInv'
    BY <1>2, <2>1, HardeningTyped, HardeningNames, SMTT(10)
    DEF H!IInv, H!TestInv, H!Check, H!At, H!Goes, H!Live, H!Thread, H!Rest, H!Works,
        H!Cleanups, H!Pasts
  <2>7. H!CleanupInv'
    BY <1>2, <2>1, HardeningTyped, HardeningNames, SMTT(10)
    DEF H!IInv, H!CleanupInv, H!Check, H!At, H!Goes, H!Live, H!Thread, H!Rest, H!Found,
        H!Active, H!Works, H!Cleanups, H!Pasts
  <2>8. H!VerdictsAreTested'
    BY <1>2, <2>1, SMTT(10)
    DEF H!IInv, H!VerdictsAreTested, H!Check, H!At, H!Goes, H!Thread, H!Rest
  <2>9. H!ClonesAreRemoved'
    BY <1>2, <2>1, SMTT(10)
    DEF H!IInv, H!ClonesAreRemoved, H!Check, H!At, H!Goes, H!Live, H!Thread, H!Rest
  <2>. QED BY <2>2, <2>3, <2>4, <2>5, <2>6, <2>7, <2>8, <2>9 DEF H!IInv
<1>. QED BY <1>1, <1>2

LEMMA Hardening_Tested ==
  ASSUME H!HardeningAssumption, H!IInv, NEW r \in H!Runs,
         H!Tested(r)
  PROVE  H!IInv'
<1>. DEFINE s == CHOOSE x \in H!Rest(work[r].mine) : \A y \in H!Rest(work[r].mine) : x <= y
           ratings == [work[r].mine EXCEPT ![s] = H!Verdict(r, s)]
<1>0. /\ work' = [work EXCEPT ![r] = [@ EXCEPT !.at = "checking", !.mine = ratings]]
      /\ rated' = IF H!Records(r, s) THEN [rated EXCEPT ![r] = ratings] ELSE rated
      /\ H!At(r, "testing") /\ UNCHANGED <<row, stop, restart, clone, faults, before>>
      /\ H!Thread
  BY DEF H!Tested
<1>a. /\ ratings \in H!Ratings
      /\ \A x \in H!Settings :
            ratings[x] = "blind" => work[r].mine[x] = "blind" \/ ~clone[r].guest
  <2>1. work[r].mine \in H!Ratings
    BY HardeningTyped DEF H!Works
  <2>2. H!Verdict(r, s) \in {"skipped", "tested", "blind"} /\ (H!Verdict(r, s) = "blind" => ~clone[r].guest)
    BY DEF H!Verdict
  <2>. HIDE DEF s
  <2>. QED BY <2>1, <2>2 DEF H!Ratings
<1>. HIDE DEF s, ratings
<1>1. /\ work' \in [H!Runs -> H!Works] /\ work'[r] = [at |-> "checking",
                                                      mine |-> ratings,
                                                      saw |-> work[r].saw,
                                                      has |-> work[r].has]
      /\ \A q \in H!Runs \ {r} : work'[q] = work[q]
  <2>1. /\ work'[r] = [work[r] EXCEPT !.at = "checking", !.mine = ratings]
        /\ work[r] \in H!Works
    BY <1>0, HardeningTyped
  <2>2. work'[r] = [at |-> "checking", mine |-> ratings, saw |-> work[r].saw,
                    has |-> work[r].has]
    BY <2>1 DEF H!Works
  <2>3. work'[r] \in H!Works
    BY <2>1, <2>2, <1>a DEF H!Works, H!Places, H!Cloning
  <2>. QED BY <2>2, <2>3, <1>0, HardeningTyped
<1>2. H!TypeOK'
  <2>1. row' \in [H!Runs -> H!Statuses]
    BY <1>0, <1>a, <1>1, HardeningTyped
    DEF H!Tested, H!Set, H!Thread, H!Idle, H!Statuses, H!Active, H!rowVars
  <2>2. phase' \in [H!Runs -> {1, 2}]
    BY <1>0, <1>a, <1>1, HardeningTyped DEF H!Tested, H!Thread, H!Idle, H!rowVars
  <2>3. stop' \in [H!Runs -> BOOLEAN]
    BY <1>0, <1>a, <1>1 DEF H!Tested, H!Thread, H!Idle, H!rowVars, H!IInv, H!TypeOK
  <2>4. restart' \in [H!Runs -> BOOLEAN]
    BY <1>0, <1>a, <1>1 DEF H!Tested, H!Thread, H!Idle, H!rowVars, H!IInv, H!TypeOK
  <2>5. rated' \in [H!Runs -> H!Ratings]
    BY <1>0, <1>a, <1>1, HardeningTyped, HardeningNames
    DEF H!Tested, H!Thread, H!Idle, H!rowVars, H!Works
  <2>6. clone' \in [H!Runs -> [row : BOOLEAN, guest : BOOLEAN]]
    BY <1>0, <1>a, <1>1, HardeningTyped DEF H!Tested, H!Thread, H!Idle, H!rowVars
  <2>7. lock' \in {"none", "clone", "cleanup", "other"}
    BY <1>0, <1>a, <1>1 DEF H!Tested, H!Thread, H!Idle, H!rowVars, H!IInv, H!TypeOK
  <2>. QED BY <2>1, <2>2, <2>3, <2>4, <2>5, <2>6, <2>7 DEF H!TypeOK
<1>3. H!LockInv'
  BY <1>0, <1>a, <1>1, SMTT(10)
  DEF H!IInv, H!LockInv, H!Tested, H!At, H!Thread, H!Rest, H!Verdict, H!Records,
      H!Active
<1>4. H!RecordsOK'
  <2>1. work' \in [H!Runs -> H!Works]
    BY <1>0, <1>a, <1>1, HardeningTyped
  <2>2. cleanup' \in H!Cleanups
    BY <1>0, <1>a, HardeningTyped, HardeningNames
    DEF H!Tested, H!Cleanups, H!Thread, H!Swept, H!Retried, H!Due, H!Reads,
        H!Interrupted, H!ClonesOf, H!vars
  <2>3. before' \in H!Pasts
    BY <1>0, <1>a, HardeningTyped, HardeningNames
    DEF H!Tested, H!Pasts, H!Forgets, H!Cleanups, H!Live, H!Thread
  <2>. QED BY <2>1, <2>2, <2>3 DEF H!RecordsOK
<1>5. H!RunInv'
  BY <1>0, <1>a, <1>1, SMTT(10)
  DEF H!IInv, H!RunInv, H!Tested, H!At, H!Thread, H!Rest, H!Verdict, H!Records,
      H!Active, H!NoClone, H!Unclone, H!Cloning
<1>6. H!TestInv'
  BY <1>0, <1>a, <1>1, SMTT(10)
  DEF H!IInv, H!TestInv, H!Tested, H!At, H!Live, H!Thread, H!Rest, H!Verdict,
      H!Records, H!Active
<1>7. H!CleanupInv'
  BY <1>0, <1>a, <1>1, SMTT(10)
  DEF H!IInv, H!CleanupInv, H!Tested, H!At, H!Live, H!Thread, H!Rest, H!Verdict,
      H!Records, H!Found, H!Active
<1>8. H!VerdictsAreTested'
  BY <1>0, <1>a, <1>1, SMTT(10)
  DEF H!IInv, H!RunInv, H!TestInv, H!VerdictsAreTested, H!Tested, H!At, H!Live,
      H!Thread, H!Rest, H!Verdict, H!Records, H!Active, H!NoClone, H!Unclone, H!Cloning
<1>9. H!ClonesAreRemoved'
  BY <1>0, <1>a, <1>1, SMTT(10)
  DEF H!IInv, H!ClonesAreRemoved, H!Tested, H!At, H!Live, H!Thread, H!Rest, H!Verdict,
      H!Records, H!Active
<1>. QED BY <1>2, <1>3, <1>4, <1>5, <1>6, <1>7, <1>8, <1>9 DEF H!IInv

LEMMA Hardening_AllTested ==
  ASSUME H!HardeningAssumption, H!IInv, NEW r \in H!Runs,
         H!AllTested(r)
  PROVE  H!IInv'
<1>1. /\ work' \in [H!Runs -> H!Works] /\ work'[r] = [at |-> "finishing",
                                                      mine |-> work[r].mine,
                                                      saw |-> row[r],
                                                      has |-> work[r].has]
      /\ \A q \in H!Runs \ {r} : work'[q] = work[q]
  <2>1. /\ work'[r] = [work[r] EXCEPT !.at = "finishing", !.saw = row[r]]
        /\ work[r] \in H!Works
    BY HardeningTyped DEF H!AllTested, H!Resumes
  <2>2. work'[r] = [at |-> "finishing", mine |-> work[r].mine, saw |-> row[r],
                    has |-> work[r].has]
    BY <2>1 DEF H!Works, H!NoWork
  <2>3. work'[r] \in H!Works
    BY <2>1, <2>2, HardeningTyped
    DEF H!Works, H!Places, H!Unclone, H!Cloning, H!Statuses, H!Active
  <2>. QED BY <2>2, <2>3, HardeningTyped DEF H!AllTested
<1>2. H!TypeOK'
  BY <1>1, SMTT(10) DEF H!IInv, H!TypeOK, H!AllTested, H!At, H!Thread, H!Rest, H!Active
<1>3. H!LockInv'
  BY <1>1, SMTT(10) DEF H!IInv, H!LockInv, H!AllTested, H!At, H!Thread, H!Rest
<1>4. H!RecordsOK'
  <2>1. work' \in [H!Runs -> H!Works]
    BY <1>1, HardeningTyped
  <2>2. cleanup' \in H!Cleanups
    BY HardeningTyped, HardeningNames
    DEF H!AllTested, H!Cleanups, H!Thread, H!Swept, H!Retried, H!Due, H!Reads,
        H!Interrupted, H!ClonesOf, H!vars
  <2>3. before' \in H!Pasts
    BY HardeningTyped, HardeningNames
    DEF H!AllTested, H!Pasts, H!Forgets, H!Cleanups, H!Live, H!Thread
  <2>. QED BY <2>1, <2>2, <2>3 DEF H!RecordsOK
<1>5. H!RunInv'
  BY <1>1, SMTT(10)
  DEF H!IInv, H!RunInv, H!AllTested, H!At, H!Thread, H!Rest, H!NoClone, H!Unclone,
      H!Cloning
<1>6. H!TestInv'
  BY <1>1, SMTT(10) DEF H!IInv, H!TestInv, H!AllTested, H!At, H!Live, H!Thread, H!Rest
<1>7. H!CleanupInv'
  BY <1>1, SMTT(10)
  DEF H!IInv, H!CleanupInv, H!AllTested, H!At, H!Live, H!Thread, H!Rest, H!Found,
      H!Active
<1>8. H!VerdictsAreTested'
  BY <1>1, SMTT(10) DEF H!IInv, H!VerdictsAreTested, H!AllTested, H!At, H!Thread, H!Rest
<1>9. H!ClonesAreRemoved'
  BY <1>1, SMTT(10)
  DEF H!IInv, H!ClonesAreRemoved, H!AllTested, H!At, H!Live, H!Thread, H!Rest
<1>. QED BY <1>2, <1>3, <1>4, <1>5, <1>6, <1>7, <1>8, <1>9 DEF H!IInv

LEMMA Hardening_Finish ==
  ASSUME H!HardeningAssumption, H!IInv, NEW r \in H!Runs,
         H!Finish(r)
  PROVE  H!IInv'
<1>1. CASE work[r].has
  <2>1. /\ work' \in [H!Runs -> H!Works] /\ work'[r] = [at |-> "cleaning",
                                                        mine |-> work[r].mine,
                                                        saw |-> work[r].saw,
                                                        has |-> work[r].has]
        /\ \A q \in H!Runs \ {r} : work'[q] = work[q]
    BY <1>1, HardeningMoves
    DEF H!Finish, H!After, H!Left, H!Places, H!Unclone, H!Cloning
  <2>2. H!TypeOK'
    <3>1. row' \in [H!Runs -> H!Statuses]
      BY <1>1, <2>1, HardeningTyped
      DEF H!Finish, H!Set, H!Thread, H!Idle, H!Statuses, H!Active, H!rowVars
    <3>2. phase' \in [H!Runs -> {1, 2}]
      BY <1>1, <2>1, HardeningTyped DEF H!Finish, H!Thread, H!Idle, H!rowVars
    <3>3. stop' \in [H!Runs -> BOOLEAN]
      BY <1>1, <2>1 DEF H!Finish, H!Thread, H!Idle, H!rowVars, H!IInv, H!TypeOK
    <3>4. restart' \in [H!Runs -> BOOLEAN]
      BY <1>1, <2>1 DEF H!Finish, H!Thread, H!Idle, H!rowVars, H!IInv, H!TypeOK
    <3>5. rated' \in [H!Runs -> H!Ratings]
      BY <1>1, <2>1, HardeningTyped, HardeningNames
      DEF H!Finish, H!Thread, H!Idle, H!rowVars, H!Works
    <3>6. clone' \in [H!Runs -> [row : BOOLEAN, guest : BOOLEAN]]
      BY <1>1, <2>1, HardeningTyped DEF H!Finish, H!Thread, H!Idle, H!rowVars
    <3>7. lock' \in {"none", "clone", "cleanup", "other"}
      BY <1>1, <2>1 DEF H!Finish, H!Thread, H!Idle, H!rowVars, H!IInv, H!TypeOK
    <3>. QED BY <3>1, <3>2, <3>3, <3>4, <3>5, <3>6, <3>7 DEF H!TypeOK
  <2>3. H!LockInv'
    BY <1>1, <2>1, HardeningTyped, HardeningNames, SMTT(10)
    DEF H!IInv, H!LockInv, H!Finish, H!At, H!Goes, H!Set, H!Thread, H!After, H!Works,
        H!Cleanups, H!Pasts
  <2>4. H!RecordsOK'
    <3>1. work' \in [H!Runs -> H!Works]
      BY <1>1, <2>1, HardeningTyped
    <3>2. cleanup' \in H!Cleanups
      BY <1>1, HardeningTyped, HardeningNames
      DEF H!Finish, H!Cleanups, H!Thread, H!Swept, H!Retried, H!Due, H!Reads,
          H!Interrupted, H!ClonesOf, H!vars
    <3>3. before' \in H!Pasts
      BY <1>1, HardeningTyped, HardeningNames
      DEF H!Finish, H!Pasts, H!Forgets, H!Cleanups, H!Live, H!Thread
    <3>. QED BY <3>1, <3>2, <3>3 DEF H!RecordsOK
  <2>5. H!RunInv'
    BY <1>1, <2>1, HardeningTyped, HardeningNames, SMTT(10)
    DEF H!IInv, H!TypeOK, H!LockInv, H!RunInv, H!TestInv, H!CleanupInv,
        H!VerdictsAreTested, H!ClonesAreRemoved, H!Finish, H!At, H!Goes, H!Live,
        H!Fault, H!Set, H!Forgets, H!Thread, H!Idle, H!Swept, H!Serves, H!Retried,
        H!Rest, H!Complete, H!Resumes, H!After, H!Left, H!Verdict, H!Records,
        H!Interrupted, H!ClonesOf, H!Reads, H!Create, H!Resumable, H!Found, H!Active,
        H!Unrated, H!NoWork, H!NoClone, H!Due, H!bounds, H!rowVars, H!vars, H!Unclone,
        H!Cloning, H!Places, H!Statuses, H!Ratings, H!Works, H!Cleanups, H!Pasts
  <2>6. H!TestInv'
    BY <1>1, <2>1, HardeningTyped, HardeningNames, SMTT(10)
    DEF H!IInv, H!TestInv, H!Finish, H!At, H!Goes, H!Live, H!Set, H!Thread, H!After,
        H!Works, H!Cleanups, H!Pasts
  <2>7. H!CleanupInv'
    BY <1>1, <2>1, HardeningTyped, HardeningNames, SMTT(10)
    DEF H!IInv, H!CleanupInv, H!Finish, H!At, H!Goes, H!Live, H!Set, H!Thread, H!After,
        H!Found, H!Active, H!Works, H!Cleanups, H!Pasts
  <2>8. H!VerdictsAreTested'
    <3>1. \A q \in H!Runs \ {r} : row'[q] = row[q] /\ rated'[q] = rated[q]
      BY HardeningTyped DEF H!Finish, H!Set
    <3>2. phase' = phase /\ before' = before
      BY DEF H!Finish, H!Thread
    <3>3. \/ row'[r] = row[r] /\ rated'[r] = rated[r]
          \/ row'[r] = "success" /\ rated'[r] = work[r].mine
      BY HardeningTyped DEF H!Finish, H!Set
    <3>4. phase[r] = 2 => H!Rest(work[r].mine) = {}
      BY DEF H!Finish, H!IInv, H!RunInv
    <3>. QED BY <3>1, <3>2, <3>3, <3>4
           DEF H!IInv, H!VerdictsAreTested, H!TestInv, H!Rest
  <2>9. H!ClonesAreRemoved'
    BY <1>1, <2>1, SMTT(10)
    DEF H!IInv, H!ClonesAreRemoved, H!Finish, H!At, H!Goes, H!Live, H!Set, H!Thread,
        H!After
  <2>. QED BY <2>2, <2>3, <2>4, <2>5, <2>6, <2>7, <2>8, <2>9 DEF H!IInv
<1>2. CASE ~work[r].has
  <2>1. /\ work' \in [H!Runs -> H!Works] /\ work'[r] = [at |-> "over",
                                                        mine |-> work[r].mine,
                                                        saw |-> work[r].saw,
                                                        has |-> work[r].has]
        /\ \A q \in H!Runs \ {r} : work'[q] = work[q]
    BY <1>2, HardeningMoves
    DEF H!Finish, H!After, H!Left, H!Places, H!Unclone, H!Cloning
  <2>2. H!TypeOK'
    <3>1. row' \in [H!Runs -> H!Statuses]
      BY <1>2, <2>1, HardeningTyped
      DEF H!Finish, H!Set, H!Thread, H!Idle, H!Statuses, H!Active, H!rowVars
    <3>2. phase' \in [H!Runs -> {1, 2}]
      BY <1>2, <2>1, HardeningTyped DEF H!Finish, H!Thread, H!Idle, H!rowVars
    <3>3. stop' \in [H!Runs -> BOOLEAN]
      BY <1>2, <2>1 DEF H!Finish, H!Thread, H!Idle, H!rowVars, H!IInv, H!TypeOK
    <3>4. restart' \in [H!Runs -> BOOLEAN]
      BY <1>2, <2>1 DEF H!Finish, H!Thread, H!Idle, H!rowVars, H!IInv, H!TypeOK
    <3>5. rated' \in [H!Runs -> H!Ratings]
      BY <1>2, <2>1, HardeningTyped, HardeningNames
      DEF H!Finish, H!Thread, H!Idle, H!rowVars, H!Works
    <3>6. clone' \in [H!Runs -> [row : BOOLEAN, guest : BOOLEAN]]
      BY <1>2, <2>1, HardeningTyped DEF H!Finish, H!Thread, H!Idle, H!rowVars
    <3>7. lock' \in {"none", "clone", "cleanup", "other"}
      BY <1>2, <2>1 DEF H!Finish, H!Thread, H!Idle, H!rowVars, H!IInv, H!TypeOK
    <3>. QED BY <3>1, <3>2, <3>3, <3>4, <3>5, <3>6, <3>7 DEF H!TypeOK
  <2>3. H!LockInv'
    BY <1>2, <2>1, HardeningTyped, HardeningNames, SMTT(10)
    DEF H!IInv, H!LockInv, H!Finish, H!At, H!Goes, H!Set, H!Thread, H!After, H!Works,
        H!Cleanups, H!Pasts
  <2>4. H!RecordsOK'
    <3>1. work' \in [H!Runs -> H!Works]
      BY <1>2, <2>1, HardeningTyped
    <3>2. cleanup' \in H!Cleanups
      BY <1>2, HardeningTyped, HardeningNames
      DEF H!Finish, H!Cleanups, H!Thread, H!Swept, H!Retried, H!Due, H!Reads,
          H!Interrupted, H!ClonesOf, H!vars
    <3>3. before' \in H!Pasts
      BY <1>2, HardeningTyped, HardeningNames
      DEF H!Finish, H!Pasts, H!Forgets, H!Cleanups, H!Live, H!Thread
    <3>. QED BY <3>1, <3>2, <3>3 DEF H!RecordsOK
  <2>5. H!RunInv'
    BY <1>2, <2>1, HardeningTyped, HardeningNames, SMTT(10)
    DEF H!IInv, H!RunInv, H!Finish, H!At, H!Goes, H!Set, H!Thread, H!Rest, H!After,
        H!NoClone, H!Unclone, H!Cloning, H!Works, H!Cleanups, H!Pasts
  <2>6. H!TestInv'
    BY <1>2, <2>1, HardeningTyped, HardeningNames, SMTT(10)
    DEF H!IInv, H!TestInv, H!Finish, H!At, H!Goes, H!Live, H!Set, H!Thread, H!After,
        H!Works, H!Cleanups, H!Pasts
  <2>7. H!CleanupInv'
    <3>1. UNCHANGED <<clone, cleanup, before>> /\ work[r].at = "finishing"
      BY DEF H!Finish, H!Thread, H!At
    <3>2. \A q \in H!Runs : (q # r => row'[q] = row[q]) /\ row'[q] \in {row[q], "success"}
      BY HardeningTyped DEF H!Finish, H!Set
    <3>3. clone[r].row => r \in before.forgotten
      BY <1>2, <3>1 DEF H!IInv, H!TestInv, H!Live
    <3>4. \A q \in H!Runs : q # r => (H!Live(q)' <=> H!Live(q)) /\ (H!Found(q)' <=> H!Found(q))
      BY <1>2, <2>1, <3>1, <3>2 DEF H!Live, H!Found
    <3>5. ~H!Live(r)'
      BY <1>2, <2>1 DEF H!Live
    <3>6. cleanup.clones \subseteq H!Runs /\ cleanup.runs \subseteq H!Runs
      BY HardeningTyped DEF H!Cleanups
    <3>. QED BY <3>1, <3>2, <3>3, <3>4, <3>5, <3>6 DEF H!IInv, H!CleanupInv
  <2>8. H!VerdictsAreTested'
    <3>1. /\ phase' = phase /\ before' = before /\ row[r] # "success"
          /\ \A q \in H!Runs \ {r} : row'[q] = row[q]
      BY HardeningTyped DEF H!Finish, H!At, H!Set, H!Thread, H!IInv, H!RunInv
    <3>2. \/ row' = row /\ rated' = rated
          \/ rated' = [rated EXCEPT ![r] = work[r].mine]
      BY DEF H!Finish
    <3>3. /\ \A q \in H!Runs \ {r} : rated'[q] = rated[q]
          /\ rated'[r] \in {rated[r], work[r].mine}
          /\ row'[r] = "success" => rated'[r] = work[r].mine
      BY <3>1, <3>2, HardeningTyped
    <3>4. phase[r] = 2 => H!Rest(work[r].mine) = {}
      BY DEF H!IInv, H!RunInv, H!Finish
    <3>5. r \notin before.taken => \A s \in H!Settings : (work[r].mine)[s] # "blind"
      BY DEF H!IInv, H!TestInv
    <3>. QED BY <3>1, <3>3, <3>4, <3>5 DEF H!IInv, H!VerdictsAreTested, H!Rest
  <2>9. H!ClonesAreRemoved'
    BY <1>2, <2>1, SMTT(10)
    DEF H!IInv, H!RunInv, H!TestInv, H!ClonesAreRemoved, H!Finish, H!At, H!Goes,
        H!Live, H!Set, H!Thread, H!Rest, H!After, H!NoClone, H!Unclone, H!Cloning
  <2>. QED BY <2>2, <2>3, <2>4, <2>5, <2>6, <2>7, <2>8, <2>9 DEF H!IInv
<1>. QED BY <1>1, <1>2

LEMMA Hardening_Cancel ==
  ASSUME H!HardeningAssumption, H!IInv, NEW r \in H!Runs,
         H!Cancel(r)
  PROVE  H!IInv'
<1>1. CASE work[r].has
  <2>1. /\ work' \in [H!Runs -> H!Works] /\ work'[r] = [at |-> "cleaning",
                                                        mine |-> work[r].mine,
                                                        saw |-> work[r].saw,
                                                        has |-> work[r].has]
        /\ \A q \in H!Runs \ {r} : work'[q] = work[q]
    BY <1>1, HardeningMoves
    DEF H!Cancel, H!After, H!Left, H!Places, H!Unclone, H!Cloning
  <2>2. H!TypeOK'
    <3>1. row' \in [H!Runs -> H!Statuses]
      BY <1>1, <2>1, HardeningTyped
      DEF H!Cancel, H!Set, H!Thread, H!Idle, H!Statuses, H!Active, H!rowVars
    <3>2. phase' \in [H!Runs -> {1, 2}]
      BY <1>1, <2>1, HardeningTyped DEF H!Cancel, H!Thread, H!Idle, H!rowVars
    <3>3. stop' \in [H!Runs -> BOOLEAN]
      BY <1>1, <2>1 DEF H!Cancel, H!Thread, H!Idle, H!rowVars, H!IInv, H!TypeOK
    <3>4. restart' \in [H!Runs -> BOOLEAN]
      BY <1>1, <2>1 DEF H!Cancel, H!Thread, H!Idle, H!rowVars, H!IInv, H!TypeOK
    <3>5. rated' \in [H!Runs -> H!Ratings]
      BY <1>1, <2>1, HardeningTyped, HardeningNames
      DEF H!Cancel, H!Thread, H!Idle, H!rowVars, H!Works
    <3>6. clone' \in [H!Runs -> [row : BOOLEAN, guest : BOOLEAN]]
      BY <1>1, <2>1, HardeningTyped DEF H!Cancel, H!Thread, H!Idle, H!rowVars
    <3>7. lock' \in {"none", "clone", "cleanup", "other"}
      BY <1>1, <2>1 DEF H!Cancel, H!Thread, H!Idle, H!rowVars, H!IInv, H!TypeOK
    <3>. QED BY <3>1, <3>2, <3>3, <3>4, <3>5, <3>6, <3>7 DEF H!TypeOK
  <2>3. H!LockInv'
    BY <1>1, <2>1, HardeningTyped, HardeningNames, SMTT(10)
    DEF H!IInv, H!LockInv, H!Cancel, H!At, H!Goes, H!Set, H!Thread, H!After, H!Left,
        H!Works, H!Cleanups, H!Pasts
  <2>4. H!RecordsOK'
    <3>1. work' \in [H!Runs -> H!Works]
      BY <1>1, <2>1, HardeningTyped
    <3>2. cleanup' \in H!Cleanups
      BY <1>1, HardeningTyped, HardeningNames
      DEF H!Cancel, H!Cleanups, H!Thread, H!Swept, H!Retried, H!Due, H!Reads,
          H!Interrupted, H!ClonesOf, H!vars
    <3>3. before' \in H!Pasts
      BY <1>1, HardeningTyped, HardeningNames
      DEF H!Cancel, H!Pasts, H!Forgets, H!Cleanups, H!Live, H!Thread
    <3>. QED BY <3>1, <3>2, <3>3 DEF H!RecordsOK
  <2>5. H!RunInv'
    BY <1>1, <2>1, SMTT(10)
    DEF H!IInv, H!RunInv, H!Cancel, H!At, H!Goes, H!Set, H!Thread, H!Rest, H!After,
        H!Left, H!NoClone, H!Unclone, H!Cloning
  <2>6. H!TestInv'
    BY <1>1, <2>1, HardeningTyped, HardeningNames, SMTT(10)
    DEF H!IInv, H!TestInv, H!Cancel, H!At, H!Goes, H!Live, H!Set, H!Thread, H!After,
        H!Left, H!Works, H!Cleanups, H!Pasts
  <2>7. H!CleanupInv'
    BY <1>1, <2>1, HardeningTyped, HardeningNames, SMTT(10)
    DEF H!IInv, H!CleanupInv, H!Cancel, H!At, H!Goes, H!Live, H!Set, H!Thread, H!After,
        H!Left, H!Found, H!Active, H!Works, H!Cleanups, H!Pasts
  <2>8. H!VerdictsAreTested'
    BY <1>1, <2>1, SMTT(10)
    DEF H!IInv, H!VerdictsAreTested, H!Cancel, H!At, H!Goes, H!Set, H!Thread, H!Rest,
        H!After, H!Left
  <2>9. H!ClonesAreRemoved'
    BY <1>1, <2>1, SMTT(10)
    DEF H!IInv, H!ClonesAreRemoved, H!Cancel, H!At, H!Goes, H!Live, H!Set, H!Thread,
        H!After, H!Left
  <2>. QED BY <2>2, <2>3, <2>4, <2>5, <2>6, <2>7, <2>8, <2>9 DEF H!IInv
<1>2. CASE ~work[r].has
  <2>1. /\ work' \in [H!Runs -> H!Works] /\ work'[r] = [at |-> "over",
                                                        mine |-> work[r].mine,
                                                        saw |-> work[r].saw,
                                                        has |-> work[r].has]
        /\ \A q \in H!Runs \ {r} : work'[q] = work[q]
    BY <1>2, HardeningMoves
    DEF H!Cancel, H!After, H!Left, H!Places, H!Unclone, H!Cloning
  <2>2. H!TypeOK'
    <3>1. row' \in [H!Runs -> H!Statuses]
      BY <1>2, <2>1, HardeningTyped
      DEF H!Cancel, H!Set, H!Thread, H!Idle, H!Statuses, H!Active, H!rowVars
    <3>2. phase' \in [H!Runs -> {1, 2}]
      BY <1>2, <2>1, HardeningTyped DEF H!Cancel, H!Thread, H!Idle, H!rowVars
    <3>3. stop' \in [H!Runs -> BOOLEAN]
      BY <1>2, <2>1 DEF H!Cancel, H!Thread, H!Idle, H!rowVars, H!IInv, H!TypeOK
    <3>4. restart' \in [H!Runs -> BOOLEAN]
      BY <1>2, <2>1 DEF H!Cancel, H!Thread, H!Idle, H!rowVars, H!IInv, H!TypeOK
    <3>5. rated' \in [H!Runs -> H!Ratings]
      BY <1>2, <2>1, HardeningTyped, HardeningNames
      DEF H!Cancel, H!Thread, H!Idle, H!rowVars, H!Works
    <3>6. clone' \in [H!Runs -> [row : BOOLEAN, guest : BOOLEAN]]
      BY <1>2, <2>1, HardeningTyped DEF H!Cancel, H!Thread, H!Idle, H!rowVars
    <3>7. lock' \in {"none", "clone", "cleanup", "other"}
      BY <1>2, <2>1 DEF H!Cancel, H!Thread, H!Idle, H!rowVars, H!IInv, H!TypeOK
    <3>. QED BY <3>1, <3>2, <3>3, <3>4, <3>5, <3>6, <3>7 DEF H!TypeOK
  <2>3. H!LockInv'
    BY <1>2, <2>1, HardeningTyped, HardeningNames, SMTT(10)
    DEF H!IInv, H!LockInv, H!Cancel, H!At, H!Goes, H!Set, H!Thread, H!After, H!Left,
        H!Works, H!Cleanups, H!Pasts
  <2>4. H!RecordsOK'
    <3>1. work' \in [H!Runs -> H!Works]
      BY <1>2, <2>1, HardeningTyped
    <3>2. cleanup' \in H!Cleanups
      BY <1>2, HardeningTyped, HardeningNames
      DEF H!Cancel, H!Cleanups, H!Thread, H!Swept, H!Retried, H!Due, H!Reads,
          H!Interrupted, H!ClonesOf, H!vars
    <3>3. before' \in H!Pasts
      BY <1>2, HardeningTyped, HardeningNames
      DEF H!Cancel, H!Pasts, H!Forgets, H!Cleanups, H!Live, H!Thread
    <3>. QED BY <3>1, <3>2, <3>3 DEF H!RecordsOK
  <2>5. H!RunInv'
    BY <1>2, <2>1, SMTT(10)
    DEF H!IInv, H!RunInv, H!Cancel, H!At, H!Goes, H!Set, H!Thread, H!Rest, H!After,
        H!Left, H!NoClone, H!Unclone, H!Cloning
  <2>6. H!TestInv'
    BY <1>2, <2>1, HardeningTyped, HardeningNames, SMTT(10)
    DEF H!IInv, H!TestInv, H!Cancel, H!At, H!Goes, H!Live, H!Set, H!Thread, H!After,
        H!Left, H!Works, H!Cleanups, H!Pasts
  <2>7. H!CleanupInv'
    BY <1>2, <2>1, HardeningTyped, HardeningNames, SMTT(10)
    DEF H!IInv, H!RunInv, H!TestInv, H!CleanupInv, H!Cancel, H!At, H!Goes, H!Live,
        H!Set, H!Thread, H!Rest, H!After, H!Left, H!Found, H!Active, H!NoClone,
        H!Unclone, H!Cloning, H!Works, H!Cleanups, H!Pasts
  <2>8. H!VerdictsAreTested'
    BY <1>2, <2>1, SMTT(10)
    DEF H!IInv, H!VerdictsAreTested, H!Cancel, H!At, H!Goes, H!Set, H!Thread, H!Rest,
        H!After, H!Left
  <2>9. H!ClonesAreRemoved'
    BY <1>2, <2>1, HardeningTyped, HardeningNames, SMTT(10)
    DEF H!IInv, H!RunInv, H!TestInv, H!ClonesAreRemoved, H!Cancel, H!At, H!Goes,
        H!Live, H!Set, H!Thread, H!Rest, H!After, H!Left, H!NoClone, H!Unclone,
        H!Cloning, H!Works, H!Cleanups, H!Pasts
  <2>. QED BY <2>2, <2>3, <2>4, <2>5, <2>6, <2>7, <2>8, <2>9 DEF H!IInv
<1>. QED BY <1>1, <1>2

LEMMA Hardening_Fail ==
  ASSUME H!HardeningAssumption, H!IInv, NEW r \in H!Runs,
         H!Fail(r)
  PROVE  H!IInv'
<1>1. CASE work[r].has
  <2>1. /\ work' \in [H!Runs -> H!Works] /\ work'[r] = [at |-> "cleaning",
                                                        mine |-> work[r].mine,
                                                        saw |-> work[r].saw,
                                                        has |-> work[r].has]
        /\ \A q \in H!Runs \ {r} : work'[q] = work[q]
    BY <1>1, HardeningMoves DEF H!Fail, H!After, H!Left, H!Places, H!Unclone, H!Cloning
  <2>2. H!TypeOK'
    <3>1. row' \in [H!Runs -> H!Statuses]
      BY <1>1, <2>1, HardeningTyped
      DEF H!Fail, H!Set, H!Thread, H!Idle, H!Statuses, H!Active, H!rowVars
    <3>2. phase' \in [H!Runs -> {1, 2}]
      BY <1>1, <2>1, HardeningTyped DEF H!Fail, H!Thread, H!Idle, H!rowVars
    <3>3. stop' \in [H!Runs -> BOOLEAN]
      BY <1>1, <2>1 DEF H!Fail, H!Thread, H!Idle, H!rowVars, H!IInv, H!TypeOK
    <3>4. restart' \in [H!Runs -> BOOLEAN]
      BY <1>1, <2>1 DEF H!Fail, H!Thread, H!Idle, H!rowVars, H!IInv, H!TypeOK
    <3>5. rated' \in [H!Runs -> H!Ratings]
      BY <1>1, <2>1, HardeningTyped, HardeningNames
      DEF H!Fail, H!Thread, H!Idle, H!rowVars, H!Works
    <3>6. clone' \in [H!Runs -> [row : BOOLEAN, guest : BOOLEAN]]
      BY <1>1, <2>1, HardeningTyped DEF H!Fail, H!Thread, H!Idle, H!rowVars
    <3>7. lock' \in {"none", "clone", "cleanup", "other"}
      BY <1>1, <2>1 DEF H!Fail, H!Thread, H!Idle, H!rowVars, H!IInv, H!TypeOK
    <3>. QED BY <3>1, <3>2, <3>3, <3>4, <3>5, <3>6, <3>7 DEF H!TypeOK
  <2>3. H!LockInv'
    BY <1>1, <2>1, HardeningTyped, HardeningNames, SMTT(10)
    DEF H!IInv, H!LockInv, H!Fail, H!At, H!Goes, H!Set, H!Thread, H!After, H!Works,
        H!Cleanups, H!Pasts
  <2>4. H!RecordsOK'
    <3>1. work' \in [H!Runs -> H!Works]
      BY <1>1, <2>1, HardeningTyped
    <3>2. cleanup' \in H!Cleanups
      BY <1>1, HardeningTyped, HardeningNames
      DEF H!Fail, H!Cleanups, H!Thread, H!Swept, H!Retried, H!Due, H!Reads,
          H!Interrupted, H!ClonesOf, H!vars
    <3>3. before' \in H!Pasts
      BY <1>1, HardeningTyped, HardeningNames
      DEF H!Fail, H!Pasts, H!Forgets, H!Cleanups, H!Live, H!Thread
    <3>. QED BY <3>1, <3>2, <3>3 DEF H!RecordsOK
  <2>5. H!RunInv'
    BY <1>1, <2>1, HardeningTyped, HardeningNames, SMTT(10)
    DEF H!IInv, H!TypeOK, H!LockInv, H!RunInv, H!TestInv, H!CleanupInv,
        H!VerdictsAreTested, H!ClonesAreRemoved, H!Fail, H!At, H!Goes, H!Live, H!Fault,
        H!Set, H!Forgets, H!Thread, H!Idle, H!Swept, H!Serves, H!Retried, H!Rest,
        H!Complete, H!Resumes, H!After, H!Left, H!Verdict, H!Records, H!Interrupted,
        H!ClonesOf, H!Reads, H!Create, H!Resumable, H!Found, H!Active, H!Unrated,
        H!NoWork, H!NoClone, H!Due, H!bounds, H!rowVars, H!vars, H!Unclone, H!Cloning,
        H!Places, H!Statuses, H!Ratings, H!Works, H!Cleanups, H!Pasts
  <2>6. H!TestInv'
    BY <1>1, <2>1, HardeningTyped, HardeningNames, SMTT(10)
    DEF H!IInv, H!TestInv, H!Fail, H!At, H!Goes, H!Live, H!Set, H!Thread, H!After,
        H!Works, H!Cleanups, H!Pasts
  <2>7. H!CleanupInv'
    BY <1>1, <2>1, HardeningTyped, HardeningNames, SMTT(10)
    DEF H!IInv, H!CleanupInv, H!Fail, H!At, H!Goes, H!Live, H!Set, H!Thread, H!After,
        H!Found, H!Active, H!Works, H!Cleanups, H!Pasts
  <2>8. H!VerdictsAreTested'
    <3>1. /\ phase' = phase /\ before' = before
          /\ \A q \in H!Runs : row'[q] = "success" => row[q] = "success"
          /\ row[r] # "success"
      BY <1>1, HardeningTyped DEF H!Fail, H!At, H!Set, H!Thread, H!IInv, H!RunInv
    <3>2. \A q \in H!Runs : \/ rated'[q] = rated[q]
                            \/ q = r /\ rated'[q] = work[r].mine
      <4>1. rated' = rated \/ rated' = [rated EXCEPT ![r] = work[r].mine]
        BY DEF H!Fail
      <4>2. rated \in [H!Runs -> H!Ratings]
        BY HardeningTyped
      <4>. QED BY <4>1, <4>2
    <3>3. row'[r] # "success"
      BY <3>1
    <3>4. r \notin before.taken => \A s \in H!Settings : (work[r].mine)[s] # "blind"
      BY DEF H!IInv, H!TestInv
    <3>. QED BY <3>1, <3>2, <3>3, <3>4 DEF H!IInv, H!VerdictsAreTested, H!Rest
  <2>9. H!ClonesAreRemoved'
    BY <1>1, <2>1, SMTT(10)
    DEF H!IInv, H!ClonesAreRemoved, H!Fail, H!At, H!Goes, H!Live, H!Set, H!Thread,
        H!After
  <2>. QED BY <2>2, <2>3, <2>4, <2>5, <2>6, <2>7, <2>8, <2>9 DEF H!IInv
<1>2. CASE ~work[r].has
  <2>1. /\ work' \in [H!Runs -> H!Works] /\ work'[r] = [at |-> "over",
                                                        mine |-> work[r].mine,
                                                        saw |-> work[r].saw,
                                                        has |-> work[r].has]
        /\ \A q \in H!Runs \ {r} : work'[q] = work[q]
    BY <1>2, HardeningMoves DEF H!Fail, H!After, H!Left, H!Places, H!Unclone, H!Cloning
  <2>2. H!TypeOK'
    <3>1. row' \in [H!Runs -> H!Statuses]
      BY <1>2, <2>1, HardeningTyped
      DEF H!Fail, H!Set, H!Thread, H!Idle, H!Statuses, H!Active, H!rowVars
    <3>2. phase' \in [H!Runs -> {1, 2}]
      BY <1>2, <2>1, HardeningTyped DEF H!Fail, H!Thread, H!Idle, H!rowVars
    <3>3. stop' \in [H!Runs -> BOOLEAN]
      BY <1>2, <2>1 DEF H!Fail, H!Thread, H!Idle, H!rowVars, H!IInv, H!TypeOK
    <3>4. restart' \in [H!Runs -> BOOLEAN]
      BY <1>2, <2>1 DEF H!Fail, H!Thread, H!Idle, H!rowVars, H!IInv, H!TypeOK
    <3>5. rated' \in [H!Runs -> H!Ratings]
      BY <1>2, <2>1, HardeningTyped, HardeningNames
      DEF H!Fail, H!Thread, H!Idle, H!rowVars, H!Works
    <3>6. clone' \in [H!Runs -> [row : BOOLEAN, guest : BOOLEAN]]
      BY <1>2, <2>1, HardeningTyped DEF H!Fail, H!Thread, H!Idle, H!rowVars
    <3>7. lock' \in {"none", "clone", "cleanup", "other"}
      BY <1>2, <2>1 DEF H!Fail, H!Thread, H!Idle, H!rowVars, H!IInv, H!TypeOK
    <3>. QED BY <3>1, <3>2, <3>3, <3>4, <3>5, <3>6, <3>7 DEF H!TypeOK
  <2>3. H!LockInv'
    BY <1>2, <2>1, HardeningTyped, HardeningNames, SMTT(10)
    DEF H!IInv, H!LockInv, H!Fail, H!At, H!Goes, H!Set, H!Thread, H!After, H!Works,
        H!Cleanups, H!Pasts
  <2>4. H!RecordsOK'
    <3>1. work' \in [H!Runs -> H!Works]
      BY <1>2, <2>1, HardeningTyped
    <3>2. cleanup' \in H!Cleanups
      BY <1>2, HardeningTyped, HardeningNames
      DEF H!Fail, H!Cleanups, H!Thread, H!Swept, H!Retried, H!Due, H!Reads,
          H!Interrupted, H!ClonesOf, H!vars
    <3>3. before' \in H!Pasts
      BY <1>2, HardeningTyped, HardeningNames
      DEF H!Fail, H!Pasts, H!Forgets, H!Cleanups, H!Live, H!Thread
    <3>. QED BY <3>1, <3>2, <3>3 DEF H!RecordsOK
  <2>5. H!RunInv'
    BY <1>2, <2>1, HardeningTyped, HardeningNames, SMTT(10)
    DEF H!IInv, H!RunInv, H!Fail, H!At, H!Goes, H!Set, H!Thread, H!Rest, H!After,
        H!NoClone, H!Unclone, H!Cloning, H!Works, H!Cleanups, H!Pasts
  <2>6. H!TestInv'
    BY <1>2, <2>1, HardeningTyped, HardeningNames, SMTT(10)
    DEF H!IInv, H!TestInv, H!Fail, H!At, H!Goes, H!Live, H!Set, H!Thread, H!After,
        H!Works, H!Cleanups, H!Pasts
  <2>7. H!CleanupInv'
    BY <1>2, <2>1, HardeningTyped, HardeningNames, SMTT(10)
    DEF H!IInv, H!RunInv, H!TestInv, H!CleanupInv, H!Fail, H!At, H!Goes, H!Live, H!Set,
        H!Thread, H!Rest, H!After, H!Found, H!Active, H!NoClone, H!Unclone, H!Cloning,
        H!Works, H!Cleanups, H!Pasts
  <2>8. H!VerdictsAreTested'
    <3>1. UNCHANGED <<before, phase>>
      BY DEF H!Fail, H!Thread
    <3>2. rated' = rated \/ rated' = [rated EXCEPT ![r] = work[r].mine]
      BY DEF H!Fail
    <3>3. (row' = row /\ rated' = rated) \/ row' = [row EXCEPT ![r] = "failed"]
      BY DEF H!Fail, H!Set
    <3>4. \A q \in H!Runs : q # r => rated'[q] = rated[q] /\ row'[q] = row[q]
      BY <3>2, <3>3, HardeningTyped
    <3>5. (row'[r] = row[r] /\ rated'[r] = rated[r]) \/ row'[r] = "failed"
      BY <3>3, HardeningTyped
    <3>6. rated'[r] = rated[r] \/ rated'[r] = work[r].mine
      BY <3>2, HardeningTyped
    <3>. QED
      BY <3>1, <3>4, <3>5, <3>6 DEF H!IInv, H!VerdictsAreTested, H!TestInv, H!Rest
  <2>9. H!ClonesAreRemoved'
    BY <1>2, <2>1, SMTT(10)
    DEF H!IInv, H!RunInv, H!TestInv, H!ClonesAreRemoved, H!Fail, H!At, H!Goes, H!Live,
        H!Set, H!Thread, H!Rest, H!After, H!NoClone, H!Unclone, H!Cloning
  <2>. QED BY <2>2, <2>3, <2>4, <2>5, <2>6, <2>7, <2>8, <2>9 DEF H!IInv
<1>. QED BY <1>1, <1>2

(* A thread that leaves, or fails, without a write of its own.             *)
LEMMA HardeningLeaves ==
  ASSUME H!HardeningAssumption, H!IInv, NEW r \in H!Runs,
         NEW where \in {"over", "failing", "cleaning"}, H!Goes(r, where),
         work[r].at \in {"queued", "starting", "finishing", "cancelling", "failing"},
         where = "over" => ~work[r].has, where = "cleaning" => work[r].has,
         before' \in H!Pasts, before'.taken = before.taken,
         before'.forgotten = before.forgotten, before'.halfway = before.halfway,
         row' = row, phase' = phase, stop' = stop, restart' = restart,
         rated' = rated, clone' = clone, lock' = lock, cleanup' = cleanup
  PROVE  H!IInv'
<1>1. /\ work' \in [H!Runs -> H!Works] /\ work'[r].at = where
      /\ work'[r].mine = work[r].mine /\ work'[r].has = work[r].has
      /\ \A q \in H!Runs \ {r} : work'[q] = work[q]
  <2>1. where \in H!Places
    BY DEF H!Places, H!Unclone, H!Cloning
  <2>2. H!HardeningAssumption /\ H!IInv /\ H!Goes(r, where) /\ r \in H!Runs
    OBVIOUS
  <2>3. /\ work' \in [H!Runs -> H!Works]
        /\ work'[r] = [at |-> where, mine |-> work[r].mine, saw |-> work[r].saw,
                       has |-> work[r].has]
        /\ \A q \in H!Runs \ {r} : work'[q] = work[q]
    BY <2>1, <2>2, HardeningMoves
  <2>. QED BY <2>3
<1>2. H!TypeOK'
  BY DEF H!IInv, H!TypeOK
<1>3. H!LockInv'
  <2>1. \A q \in H!Runs : work'[q].at = "copying" <=> work[q].at = "copying"
    BY <1>1
  <2>. QED BY <2>1 DEF H!IInv, H!LockInv, H!At
<1>4. H!RecordsOK'
  BY <1>1, HardeningTyped DEF H!RecordsOK
<1>5. H!RunInv'
  BY <1>1 DEF H!IInv, H!RunInv, H!At, H!Rest, H!Unclone, H!Cloning
<1>6. \A q \in H!Runs : H!Live(q)' => H!Live(q)
  BY <1>1 DEF H!Live
<1>7. \A q \in H!Runs : clone[q].row /\ H!Live(q) /\ ~H!Live(q)' => q \in before.forgotten
  BY <1>1 DEF H!IInv, H!TestInv, H!Live
<1>8. H!TestInv'
  BY <1>1, <1>6 DEF H!IInv, H!TestInv, H!At
<1>9. H!CleanupInv'
  <2>1. \A q \in H!Runs : H!Found(q)' <=> H!Found(q)
    BY DEF H!Found
  <2>2. \A q \in cleanup.clones : H!Live(q)' => H!Live(q)
    BY <1>6, HardeningTyped DEF H!Cleanups
  <2>3. H!CleanupInv
    BY DEF H!IInv
  <2>4. \A q \in H!Runs : clone[q].row /\ ~H!Live(q)' => H!Found(q) \/ q \in before.forgotten
    BY <2>3, <1>7 DEF H!CleanupInv
  <2>5. (\A q \in H!Runs : clone[q].row /\ ~H!Live(q) => H!Found(q) \/ q \in before.forgotten)'
    BY <2>1, <2>4
  <2>. QED BY <2>2, <2>3, <2>5 DEF H!CleanupInv
<1>10. H!VerdictsAreTested'
  BY DEF H!IInv, H!VerdictsAreTested, H!Rest
<1>11. H!ClonesAreRemoved'
  BY <1>7 DEF H!IInv, H!ClonesAreRemoved
<1>. QED BY <1>2, <1>3, <1>4, <1>5, <1>8, <1>9, <1>10, <1>11 DEF H!IInv

(* What strands a run is for the last property only.                       *)
LEMMA HardeningStrands ==
  ASSUME H!HardeningAssumption, H!IInv, NEW r \in H!Runs, H!Strands(r) \/ UNCHANGED before
  PROVE  /\ before' \in H!Pasts /\ before'.taken = before.taken
         /\ before'.forgotten = before.forgotten /\ before'.halfway = before.halfway
  BY HardeningTyped DEF H!Strands, H!Pasts

LEMMA Hardening_BeginFails ==
  ASSUME H!HardeningAssumption, H!IInv, NEW r \in H!Runs, H!BeginFails(r)
  PROVE  H!IInv'
<1>1. work[r].at \in {"queued", "starting"} /\ ~work[r].has
  BY DEF H!BeginFails, H!At, H!IInv, H!RunInv, H!Unclone
<1>2. H!Goes(r, "over") /\ H!Strands(r)
  BY DEF H!BeginFails
<1>3. /\ row' = row /\ phase' = phase /\ stop' = stop /\ restart' = restart
      /\ rated' = rated /\ clone' = clone /\ lock' = lock /\ cleanup' = cleanup
  BY DEF H!BeginFails, H!Thread
<1>. QED BY <1>1, <1>2, <1>3, HardeningLeaves, HardeningStrands

LEMMA Hardening_FinishFails ==
  ASSUME H!HardeningAssumption, H!IInv, NEW r \in H!Runs, H!FinishFails(r)
  PROVE  H!IInv'
<1>1. work[r].at = "finishing"
  BY DEF H!FinishFails, H!At
<1>2. /\ row' = row /\ phase' = phase /\ stop' = stop /\ restart' = restart
      /\ rated' = rated /\ clone' = clone /\ lock' = lock /\ cleanup' = cleanup
  BY DEF H!FinishFails, H!Thread
<1>3. CASE phase[r] = 1 \/ work[r].has
  <2>1. H!Goes(r, "failing") /\ UNCHANGED before
    BY <1>3 DEF H!FinishFails
  <2>. QED BY <1>1, <1>2, <2>1, HardeningLeaves, HardeningStrands
<1>4. CASE ~(phase[r] = 1 \/ work[r].has)
  <2>1. H!Goes(r, "over") /\ H!Strands(r)
    BY <1>4 DEF H!FinishFails
  <2>. QED BY <1>1, <1>2, <1>4, <2>1, HardeningLeaves, HardeningStrands
<1>. QED BY <1>3, <1>4

LEMMA Hardening_HandlerFails ==
  ASSUME H!HardeningAssumption, H!IInv, NEW r \in H!Runs, H!HandlerFails(r)
  PROVE  H!IInv'
<1>1. work[r].at \in {"cancelling", "failing"}
  BY DEF H!HandlerFails, H!At
<1>2. /\ row' = row /\ phase' = phase /\ stop' = stop /\ restart' = restart
      /\ rated' = rated /\ clone' = clone /\ lock' = lock /\ cleanup' = cleanup
  BY DEF H!HandlerFails, H!Thread
<1>3. H!Strands(r)
  BY DEF H!HandlerFails
<1>4. CASE work[r].has
  <2>1. H!Goes(r, "cleaning")
    BY <1>4 DEF H!HandlerFails, H!After
  <2>. QED BY <1>1, <1>2, <1>3, <1>4, <2>1, HardeningLeaves, HardeningStrands
<1>5. CASE ~work[r].has
  <2>1. H!Goes(r, "over")
    BY <1>5 DEF H!HandlerFails, H!After
  <2>. QED BY <1>1, <1>2, <1>3, <1>5, <2>1, HardeningLeaves, HardeningStrands
<1>. QED BY <1>4, <1>5

LEMMA Hardening_CleanClone ==
  ASSUME H!HardeningAssumption, H!IInv, NEW r \in H!Runs,
         H!CleanClone(r)
  PROVE  H!IInv'
<1>1. /\ work' \in [H!Runs -> H!Works] /\ work'[r] = [at |-> "dropping",
                                                      mine |-> work[r].mine,
                                                      saw |-> work[r].saw,
                                                      has |-> work[r].has]
      /\ \A q \in H!Runs \ {r} : work'[q] = work[q]
  BY HardeningMoves DEF H!CleanClone, H!After, H!Left, H!Places, H!Unclone, H!Cloning
<1>2. H!TypeOK'
  <2>1. row' \in [H!Runs -> H!Statuses]
    BY <1>1, HardeningTyped
    DEF H!CleanClone, H!Set, H!Thread, H!Idle, H!Statuses, H!Active, H!rowVars
  <2>2. phase' \in [H!Runs -> {1, 2}]
    BY <1>1, HardeningTyped DEF H!CleanClone, H!Thread, H!Idle, H!rowVars
  <2>3. stop' \in [H!Runs -> BOOLEAN]
    BY <1>1 DEF H!CleanClone, H!Thread, H!Idle, H!rowVars, H!IInv, H!TypeOK
  <2>4. restart' \in [H!Runs -> BOOLEAN]
    BY <1>1 DEF H!CleanClone, H!Thread, H!Idle, H!rowVars, H!IInv, H!TypeOK
  <2>5. rated' \in [H!Runs -> H!Ratings]
    BY <1>1, HardeningTyped, HardeningNames
    DEF H!CleanClone, H!Thread, H!Idle, H!rowVars, H!Works
  <2>6. clone' \in [H!Runs -> [row : BOOLEAN, guest : BOOLEAN]]
    BY <1>1, HardeningTyped DEF H!CleanClone, H!Thread, H!Idle, H!rowVars
  <2>7. lock' \in {"none", "clone", "cleanup", "other"}
    BY <1>1 DEF H!CleanClone, H!Thread, H!Idle, H!rowVars, H!IInv, H!TypeOK
  <2>. QED BY <2>1, <2>2, <2>3, <2>4, <2>5, <2>6, <2>7 DEF H!TypeOK
<1>3. H!LockInv'
  BY <1>1, HardeningTyped, HardeningNames, SMTT(10)
  DEF H!IInv, H!LockInv, H!CleanClone, H!At, H!Goes, H!Thread, H!Works, H!Cleanups,
      H!Pasts
<1>4. H!RecordsOK'
  <2>1. work' \in [H!Runs -> H!Works]
    BY <1>1, HardeningTyped
  <2>2. cleanup' \in H!Cleanups
    BY HardeningTyped, HardeningNames
    DEF H!CleanClone, H!Cleanups, H!Thread, H!Swept, H!Retried, H!Due, H!Reads,
        H!Interrupted, H!ClonesOf, H!vars
  <2>3. before' \in H!Pasts
    BY HardeningTyped, HardeningNames
    DEF H!CleanClone, H!Pasts, H!Forgets, H!Cleanups, H!Live, H!Thread
  <2>. QED BY <2>1, <2>2, <2>3 DEF H!RecordsOK
<1>5. H!RunInv'
  <2>1. row' = row /\ phase' = phase
    BY DEF H!CleanClone, H!Thread
  <2>2. \A q \in H!Runs \ {r} : clone'[q] = clone[q]
    BY HardeningTyped DEF H!CleanClone
  <2>3. work[r].at = "cleaning" /\ work'[r].at = "dropping" /\ work'[r].has = work[r].has
    BY <1>1 DEF H!CleanClone, H!At
  <2>. QED BY <1>1, <2>1, <2>2, <2>3
         DEF H!IInv, H!RunInv, H!At, H!Rest, H!Unclone, H!Cloning
<1>6. H!TestInv'
  BY <1>1, HardeningTyped, HardeningNames, SMTT(10)
  DEF H!IInv, H!TestInv, H!CleanClone, H!At, H!Goes, H!Live, H!Thread, H!Works,
      H!Cleanups, H!Pasts
<1>7. H!CleanupInv'
  BY <1>1, HardeningTyped, HardeningNames, SMTT(10)
  DEF H!IInv, H!CleanupInv, H!CleanClone, H!At, H!Goes, H!Live, H!Thread, H!Found,
      H!Active, H!Works, H!Cleanups, H!Pasts
<1>8. H!VerdictsAreTested'
  <2>1. row' = row /\ phase' = phase /\ before' = before
    BY DEF H!CleanClone, H!Thread
  <2>2. \A q \in H!Runs : row[q] \notin H!Active => rated'[q] = rated[q]
    BY HardeningTyped DEF H!CleanClone
  <2>3. \A q \in H!Runs : rated'[q] = rated[q] \/ rated'[q] = work[q].mine
    BY HardeningTyped DEF H!CleanClone
  <2>. QED BY <2>1, <2>2, <2>3
         DEF H!IInv, H!VerdictsAreTested, H!TestInv, H!Rest, H!Active
<1>9. H!ClonesAreRemoved'
  BY <1>1, SMTT(10)
  DEF H!IInv, H!ClonesAreRemoved, H!CleanClone, H!At, H!Goes, H!Live, H!Thread
<1>. QED BY <1>2, <1>3, <1>4, <1>5, <1>6, <1>7, <1>8, <1>9 DEF H!IInv

LEMMA Hardening_CleanFails ==
  ASSUME H!HardeningAssumption, H!IInv, NEW r \in H!Runs,
         H!CleanFails(r)
  PROVE  H!IInv'
<1>1. /\ work' \in [H!Runs -> H!Works] /\ work'[r] = [at |-> "over",
                                                      mine |-> work[r].mine,
                                                      saw |-> work[r].saw,
                                                      has |-> work[r].has]
      /\ \A q \in H!Runs \ {r} : work'[q] = work[q]
  BY HardeningMoves DEF H!CleanFails, H!After, H!Left, H!Places, H!Unclone, H!Cloning
<1>2. H!TypeOK'
  BY <1>1, SMTT(10)
  DEF H!IInv, H!TypeOK, H!CleanFails, H!At, H!Goes, H!Fault, H!Forgets, H!Thread,
      H!Active
<1>3. H!LockInv'
  BY <1>1, HardeningTyped, HardeningNames, SMTT(10)
  DEF H!IInv, H!LockInv, H!CleanFails, H!At, H!Goes, H!Fault, H!Forgets, H!Thread,
      H!Works, H!Cleanups, H!Pasts
<1>4. H!RecordsOK'
  <2>1. work' \in [H!Runs -> H!Works]
    BY <1>1, HardeningTyped
  <2>2. cleanup' \in H!Cleanups
    BY HardeningTyped, HardeningNames
    DEF H!CleanFails, H!Cleanups, H!Thread, H!Swept, H!Retried, H!Due, H!Reads,
        H!Interrupted, H!ClonesOf, H!vars
  <2>3. before' \in H!Pasts
    BY HardeningTyped, HardeningNames
    DEF H!CleanFails, H!Pasts, H!Forgets, H!Cleanups, H!Live, H!Thread
  <2>. QED BY <2>1, <2>2, <2>3 DEF H!RecordsOK
<1>5. H!RunInv'
  BY <1>1, SMTT(10)
  DEF H!IInv, H!RunInv, H!CleanFails, H!At, H!Goes, H!Fault, H!Forgets, H!Thread,
      H!Rest, H!NoClone, H!Unclone, H!Cloning
<1>6. H!TestInv'
  BY <1>1, HardeningTyped, HardeningNames, SMTT(10)
  DEF H!IInv, H!TestInv, H!CleanFails, H!At, H!Goes, H!Live, H!Fault, H!Forgets,
      H!Thread, H!Works, H!Cleanups, H!Pasts
<1>7. H!CleanupInv'
  BY <1>1, SMTT(10)
  DEF H!IInv, H!CleanupInv, H!CleanFails, H!At, H!Goes, H!Live, H!Fault, H!Forgets,
      H!Thread, H!Found, H!Active
<1>8. H!VerdictsAreTested'
  BY <1>1, SMTT(10)
  DEF H!IInv, H!VerdictsAreTested, H!CleanFails, H!At, H!Goes, H!Fault, H!Forgets,
      H!Thread, H!Rest
<1>9. H!ClonesAreRemoved'
  BY <1>1, SMTT(10)
  DEF H!IInv, H!ClonesAreRemoved, H!CleanFails, H!At, H!Goes, H!Live, H!Fault,
      H!Forgets, H!Thread
<1>. QED BY <1>2, <1>3, <1>4, <1>5, <1>6, <1>7, <1>8, <1>9 DEF H!IInv

LEMMA Hardening_DropClone ==
  ASSUME H!HardeningAssumption, H!IInv, NEW r \in H!Runs,
         H!DropClone(r)
  PROVE  H!IInv'
<1>1. /\ work' \in [H!Runs -> H!Works] /\ work'[r] = [at |-> "over",
                                                      mine |-> work[r].mine,
                                                      saw |-> work[r].saw,
                                                      has |-> work[r].has]
      /\ \A q \in H!Runs \ {r} : work'[q] = work[q]
  BY HardeningMoves DEF H!DropClone, H!After, H!Left, H!Places, H!Unclone, H!Cloning
<1>2. H!TypeOK'
  <2>1. row' \in [H!Runs -> H!Statuses]
    BY <1>1, HardeningTyped
    DEF H!DropClone, H!Set, H!Thread, H!Idle, H!Statuses, H!Active, H!rowVars
  <2>2. phase' \in [H!Runs -> {1, 2}]
    BY <1>1, HardeningTyped DEF H!DropClone, H!Thread, H!Idle, H!rowVars
  <2>3. stop' \in [H!Runs -> BOOLEAN]
    BY <1>1 DEF H!DropClone, H!Thread, H!Idle, H!rowVars, H!IInv, H!TypeOK
  <2>4. restart' \in [H!Runs -> BOOLEAN]
    BY <1>1 DEF H!DropClone, H!Thread, H!Idle, H!rowVars, H!IInv, H!TypeOK
  <2>5. rated' \in [H!Runs -> H!Ratings]
    BY <1>1, HardeningTyped, HardeningNames
    DEF H!DropClone, H!Thread, H!Idle, H!rowVars, H!Works
  <2>6. clone' \in [H!Runs -> [row : BOOLEAN, guest : BOOLEAN]]
    BY <1>1, HardeningTyped DEF H!DropClone, H!Thread, H!Idle, H!rowVars
  <2>7. lock' \in {"none", "clone", "cleanup", "other"}
    BY <1>1 DEF H!DropClone, H!Thread, H!Idle, H!rowVars, H!IInv, H!TypeOK
  <2>. QED BY <2>1, <2>2, <2>3, <2>4, <2>5, <2>6, <2>7 DEF H!TypeOK
<1>3. H!LockInv'
  BY <1>1, HardeningTyped, HardeningNames, SMTT(10)
  DEF H!IInv, H!LockInv, H!DropClone, H!At, H!Goes, H!Thread, H!Works, H!Cleanups,
      H!Pasts
<1>4. H!RecordsOK'
  <2>1. work' \in [H!Runs -> H!Works]
    BY <1>1, HardeningTyped
  <2>2. cleanup' \in H!Cleanups
    BY HardeningTyped, HardeningNames
    DEF H!DropClone, H!Cleanups, H!Thread, H!Swept, H!Retried, H!Due, H!Reads,
        H!Interrupted, H!ClonesOf, H!vars
  <2>3. before' \in H!Pasts
    BY HardeningTyped, HardeningNames
    DEF H!DropClone, H!Pasts, H!Forgets, H!Cleanups, H!Live, H!Thread
  <2>. QED BY <2>1, <2>2, <2>3 DEF H!RecordsOK
<1>5. H!RunInv'
  BY <1>1, SMTT(10)
  DEF H!IInv, H!RunInv, H!DropClone, H!At, H!Goes, H!Thread, H!Rest, H!NoClone,
      H!Unclone, H!Cloning
<1>6. H!TestInv'
  BY <1>1, HardeningTyped, HardeningNames, SMTT(10)
  DEF H!IInv, H!TestInv, H!DropClone, H!At, H!Goes, H!Live, H!Thread, H!Works,
      H!Cleanups, H!Pasts
<1>7. H!CleanupInv'
  BY <1>1, HardeningTyped, HardeningNames, SMTT(10)
  DEF H!IInv, H!CleanupInv, H!DropClone, H!At, H!Goes, H!Live, H!Thread, H!Found,
      H!Active, H!Works, H!Cleanups, H!Pasts
<1>8. H!VerdictsAreTested'
  BY <1>1, SMTT(10)
  DEF H!IInv, H!VerdictsAreTested, H!DropClone, H!At, H!Goes, H!Thread, H!Rest
<1>9. H!ClonesAreRemoved'
  BY <1>1, HardeningTyped, HardeningNames, SMTT(10)
  DEF H!IInv, H!RunInv, H!TestInv, H!ClonesAreRemoved, H!DropClone, H!At, H!Goes,
      H!Live, H!Thread, H!Rest, H!NoClone, H!Unclone, H!Cloning, H!Works, H!Cleanups,
      H!Pasts
<1>. QED BY <1>2, <1>3, <1>4, <1>5, <1>6, <1>7, <1>8, <1>9 DEF H!IInv

LEMMA Hardening_CleanupBegins ==
  ASSUME H!HardeningAssumption, H!IInv,
         H!CleanupBegins
  PROVE  H!IInv'
<1>1. work' = work
  BY DEF H!CleanupBegins, H!Idle, H!vars, H!rowVars
<1>2. H!TypeOK'
  BY <1>1, SMTT(10) DEF H!IInv, H!TypeOK, H!CleanupBegins, H!Idle, H!Swept, H!Active
<1>3. H!LockInv'
  BY <1>1, SMTT(10) DEF H!IInv, H!LockInv, H!CleanupBegins, H!At, H!Idle, H!Swept
<1>4. H!RecordsOK'
  <2>1. work' \in [H!Runs -> H!Works]
    BY <1>1, HardeningTyped
  <2>2. cleanup' \in H!Cleanups
    BY HardeningTyped, HardeningNames
    DEF H!CleanupBegins, H!Cleanups, H!Thread, H!Swept, H!Retried, H!Due, H!Reads,
        H!Interrupted, H!ClonesOf, H!vars
  <2>3. before' \in H!Pasts
    BY HardeningTyped, HardeningNames
    DEF H!CleanupBegins, H!Pasts, H!Forgets, H!Cleanups, H!Live, H!Thread
  <2>. QED BY <2>1, <2>2, <2>3 DEF H!RecordsOK
<1>5. H!RunInv'
  BY <1>1, SMTT(10)
  DEF H!IInv, H!RunInv, H!CleanupBegins, H!At, H!Idle, H!Swept, H!Rest, H!NoClone,
      H!Unclone, H!Cloning
<1>6. H!TestInv'
  BY <1>1, SMTT(10)
  DEF H!IInv, H!TestInv, H!CleanupBegins, H!At, H!Live, H!Idle, H!Swept
<1>7. H!CleanupInv'
  BY <1>1, SMTT(10)
  DEF H!IInv, H!CleanupInv, H!CleanupBegins, H!Live, H!Idle, H!Swept, H!Found, H!Active
<1>8. H!VerdictsAreTested'
  BY <1>1, SMTT(10)
  DEF H!IInv, H!VerdictsAreTested, H!CleanupBegins, H!Idle, H!Swept, H!Rest
<1>9. H!ClonesAreRemoved'
  BY <1>1, SMTT(10)
  DEF H!IInv, H!ClonesAreRemoved, H!CleanupBegins, H!Live, H!Idle, H!Swept
<1>. QED BY <1>2, <1>3, <1>4, <1>5, <1>6, <1>7, <1>8, <1>9 DEF H!IInv

LEMMA Hardening_CleanupBusy ==
  ASSUME H!HardeningAssumption, H!IInv,
         H!CleanupBusy
  PROVE  H!IInv'
<1>1. work' = work
  BY DEF H!CleanupBusy, H!Idle, H!vars, H!rowVars
<1>2. H!TypeOK'
  BY <1>1, SMTT(10)
  DEF H!IInv, H!TypeOK, H!CleanupBusy, H!Idle, H!Serves, H!Retried, H!Active
<1>3. H!LockInv'
  BY <1>1, SMTT(10)
  DEF H!IInv, H!LockInv, H!CleanupBusy, H!At, H!Idle, H!Serves, H!Retried
<1>4. H!RecordsOK'
  <2>1. work' \in [H!Runs -> H!Works]
    BY <1>1, HardeningTyped
  <2>2. cleanup' \in H!Cleanups
    <3>1. cleanup' = [at |-> IF cleanup.tries < MaxTries THEN "due" ELSE "abandoned",
                    tries |-> cleanup.tries + 1, runs |-> {}, clones |-> {}]
      BY DEF H!CleanupBusy, H!Retried, H!Due
    <3>. QED BY <3>1, HardeningTyped DEF H!Cleanups
  <2>3. before' \in H!Pasts
    BY HardeningTyped, HardeningNames
    DEF H!CleanupBusy, H!Pasts, H!Forgets, H!Cleanups, H!Live, H!Thread
  <2>. QED BY <2>1, <2>2, <2>3 DEF H!RecordsOK
<1>5. H!RunInv'
  BY <1>1, SMTT(10)
  DEF H!IInv, H!RunInv, H!CleanupBusy, H!At, H!Idle, H!Serves, H!Retried, H!Rest,
      H!NoClone, H!Unclone, H!Cloning
<1>6. H!TestInv'
  BY <1>1, SMTT(10)
  DEF H!IInv, H!TestInv, H!CleanupBusy, H!At, H!Live, H!Idle, H!Serves, H!Retried
<1>7. H!CleanupInv'
  BY <1>1, SMTT(10)
  DEF H!IInv, H!CleanupInv, H!CleanupBusy, H!Live, H!Idle, H!Serves, H!Retried,
      H!Found, H!Active, H!Due
<1>8. H!VerdictsAreTested'
  BY <1>1, SMTT(10)
  DEF H!IInv, H!VerdictsAreTested, H!CleanupBusy, H!Idle, H!Serves, H!Retried, H!Rest
<1>9. H!ClonesAreRemoved'
  BY <1>1, SMTT(10)
  DEF H!IInv, H!ClonesAreRemoved, H!CleanupBusy, H!Live, H!Idle, H!Serves, H!Retried
<1>. QED BY <1>2, <1>3, <1>4, <1>5, <1>6, <1>7, <1>8, <1>9 DEF H!IInv

LEMMA Hardening_CleanupReads ==
  ASSUME H!HardeningAssumption, H!IInv,
         H!CleanupReads
  PROVE  H!IInv'
<1>1. CASE H!Reads = {}
  <2>1. work' = work
    BY DEF H!CleanupReads, H!Idle, H!vars, H!rowVars
  <2>2. H!TypeOK'
    BY <1>1, <2>1, SMTT(10)
    DEF H!IInv, H!TypeOK, H!CleanupReads, H!Idle, H!Swept, H!Serves, H!Interrupted,
        H!ClonesOf, H!Reads, H!Active
  <2>3. H!LockInv'
    BY <1>1, <2>1, HardeningTyped, HardeningNames, SMTT(10)
    DEF H!IInv, H!LockInv, H!CleanupReads, H!At, H!Idle, H!Swept, H!Serves,
        H!Interrupted, H!ClonesOf, H!Reads, H!Active, H!Works, H!Cleanups, H!Pasts
  <2>4. H!RecordsOK'
    <3>1. work' \in [H!Runs -> H!Works]
      BY <1>1, <2>1, HardeningTyped
    <3>2. cleanup' \in H!Cleanups
      <4>1. cleanup' = [cleanup EXCEPT !.at = "done"]
        BY <1>1 DEF H!CleanupReads, H!Swept
      <4>. QED BY <4>1, HardeningTyped DEF H!Cleanups
    <3>3. before' \in H!Pasts
      BY <1>1, HardeningTyped, HardeningNames
      DEF H!CleanupReads, H!Pasts, H!Forgets, H!Cleanups, H!Live, H!Thread
    <3>. QED BY <3>1, <3>2, <3>3 DEF H!RecordsOK
  <2>5. H!RunInv'
    BY <1>1, <2>1, SMTT(10)
    DEF H!IInv, H!RunInv, H!CleanupReads, H!At, H!Idle, H!Swept, H!Serves, H!Rest,
        H!Interrupted, H!ClonesOf, H!Reads, H!Active, H!NoClone, H!Unclone, H!Cloning
  <2>6. H!TestInv'
    BY <1>1, <2>1, SMTT(10)
    DEF H!IInv, H!TestInv, H!CleanupReads, H!At, H!Live, H!Idle, H!Swept, H!Serves,
        H!Interrupted, H!ClonesOf, H!Reads, H!Active
  <2>7. H!CleanupInv'
    <3>1. UNCHANGED <<row, clone, before>> /\ cleanup.at = "reading"
      BY DEF H!CleanupReads
    <3>2. cleanup'.at = "done" /\ UNCHANGED <<cleanup.runs, cleanup.clones>>
      BY <1>1, HardeningTyped DEF H!CleanupReads, H!Swept, H!Cleanups
    <3>3. \A q \in H!Runs : ~H!Found(q)
      BY <1>1, <3>1 DEF H!Found, H!Reads, H!Interrupted
    <3>. QED BY <2>1, <3>1, <3>2, <3>3 DEF H!IInv, H!CleanupInv, H!Live
  <2>8. H!VerdictsAreTested'
    BY <1>1, <2>1, SMTT(10)
    DEF H!IInv, H!VerdictsAreTested, H!CleanupReads, H!Idle, H!Swept, H!Serves, H!Rest,
        H!Interrupted, H!ClonesOf, H!Reads, H!Active
  <2>9. H!ClonesAreRemoved'
    BY <1>1, <2>1, SMTT(10)
    DEF H!IInv, H!RunInv, H!TestInv, H!CleanupInv, H!ClonesAreRemoved, H!CleanupReads,
        H!At, H!Live, H!Idle, H!Swept, H!Serves, H!Rest, H!Interrupted, H!ClonesOf,
        H!Reads, H!Found, H!Active, H!NoClone, H!Unclone, H!Cloning
  <2>. QED BY <2>2, <2>3, <2>4, <2>5, <2>6, <2>7, <2>8, <2>9 DEF H!IInv
<1>2. CASE H!Reads # {}
  <2>1. work' = work
    BY DEF H!CleanupReads, H!Idle, H!vars, H!rowVars
  <2>2. H!TypeOK'
    BY <1>2, <2>1, SMTT(10)
    DEF H!IInv, H!TypeOK, H!CleanupReads, H!Idle, H!Swept, H!Serves, H!Interrupted,
        H!ClonesOf, H!Reads, H!Active
  <2>3. H!LockInv'
    <3>1. /\ cleanup.at = "reading" /\ lock = "cleanup" /\ cleanup'.at = "marking"
          /\ cleanup'.runs = H!Reads /\ cleanup'.clones = H!ClonesOf(H!Reads)
      BY <1>2, <2>1, HardeningTyped DEF H!CleanupReads, H!Cleanups, H!IInv, H!LockInv
    <3>2. UNCHANGED <<row, rated, phase, work, clone, lock, before>>
      BY <1>2, <2>1 DEF H!CleanupReads, H!Idle
    <3>. QED BY <3>1, <3>2 DEF H!IInv, H!LockInv, H!At
  <2>4. H!RecordsOK'
    <3>1. work' \in [H!Runs -> H!Works]
      BY <1>2, <2>1, HardeningTyped
    <3>2. cleanup' \in H!Cleanups
      <4>1. cleanup' = [cleanup EXCEPT !.at = "marking", !.runs = H!Reads, !.clones = H!ClonesOf(H!Reads)]
        BY <1>2 DEF H!CleanupReads
      <4>2. H!Reads \in SUBSET H!Runs /\ H!ClonesOf(H!Reads) \in SUBSET H!Runs
        BY DEF H!Reads, H!Interrupted, H!ClonesOf
      <4>. QED BY <4>1, <4>2, HardeningTyped DEF H!Cleanups
    <3>3. before' \in H!Pasts
      BY <1>2, HardeningTyped, HardeningNames
      DEF H!CleanupReads, H!Pasts, H!Forgets, H!Cleanups, H!Live, H!Thread
    <3>. QED BY <3>1, <3>2, <3>3 DEF H!RecordsOK
  <2>5. H!RunInv'
    BY <1>2, <2>1, SMTT(10)
    DEF H!IInv, H!RunInv, H!CleanupReads, H!At, H!Idle, H!Swept, H!Serves, H!Rest,
        H!Interrupted, H!ClonesOf, H!Reads, H!Active, H!NoClone, H!Unclone, H!Cloning
  <2>6. H!TestInv'
    BY <1>2, <2>1, SMTT(10)
    DEF H!IInv, H!TestInv, H!CleanupReads, H!At, H!Live, H!Idle, H!Swept, H!Serves,
        H!Interrupted, H!ClonesOf, H!Reads, H!Active
  <2>7. H!CleanupInv'
    <3>1. /\ cleanup.at = "reading" /\ lock = "cleanup" /\ cleanup'.at = "marking"
          /\ cleanup'.runs = H!Reads /\ cleanup'.clones = H!ClonesOf(H!Reads)
      BY <1>2, <2>1, HardeningTyped DEF H!CleanupReads, H!Cleanups, H!IInv, H!LockInv
    <3>2. UNCHANGED <<row, rated, phase, work, clone, lock, before>>
      BY <1>2, <2>1 DEF H!CleanupReads, H!Idle
    <3>3. \A q \in H!Runs : clone[q].row /\ ~H!Live(q) => row[q] \in H!Active \/ q \in before.forgotten
      BY <3>1 DEF H!IInv, H!CleanupInv, H!Found
    <3>. QED BY <3>1, <3>2, <3>3
           DEF H!CleanupInv, H!Reads, H!Interrupted, H!ClonesOf, H!Found, H!Live, H!Active
  <2>8. H!VerdictsAreTested'
    BY <1>2, <2>1, SMTT(10)
    DEF H!IInv, H!VerdictsAreTested, H!CleanupReads, H!Idle, H!Swept, H!Serves, H!Rest,
        H!Interrupted, H!ClonesOf, H!Reads, H!Active
  <2>9. H!ClonesAreRemoved'
    <3>1. /\ cleanup.at = "reading" /\ lock = "cleanup" /\ cleanup'.at = "marking"
          /\ cleanup'.runs = H!Reads /\ cleanup'.clones = H!ClonesOf(H!Reads)
      BY <1>2, <2>1, HardeningTyped DEF H!CleanupReads, H!Cleanups, H!IInv, H!LockInv
    <3>2. UNCHANGED <<row, rated, phase, work, clone, lock, before>>
      BY <1>2, <2>1 DEF H!CleanupReads, H!Idle
    <3>. QED BY <3>1, <3>2 DEF H!IInv, H!ClonesAreRemoved, H!Live
  <2>. QED BY <2>2, <2>3, <2>4, <2>5, <2>6, <2>7, <2>8, <2>9 DEF H!IInv
<1>. QED BY <1>1, <1>2

LEMMA Hardening_CleanupMarks ==
  ASSUME H!HardeningAssumption, H!IInv,
         H!CleanupMarks
  PROVE  H!IInv'
<1>1. work' = work
  BY DEF H!CleanupMarks, H!Idle, H!vars, H!rowVars
<1>2. H!TypeOK'
  <2>1. row' \in [H!Runs -> H!Statuses]
    BY <1>1, HardeningTyped
    DEF H!CleanupMarks, H!Set, H!Thread, H!Idle, H!Statuses, H!Active, H!rowVars
  <2>2. phase' \in [H!Runs -> {1, 2}]
    BY <1>1, HardeningTyped DEF H!CleanupMarks, H!Thread, H!Idle, H!rowVars
  <2>3. stop' \in [H!Runs -> BOOLEAN]
    BY <1>1 DEF H!CleanupMarks, H!Thread, H!Idle, H!rowVars, H!IInv, H!TypeOK
  <2>4. restart' \in [H!Runs -> BOOLEAN]
    BY <1>1 DEF H!CleanupMarks, H!Thread, H!Idle, H!rowVars, H!IInv, H!TypeOK
  <2>5. rated' \in [H!Runs -> H!Ratings]
    BY <1>1, HardeningTyped, HardeningNames
    DEF H!CleanupMarks, H!Thread, H!Idle, H!rowVars, H!Works
  <2>6. clone' \in [H!Runs -> [row : BOOLEAN, guest : BOOLEAN]]
    BY <1>1, HardeningTyped DEF H!CleanupMarks, H!Thread, H!Idle, H!rowVars
  <2>7. lock' \in {"none", "clone", "cleanup", "other"}
    BY <1>1 DEF H!CleanupMarks, H!Thread, H!Idle, H!rowVars, H!IInv, H!TypeOK
  <2>. QED BY <2>1, <2>2, <2>3, <2>4, <2>5, <2>6, <2>7 DEF H!TypeOK
<1>3. H!LockInv'
  BY <1>1, SMTT(10) DEF H!IInv, H!LockInv, H!CleanupMarks, H!At, H!Live, H!Idle, H!Swept
<1>4. H!RecordsOK'
  <2>1. work' \in [H!Runs -> H!Works]
    BY <1>1, HardeningTyped
  <2>2. cleanup' \in H!Cleanups
    BY HardeningTyped, HardeningNames
    DEF H!CleanupMarks, H!Cleanups, H!Thread, H!Swept, H!Retried, H!Due, H!Reads,
        H!Interrupted, H!ClonesOf, H!vars
  <2>3. before' \in H!Pasts
    BY HardeningTyped, HardeningNames
    DEF H!CleanupMarks, H!Pasts, H!Forgets, H!Cleanups, H!Live, H!Thread
  <2>. QED BY <2>1, <2>2, <2>3 DEF H!RecordsOK
<1>5. H!RunInv'
  BY <1>1, SMTT(10)
  DEF H!IInv, H!RunInv, H!TestInv, H!CleanupInv, H!CleanupMarks, H!At, H!Live, H!Idle,
      H!Swept, H!Rest, H!Found, H!Active, H!NoClone, H!Unclone, H!Cloning
<1>6. H!TestInv'
  BY <1>1, SMTT(10) DEF H!IInv, H!TestInv, H!CleanupMarks, H!At, H!Live, H!Idle, H!Swept
<1>7. H!CleanupInv'
  BY <1>1, HardeningTyped, HardeningNames, SMTT(10)
  DEF H!IInv, H!CleanupInv, H!CleanupMarks, H!Live, H!Idle, H!Swept, H!Found, H!Active,
      H!Works, H!Cleanups, H!Pasts
<1>8. H!VerdictsAreTested'
  BY <1>1, SMTT(10)
  DEF H!IInv, H!VerdictsAreTested, H!CleanupMarks, H!Live, H!Idle, H!Swept, H!Rest
<1>9. H!ClonesAreRemoved'
  BY <1>1, SMTT(10)
  DEF H!IInv, H!ClonesAreRemoved, H!CleanupMarks, H!Live, H!Idle, H!Swept
<1>. QED BY <1>2, <1>3, <1>4, <1>5, <1>6, <1>7, <1>8, <1>9 DEF H!IInv

LEMMA Hardening_CleanupFails ==
  ASSUME H!HardeningAssumption, H!IInv,
         H!CleanupFails
  PROVE  H!IInv'
<1>1. CASE cleanup.at = "deleting"
  <2>1. work' = work
    BY DEF H!CleanupFails, H!Idle, H!vars, H!rowVars
  <2>2. H!TypeOK'
    BY <1>1, <2>1, SMTT(10)
    DEF H!IInv, H!TypeOK, H!CleanupFails, H!Fault, H!Forgets, H!Idle, H!Serves,
        H!Retried, H!Active
  <2>3. H!LockInv'
    BY <1>1, <2>1, SMTT(10)
    DEF H!IInv, H!LockInv, H!CleanupFails, H!At, H!Fault, H!Forgets, H!Idle, H!Serves,
        H!Retried
  <2>4. H!RecordsOK'
    <3>1. work' \in [H!Runs -> H!Works]
      BY <1>1, <2>1, HardeningTyped
    <3>2. cleanup' \in H!Cleanups
      <4>1. cleanup' = [at |-> IF cleanup.tries < MaxTries THEN "due" ELSE "abandoned",
                      tries |-> cleanup.tries + 1, runs |-> {}, clones |-> {}]
        BY DEF H!CleanupFails, H!Retried, H!Due
      <4>. QED BY <4>1, HardeningTyped DEF H!Cleanups
    <3>3. before' \in H!Pasts
      BY <1>1, HardeningTyped, HardeningNames
      DEF H!CleanupFails, H!Pasts, H!Forgets, H!Cleanups, H!Live, H!Thread
    <3>. QED BY <3>1, <3>2, <3>3 DEF H!RecordsOK
  <2>5. H!RunInv'
    BY <1>1, <2>1, SMTT(10)
    DEF H!IInv, H!RunInv, H!CleanupFails, H!At, H!Fault, H!Forgets, H!Idle, H!Serves,
        H!Retried, H!Rest, H!NoClone, H!Unclone, H!Cloning
  <2>6. H!TestInv'
    BY <1>1, <2>1, HardeningTyped, HardeningNames, SMTT(10)
    DEF H!IInv, H!TestInv, H!CleanupFails, H!At, H!Live, H!Fault, H!Forgets, H!Idle,
        H!Serves, H!Retried, H!Works, H!Cleanups, H!Pasts
  <2>7. H!CleanupInv'
    BY <1>1, <2>1, HardeningTyped, HardeningNames, SMTT(10)
    DEF H!IInv, H!CleanupInv, H!CleanupFails, H!Live, H!Fault, H!Forgets, H!Idle,
        H!Serves, H!Retried, H!Found, H!Active, H!Due, H!Works, H!Cleanups, H!Pasts
  <2>8. H!VerdictsAreTested'
    <3>1. row' = row /\ phase' = phase /\ rated' = rated
      BY DEF H!CleanupFails, H!Idle
    <3>2. before'.taken = before.taken
      BY <1>1, HardeningTyped DEF H!CleanupFails, H!Forgets, H!Pasts
    <3>. QED BY <3>1, <3>2 DEF H!IInv, H!VerdictsAreTested, H!Rest
  <2>9. H!ClonesAreRemoved'
    BY <1>1, <2>1, HardeningTyped, HardeningNames, SMTT(10)
    DEF H!IInv, H!ClonesAreRemoved, H!CleanupFails, H!Live, H!Fault, H!Forgets, H!Idle,
        H!Serves, H!Retried, H!Works, H!Cleanups, H!Pasts
  <2>. QED BY <2>2, <2>3, <2>4, <2>5, <2>6, <2>7, <2>8, <2>9 DEF H!IInv
<1>2. CASE cleanup.at # "deleting"
  <2>1. work' = work
    BY DEF H!CleanupFails, H!Idle, H!vars, H!rowVars
  <2>2. H!TypeOK'
    BY <1>2, <2>1, SMTT(10)
    DEF H!IInv, H!TypeOK, H!CleanupFails, H!Fault, H!Forgets, H!Idle, H!Serves,
        H!Retried, H!Active
  <2>3. H!LockInv'
    BY <1>2, <2>1, SMTT(10)
    DEF H!IInv, H!LockInv, H!CleanupFails, H!At, H!Fault, H!Forgets, H!Idle, H!Serves,
        H!Retried
  <2>4. H!RecordsOK'
    <3>1. work' \in [H!Runs -> H!Works]
      BY <1>2, <2>1, HardeningTyped
    <3>2. cleanup' \in H!Cleanups
      <4>1. cleanup' = [at |-> IF cleanup.tries < MaxTries THEN "due" ELSE "abandoned",
                      tries |-> cleanup.tries + 1, runs |-> {}, clones |-> {}]
        BY DEF H!CleanupFails, H!Retried, H!Due
      <4>. QED BY <4>1, HardeningTyped DEF H!Cleanups
    <3>3. before' \in H!Pasts
      BY <1>2, HardeningTyped, HardeningNames
      DEF H!CleanupFails, H!Pasts, H!Forgets, H!Cleanups, H!Live, H!Thread
    <3>. QED BY <3>1, <3>2, <3>3 DEF H!RecordsOK
  <2>5. H!RunInv'
    BY <1>2, <2>1, SMTT(10)
    DEF H!IInv, H!RunInv, H!CleanupFails, H!At, H!Fault, H!Forgets, H!Idle, H!Serves,
        H!Retried, H!Rest, H!NoClone, H!Unclone, H!Cloning
  <2>6. H!TestInv'
    BY <1>2, <2>1, SMTT(10)
    DEF H!IInv, H!TestInv, H!CleanupFails, H!At, H!Live, H!Fault, H!Forgets, H!Idle,
        H!Serves, H!Retried
  <2>7. H!CleanupInv'
    BY <1>2, <2>1, SMTT(10)
    DEF H!IInv, H!CleanupInv, H!CleanupFails, H!Live, H!Fault, H!Forgets, H!Idle,
        H!Serves, H!Retried, H!Found, H!Active, H!Due
  <2>8. H!VerdictsAreTested'
    BY <1>2, <2>1, SMTT(10)
    DEF H!IInv, H!VerdictsAreTested, H!CleanupFails, H!Fault, H!Forgets, H!Idle,
        H!Serves, H!Retried, H!Rest
  <2>9. H!ClonesAreRemoved'
    BY <1>2, <2>1, SMTT(10)
    DEF H!IInv, H!ClonesAreRemoved, H!CleanupFails, H!Live, H!Fault, H!Forgets, H!Idle,
        H!Serves, H!Retried
  <2>. QED BY <2>2, <2>3, <2>4, <2>5, <2>6, <2>7, <2>8, <2>9 DEF H!IInv
<1>. QED BY <1>1, <1>2

LEMMA Hardening_CleanupRemoves ==
  ASSUME H!HardeningAssumption, H!IInv, NEW failed \in SUBSET H!Runs,
         H!CleanupRemoves(failed)
  PROVE  H!IInv'
<1>1. work' = work
  BY DEF H!CleanupRemoves, H!Idle, H!vars, H!rowVars
<1>2. H!TypeOK'
  <2>1. row' \in [H!Runs -> H!Statuses]
    BY <1>1, HardeningTyped
    DEF H!CleanupRemoves, H!Set, H!Thread, H!Idle, H!Statuses, H!Active, H!rowVars
  <2>2. phase' \in [H!Runs -> {1, 2}]
    BY <1>1, HardeningTyped DEF H!CleanupRemoves, H!Thread, H!Idle, H!rowVars
  <2>3. stop' \in [H!Runs -> BOOLEAN]
    BY <1>1 DEF H!CleanupRemoves, H!Thread, H!Idle, H!rowVars, H!IInv, H!TypeOK
  <2>4. restart' \in [H!Runs -> BOOLEAN]
    BY <1>1 DEF H!CleanupRemoves, H!Thread, H!Idle, H!rowVars, H!IInv, H!TypeOK
  <2>5. rated' \in [H!Runs -> H!Ratings]
    BY <1>1, HardeningTyped, HardeningNames
    DEF H!CleanupRemoves, H!Thread, H!Idle, H!rowVars, H!Works
  <2>6. clone' \in [H!Runs -> [row : BOOLEAN, guest : BOOLEAN]]
    BY <1>1, HardeningTyped DEF H!CleanupRemoves, H!Thread, H!Idle, H!rowVars
  <2>7. lock' \in {"none", "clone", "cleanup", "other"}
    BY <1>1 DEF H!CleanupRemoves, H!Thread, H!Idle, H!rowVars, H!IInv, H!TypeOK
  <2>. QED BY <2>1, <2>2, <2>3, <2>4, <2>5, <2>6, <2>7 DEF H!TypeOK
<1>3. H!LockInv'
  BY <1>1, SMTT(10)
  DEF H!IInv, H!LockInv, H!CleanupRemoves, H!At, H!Fault, H!Forgets, H!Idle
<1>4. H!RecordsOK'
  <2>1. work' \in [H!Runs -> H!Works]
    BY <1>1, HardeningTyped
  <2>2. cleanup' \in H!Cleanups
    BY HardeningTyped, HardeningNames
    DEF H!CleanupRemoves, H!Cleanups, H!Thread, H!Swept, H!Retried, H!Due, H!Reads,
        H!Interrupted, H!ClonesOf, H!vars
  <2>3. before' \in H!Pasts
    BY HardeningTyped, HardeningNames
    DEF H!CleanupRemoves, H!Pasts, H!Forgets, H!Cleanups, H!Live, H!Thread
  <2>. QED BY <2>1, <2>2, <2>3 DEF H!RecordsOK
<1>5. H!RunInv'
  BY <1>1, HardeningTyped, HardeningNames, SMTT(10)
  DEF H!IInv, H!RunInv, H!CleanupRemoves, H!At, H!Fault, H!Forgets, H!Idle, H!Rest,
      H!NoClone, H!Unclone, H!Cloning, H!Works, H!Cleanups, H!Pasts
<1>6. H!TestInv'
  BY <1>1, SMTT(10)
  DEF H!IInv, H!TypeOK, H!LockInv, H!RunInv, H!TestInv, H!CleanupInv,
      H!VerdictsAreTested, H!ClonesAreRemoved, H!CleanupRemoves, H!At, H!Live, H!Fault,
      H!Forgets, H!Idle, H!Rest, H!Found, H!Active, H!NoClone, H!Unclone, H!Cloning
<1>7. H!CleanupInv'
  <2>1. /\ cleanup.at = "removing" /\ failed \subseteq cleanup.clones
        /\ cleanup'.at = "deleting"
        /\ cleanup'.runs = cleanup.runs /\ cleanup'.clones = cleanup.clones \ failed
    BY HardeningTyped DEF H!CleanupRemoves, H!Cleanups
  <2>2. before'.taken = before.taken /\ before'.forgotten = before.forgotten \cup failed
    BY HardeningTyped DEF H!CleanupRemoves, H!Forgets, H!Pasts
  <2>3. row' = row /\ work' = work
    BY DEF H!CleanupRemoves, H!Idle
  <2>4. \A q \in H!Runs : /\ clone'[q].row <=> clone[q].row
                          /\ q \in cleanup.clones \ failed => ~clone'[q].guest
    BY HardeningTyped DEF H!CleanupRemoves
  <2>5. cleanup.runs \cup cleanup.clones \subseteq H!Runs
    BY HardeningTyped DEF H!Cleanups
  <2>6. \A q \in H!Runs : (H!Live(q)' <=> H!Live(q)) /\ (H!Found(q)' <=> q \in cleanup'.clones)
    BY <2>1, <2>3 DEF H!Live, H!Found
  <2>7. \A q \in H!Runs : clone[q].row /\ ~H!Live(q) => q \in cleanup.clones \/ q \in before.forgotten
    BY <2>1 DEF H!IInv, H!CleanupInv, H!Found
  <2>8. \A q \in cleanup.clones : H!Live(q) => q \in before.taken
    BY <2>1 DEF H!IInv, H!CleanupInv
  <2>9. /\ \A q \in cleanup.runs \cup cleanup.clones : row[q] # "none"
        /\ cleanup.clones \subseteq cleanup.runs
    BY DEF H!IInv, H!CleanupInv
  <2>10. \A q \in H!Runs : clone'[q].row /\ ~H!Live(q)' => H!Found(q)' \/ q \in before'.forgotten
    <3>. SUFFICES ASSUME NEW q \in H!Runs, clone'[q].row, ~H!Live(q)'
                  PROVE  H!Found(q)' \/ q \in before'.forgotten
      OBVIOUS
    <3>1. clone[q].row /\ ~H!Live(q)
      BY <1>1, <2>4 DEF H!Live
    <3>2. q \in cleanup.clones \/ q \in before.forgotten
      BY <2>7, <3>1 DEF H!Live
    <3>3. q \in cleanup'.clones \/ q \in before'.forgotten
      BY <2>1, <2>2, <3>2
    <3>. QED BY <2>1, <3>3 DEF H!Found
  <2>11. \A q \in cleanup'.clones : (H!Live(q)' => q \in before'.taken) /\ ~clone'[q].guest
    <3>. SUFFICES ASSUME NEW q \in cleanup.clones \ failed
                  PROVE  (H!Live(q)' => q \in before'.taken) /\ ~clone'[q].guest
      BY <2>1
    <3>1. q \in H!Runs /\ q \in cleanup.clones
      BY <2>5
    <3>2. H!Live(q)' => q \in before'.taken
      BY <1>1, <2>2, <2>8, <3>1 DEF H!Live
    <3>3. ~clone'[q].guest
      BY <2>4, <3>1
    <3>. QED BY <3>2, <3>3
  <2>12. /\ \A q \in cleanup'.runs \cup cleanup'.clones : row'[q] # "none"
         /\ cleanup'.clones \subseteq cleanup'.runs
    BY <2>1, <2>3, <2>9
  <2>. QED BY <2>10, <2>11, <2>12 DEF H!CleanupInv
<1>8. H!VerdictsAreTested'
  BY <1>1, SMTT(10)
  DEF H!IInv, H!VerdictsAreTested, H!CleanupRemoves, H!Fault, H!Forgets, H!Idle, H!Rest
<1>9. H!ClonesAreRemoved'
  BY <1>1, HardeningTyped, HardeningNames, SMTT(10)
  DEF H!IInv, H!ClonesAreRemoved, H!CleanupRemoves, H!Live, H!Fault, H!Forgets, H!Idle,
      H!Works, H!Cleanups, H!Pasts
<1>. QED BY <1>2, <1>3, <1>4, <1>5, <1>6, <1>7, <1>8, <1>9 DEF H!IInv

LEMMA Hardening_CleanupDeletes ==
  ASSUME H!HardeningAssumption, H!IInv,
         H!CleanupDeletes
  PROVE  H!IInv'
<1>1. work' = work
  BY DEF H!CleanupDeletes, H!Idle, H!vars, H!rowVars
<1>2. H!TypeOK'
  BY <1>1, SMTT(10)
  DEF H!IInv, H!TypeOK, H!RunInv, H!TestInv, H!CleanupInv, H!CleanupDeletes, H!At,
      H!Live, H!Idle, H!Swept, H!Serves, H!Rest, H!Found, H!Active, H!NoClone,
      H!Unclone, H!Cloning
<1>3. H!LockInv'
  BY <1>1, SMTT(10)
  DEF H!IInv, H!LockInv, H!CleanupDeletes, H!At, H!Idle, H!Swept, H!Serves
<1>4. H!RecordsOK'
  <2>1. work' \in [H!Runs -> H!Works]
    BY <1>1, HardeningTyped
  <2>2. cleanup' \in H!Cleanups
    BY HardeningTyped, HardeningNames
    DEF H!CleanupDeletes, H!Cleanups, H!Thread, H!Swept, H!Retried, H!Due, H!Reads,
        H!Interrupted, H!ClonesOf, H!vars
  <2>3. before' \in H!Pasts
    BY HardeningTyped, HardeningNames
    DEF H!CleanupDeletes, H!Pasts, H!Forgets, H!Cleanups, H!Live, H!Thread
  <2>. QED BY <2>1, <2>2, <2>3 DEF H!RecordsOK
<1>5. H!RunInv'
  <2>1. row' = row /\ phase' = phase
    BY DEF H!CleanupDeletes, H!Idle
  <2>2. \A q \in H!Runs : clone[q] = H!NoClone => clone'[q] = H!NoClone
    <3>. SUFFICES ASSUME NEW q \in H!Runs, clone[q] = H!NoClone PROVE clone'[q] = H!NoClone
      OBVIOUS
    <3>1. clone'[q] = [clone[q] EXCEPT !.row = @ /\ q \notin cleanup.clones]
      BY DEF H!CleanupDeletes
    <3>2. clone'[q] = [row |-> clone[q].row /\ q \notin cleanup.clones, guest |-> clone[q].guest]
      BY <3>1, HardeningTyped
    <3>3. clone[q].row = FALSE /\ clone[q].guest = FALSE
      BY DEF H!NoClone
    <3>4. (clone[q].row /\ q \notin cleanup.clones) = FALSE
      BY <3>3
    <3>. QED BY <3>2, <3>3, <3>4 DEF H!NoClone
  <2>. QED BY <1>1, <2>1, <2>2 DEF H!IInv, H!RunInv, H!At, H!Rest
<1>6. H!TestInv'
  <2>1. \A q \in H!Runs : /\ clone'[q].guest = clone[q].guest
                          /\ clone'[q].row => clone[q].row
    <3>. SUFFICES ASSUME NEW q \in H!Runs
                  PROVE  /\ clone'[q].guest = clone[q].guest
                         /\ clone'[q].row => clone[q].row
      OBVIOUS
    <3>1. clone'[q] = [clone[q] EXCEPT !.row = @ /\ q \notin cleanup.clones]
      BY DEF H!CleanupDeletes
    <3>2. clone[q] \in [row : BOOLEAN, guest : BOOLEAN]
      BY HardeningTyped
    <3>3. clone'[q].guest = clone[q].guest
      BY <3>1, <3>2
    <3>4. clone'[q].row = (clone[q].row /\ q \notin cleanup.clones)
      BY <3>1, <3>2
    <3>. QED BY <3>3, <3>4
  <2>2. phase' = phase /\ before' = before
    BY DEF H!CleanupDeletes, H!Idle
  <2>. QED BY <1>1, <2>1, <2>2 DEF H!IInv, H!TestInv, H!At, H!Live
<1>7. H!CleanupInv'
  BY <1>1, HardeningTyped, HardeningNames, SMTT(10)
  DEF H!IInv, H!CleanupInv, H!CleanupDeletes, H!Live, H!Idle, H!Swept, H!Serves,
      H!Found, H!Active, H!Works, H!Cleanups, H!Pasts
<1>8. H!VerdictsAreTested'
  BY <1>1, SMTT(10)
  DEF H!IInv, H!VerdictsAreTested, H!CleanupDeletes, H!Idle, H!Swept, H!Serves, H!Rest
<1>9. H!ClonesAreRemoved'
  <2>1. \A q \in H!Runs : /\ clone'[q].guest <=> clone[q].guest
                          /\ clone'[q].row <=> (clone[q].row /\ q \notin cleanup.clones)
    BY HardeningTyped DEF H!CleanupDeletes
  <2>2. cleanup.at = "deleting" /\ before' = before
    BY DEF H!CleanupDeletes
  <2>3. \A q \in H!Runs : clone[q].row /\ ~H!Live(q) => q \in cleanup.clones \/ q \in before.forgotten
    BY <2>2 DEF H!IInv, H!CleanupInv, H!Found
  <2>4. \A q \in cleanup.clones : ~clone[q].guest
    BY <2>2 DEF H!IInv, H!CleanupInv
  <2>5. \A q \in H!Runs : clone[q].guest => clone[q].row \/ q \in before.halfway
    BY DEF H!IInv, H!ClonesAreRemoved
  <2>. SUFFICES ASSUME NEW q \in H!Runs
                PROVE  /\ clone'[q].guest => clone'[q].row \/ q \in before'.halfway
                       /\ clone'[q].row /\ ~H!Live(q)' => q \in before'.forgotten
    BY DEF H!ClonesAreRemoved
  <2>6. ASSUME clone'[q].guest PROVE clone'[q].row \/ q \in before'.halfway
    <3>1. clone[q].guest /\ q \notin cleanup.clones
      BY <2>1, <2>4, <2>6
    <3>2. clone[q].row \/ q \in before.halfway
      BY <2>5, <3>1
    <3>. QED BY <2>1, <2>2, <3>1, <3>2
  <2>7. ASSUME clone'[q].row, ~H!Live(q)' PROVE q \in before'.forgotten
    <3>1. clone[q].row /\ q \notin cleanup.clones
      BY <2>1, <2>7
    <3>2. ~H!Live(q)
      BY <1>1, <2>7 DEF H!Live
    <3>. QED BY <2>2, <2>3, <3>1, <3>2
  <2>. QED BY <2>6, <2>7
<1>. QED BY <1>2, <1>3, <1>4, <1>5, <1>6, <1>7, <1>8, <1>9 DEF H!IInv

LEMMA Hardening_OtherTakes ==
  ASSUME H!HardeningAssumption, H!IInv,
         H!OtherTakes
  PROVE  H!IInv'
<1>1. work' = work
  BY DEF H!OtherTakes, H!Idle, H!vars, H!rowVars
<1>2. H!TypeOK'
  BY <1>1, SMTT(10) DEF H!IInv, H!TypeOK, H!OtherTakes, H!Fault, H!Active, H!rowVars
<1>3. H!LockInv'
  BY <1>1, SMTT(10) DEF H!IInv, H!LockInv, H!OtherTakes, H!At, H!Fault, H!rowVars
<1>4. H!RecordsOK'
  <2>1. work' \in [H!Runs -> H!Works]
    BY <1>1, HardeningTyped
  <2>2. cleanup' \in H!Cleanups
    BY HardeningTyped, HardeningNames
    DEF H!OtherTakes, H!Cleanups, H!Thread, H!Swept, H!Retried, H!Due, H!Reads,
        H!Interrupted, H!ClonesOf, H!vars
  <2>3. before' \in H!Pasts
    BY HardeningTyped, HardeningNames
    DEF H!OtherTakes, H!Pasts, H!Forgets, H!Cleanups, H!Live, H!Thread
  <2>. QED BY <2>1, <2>2, <2>3 DEF H!RecordsOK
<1>5. H!RunInv'
  BY <1>1, SMTT(10)
  DEF H!IInv, H!RunInv, H!OtherTakes, H!At, H!Fault, H!Rest, H!NoClone, H!rowVars,
      H!Unclone, H!Cloning
<1>6. H!TestInv'
  BY <1>1, SMTT(10)
  DEF H!IInv, H!TestInv, H!OtherTakes, H!At, H!Live, H!Fault, H!rowVars
<1>7. H!CleanupInv'
  BY <1>1, SMTT(10)
  DEF H!IInv, H!CleanupInv, H!OtherTakes, H!Live, H!Fault, H!Found, H!Active, H!rowVars
<1>8. H!VerdictsAreTested'
  BY <1>1, SMTT(10)
  DEF H!IInv, H!VerdictsAreTested, H!OtherTakes, H!Fault, H!Rest, H!rowVars
<1>9. H!ClonesAreRemoved'
  BY <1>1, SMTT(10)
  DEF H!IInv, H!ClonesAreRemoved, H!OtherTakes, H!Live, H!Fault, H!rowVars
<1>. QED BY <1>2, <1>3, <1>4, <1>5, <1>6, <1>7, <1>8, <1>9 DEF H!IInv

LEMMA Hardening_OtherLeaves ==
  ASSUME H!HardeningAssumption, H!IInv,
         H!OtherLeaves
  PROVE  H!IInv'
<1>1. work' = work
  BY DEF H!OtherLeaves, H!Idle, H!vars, H!rowVars
<1>2. H!TypeOK'
  BY <1>1, SMTT(10) DEF H!IInv, H!TypeOK, H!OtherLeaves, H!Active, H!bounds, H!rowVars
<1>3. H!LockInv'
  BY <1>1, SMTT(10) DEF H!IInv, H!LockInv, H!OtherLeaves, H!At, H!bounds, H!rowVars
<1>4. H!RecordsOK'
  <2>1. work' \in [H!Runs -> H!Works]
    BY <1>1, HardeningTyped
  <2>2. cleanup' \in H!Cleanups
    BY HardeningTyped, HardeningNames
    DEF H!OtherLeaves, H!Cleanups, H!Thread, H!Swept, H!Retried, H!Due, H!Reads,
        H!Interrupted, H!ClonesOf, H!vars
  <2>3. before' \in H!Pasts
    BY HardeningTyped, HardeningNames
    DEF H!OtherLeaves, H!Pasts, H!Forgets, H!Cleanups, H!Live, H!Thread
  <2>. QED BY <2>1, <2>2, <2>3 DEF H!RecordsOK
<1>5. H!RunInv'
  BY <1>1, SMTT(10)
  DEF H!IInv, H!RunInv, H!OtherLeaves, H!At, H!Rest, H!NoClone, H!bounds, H!rowVars,
      H!Unclone, H!Cloning
<1>6. H!TestInv'
  BY <1>1, SMTT(10)
  DEF H!IInv, H!TestInv, H!OtherLeaves, H!At, H!Live, H!bounds, H!rowVars
<1>7. H!CleanupInv'
  BY <1>1, SMTT(10)
  DEF H!IInv, H!CleanupInv, H!OtherLeaves, H!Live, H!Found, H!Active, H!bounds,
      H!rowVars
<1>8. H!VerdictsAreTested'
  BY <1>1, SMTT(10)
  DEF H!IInv, H!VerdictsAreTested, H!OtherLeaves, H!Rest, H!bounds, H!rowVars
<1>9. H!ClonesAreRemoved'
  BY <1>1, SMTT(10)
  DEF H!IInv, H!ClonesAreRemoved, H!OtherLeaves, H!Live, H!bounds, H!rowVars
<1>. QED BY <1>2, <1>3, <1>4, <1>5, <1>6, <1>7, <1>8, <1>9 DEF H!IInv

LEMMA Hardening_Restarts ==
  ASSUME H!HardeningAssumption, H!IInv,
         H!Restarts
  PROVE  H!IInv'
<1>1. work' = work
  BY DEF H!Restarts, H!Idle, H!vars, H!rowVars
<1>2. H!TypeOK'
  BY <1>1, SMTT(10) DEF H!IInv, H!TypeOK, H!Restarts, H!Active, H!bounds, H!rowVars
<1>3. H!LockInv'
  BY <1>1, SMTT(10) DEF H!IInv, H!LockInv, H!Restarts, H!At, H!bounds, H!rowVars
<1>4. H!RecordsOK'
  <2>1. work' \in [H!Runs -> H!Works]
    BY <1>1, HardeningTyped
  <2>2. cleanup' \in H!Cleanups
    BY HardeningTyped, HardeningNames
    DEF H!Restarts, H!Cleanups, H!Thread, H!Swept, H!Retried, H!Due, H!Reads,
        H!Interrupted, H!ClonesOf, H!vars
  <2>3. before' \in H!Pasts
    BY HardeningTyped, HardeningNames
    DEF H!Restarts, H!Pasts, H!Forgets, H!Cleanups, H!Live, H!Thread
  <2>. QED BY <2>1, <2>2, <2>3 DEF H!RecordsOK
<1>5. H!RunInv'
  BY <1>1, SMTT(10)
  DEF H!IInv, H!RunInv, H!Restarts, H!At, H!Rest, H!NoClone, H!bounds, H!rowVars,
      H!Unclone, H!Cloning
<1>6. H!TestInv'
  BY <1>1, SMTT(10) DEF H!IInv, H!TestInv, H!Restarts, H!At, H!Live, H!bounds, H!rowVars
<1>7. H!CleanupInv'
  BY <1>1, SMTT(10)
  DEF H!IInv, H!CleanupInv, H!Restarts, H!Live, H!Found, H!Active, H!bounds, H!rowVars
<1>8. H!VerdictsAreTested'
  BY <1>1, SMTT(10)
  DEF H!IInv, H!VerdictsAreTested, H!Restarts, H!Rest, H!bounds, H!rowVars
<1>9. H!ClonesAreRemoved'
  BY <1>1, SMTT(10)
  DEF H!IInv, H!ClonesAreRemoved, H!Restarts, H!Live, H!bounds, H!rowVars
<1>. QED BY <1>2, <1>3, <1>4, <1>5, <1>6, <1>7, <1>8, <1>9 DEF H!IInv

LEMMA Hardening_Dies ==
  ASSUME H!HardeningAssumption, H!IInv, NEW files \in SUBSET H!Runs,
         H!Dies(files)
  PROVE  H!IInv'
<1>1. /\ work' \in [H!Runs -> H!Works]
      /\ \A q \in H!Runs : work'[q] = [at |-> IF H!Live(q) THEN "over" ELSE work[q].at,
                                       mine |-> work[q].mine, saw |-> work[q].saw,
                                       has |-> work[q].has]
  <2>. SUFFICES ASSUME NEW q \in H!Runs PROVE work'[q] = [at |-> IF H!Live(q) THEN "over" ELSE work[q].at,
                                                          mine |-> work[q].mine,
                                                          saw |-> work[q].saw,
                                                          has |-> work[q].has] /\ work'[q] \in H!Works
    BY DEF H!Dies
  <2>1. work'[q] = [work[q] EXCEPT !.at = IF H!Live(q) THEN "over" ELSE @] /\ work[q] \in H!Works
    BY HardeningTyped DEF H!Dies
  <2>2. work'[q] = [at |-> IF H!Live(q) THEN "over" ELSE work[q].at,
                    mine |-> work[q].mine, saw |-> work[q].saw, has |-> work[q].has]
    BY <2>1 DEF H!Works
  <2>. QED BY <2>1, <2>2 DEF H!Works, H!Places
<1>2. H!TypeOK'
  <2>1. row' \in [H!Runs -> H!Statuses]
    BY <1>1, HardeningTyped
    DEF H!Dies, H!Set, H!Thread, H!Idle, H!Statuses, H!Active, H!rowVars
  <2>2. phase' \in [H!Runs -> {1, 2}]
    BY <1>1, HardeningTyped DEF H!Dies, H!Thread, H!Idle, H!rowVars
  <2>3. stop' \in [H!Runs -> BOOLEAN]
    BY <1>1 DEF H!Dies, H!Thread, H!Idle, H!rowVars, H!IInv, H!TypeOK
  <2>4. restart' \in [H!Runs -> BOOLEAN]
    BY <1>1 DEF H!Dies, H!Thread, H!Idle, H!rowVars, H!IInv, H!TypeOK
  <2>5. rated' \in [H!Runs -> H!Ratings]
    BY <1>1, HardeningTyped, HardeningNames
    DEF H!Dies, H!Thread, H!Idle, H!rowVars, H!Works
  <2>6. clone' \in [H!Runs -> [row : BOOLEAN, guest : BOOLEAN]]
    <3>1. \A q \in H!Runs : clone[q] \in [row : BOOLEAN, guest : BOOLEAN]
      BY HardeningTyped
    <3>2. \A q \in H!Runs :
            [clone[q] EXCEPT !.guest = @ \/ q \in files] \in [row : BOOLEAN, guest : BOOLEAN]
      BY <3>1
    <3>3. clone' = [q \in H!Runs |-> [clone[q] EXCEPT !.guest = @ \/ q \in files]]
      BY DEF H!Dies
    <3>. QED BY <3>2, <3>3
  <2>7. lock' \in {"none", "clone", "cleanup", "other"}
    BY <1>1 DEF H!Dies, H!Thread, H!Idle, H!rowVars, H!IInv, H!TypeOK
  <2>. QED BY <2>1, <2>2, <2>3, <2>4, <2>5, <2>6, <2>7 DEF H!TypeOK
<1>3. H!LockInv'
  <2>1. \A q \in H!Runs : ~H!At(q, "copying")'
    BY <1>1 DEF H!Live, H!At
  <2>2. cleanup'.at = "due" /\ lock' \in {"other", "none"}
    BY DEF H!Dies, H!Due
  <2>. QED BY <2>1, <2>2 DEF H!LockInv
<1>4. H!RecordsOK'
  <2>1. work' \in [H!Runs -> H!Works]
    BY <1>1, HardeningTyped
  <2>2. cleanup' \in H!Cleanups
    BY HardeningTyped, HardeningNames
    DEF H!Dies, H!Cleanups, H!Thread, H!Swept, H!Retried, H!Due, H!Reads,
        H!Interrupted, H!ClonesOf, H!vars
  <2>3. before' \in H!Pasts
    BY HardeningTyped, HardeningNames
    DEF H!Dies, H!Pasts, H!Forgets, H!Cleanups, H!Live, H!Thread
  <2>. QED BY <2>1, <2>2, <2>3 DEF H!RecordsOK
<1>5. H!RunInv'
  <2>1. row' = row /\ phase' = phase
    BY DEF H!Dies, H!rowVars
  <2>2. \A q \in H!Runs : /\ work'[q].at = (IF H!Live(q) THEN "over" ELSE work[q].at)
                          /\ work'[q].has = work[q].has /\ work'[q].mine = work[q].mine
    BY <1>1
  <2>3. \A q \in H!Runs : H!At(q, "none") => clone'[q] = clone[q]
    <3>. SUFFICES ASSUME NEW q \in H!Runs, H!At(q, "none") PROVE clone'[q] = clone[q]
      OBVIOUS
    <3>1. clone'[q] = [clone[q] EXCEPT !.guest = @ \/ q \in files] /\ q \notin files
      BY DEF H!Dies, H!At
    <3>2. clone[q] = H!NoClone
      BY DEF H!IInv, H!RunInv, H!At, H!Unclone
    <3>3. clone'[q] = [H!NoClone EXCEPT !.guest = H!NoClone.guest \/ q \in files]
      BY <3>1, <3>2
    <3>4. (H!NoClone.guest \/ q \in files) = FALSE
      BY <3>1 DEF H!NoClone
    <3>5. clone'[q] = [H!NoClone EXCEPT !.guest = FALSE]
      BY <3>3, <3>4
    <3>. QED BY <3>2, <3>5 DEF H!NoClone
  <2>4. \A q \in H!Runs : work[q].at \in H!Places
    BY HardeningTyped DEF H!Works
  <2>. QED BY <2>1, <2>2, <2>3, <2>4
         DEF H!IInv, H!RunInv, H!At, H!Live, H!Unclone, H!Cloning, H!Places
<1>6. H!TestInv'
  <2>1. \A q \in H!Runs : ~H!Live(q)' /\ work'[q].mine = work[q].mine
                       /\ work'[q].at \notin {"checking", "testing", "dropping"}
    BY <1>1 DEF H!Live
  <2>2. phase' = phase /\ before'.taken = before.taken
    BY HardeningTyped DEF H!Dies, H!rowVars, H!Pasts
  <2>3. \A q \in H!Runs : clone'[q].row = clone[q].row
    BY HardeningTyped DEF H!Dies
  <2>. QED BY <2>1, <2>2, <2>3 DEF H!IInv, H!TestInv, H!At
<1>7. H!CleanupInv'
  <2>1. cleanup'.at = "due" /\ cleanup'.runs = {} /\ cleanup'.clones = {} /\ row' = row
    BY DEF H!Dies, H!Due, H!rowVars
  <2>2. \A q \in H!Runs : clone'[q].row = clone[q].row
    BY HardeningTyped DEF H!Dies
  <2>3. \A q \in H!Runs : /\ q \in before.forgotten => q \in before'.forgotten
                          /\ H!Live(q) \/ q \in cleanup.clones => row[q] \in H!Active \/ q \in before'.forgotten
    BY HardeningTyped DEF H!Dies, H!Pasts
  <2>4. \A q \in H!Runs : clone[q].row /\ ~H!Live(q) =>
                     row[q] \in H!Active \/ q \in cleanup.clones \/ q \in before.forgotten
    BY DEF H!IInv, H!CleanupInv, H!Found
  <2>5. \A q \in H!Runs : row[q] \in H!Active => H!Found(q)'
    BY <2>1 DEF H!Found
  <2>6. \A q \in H!Runs : clone'[q].row => H!Found(q)' \/ q \in before'.forgotten
    <3>. SUFFICES ASSUME NEW q \in H!Runs, clone'[q].row
                  PROVE  H!Found(q)' \/ q \in before'.forgotten
      OBVIOUS
    <3>1. clone[q].row
      BY <2>2
    <3>2. CASE row[q] \in H!Active
      BY <2>5, <3>2
    <3>3. CASE H!Live(q) \/ q \in cleanup.clones
      BY <2>3, <3>2, <3>3 DEF H!Live
    <3>4. CASE ~H!Live(q) /\ q \notin cleanup.clones
      BY <2>3, <2>4, <3>1, <3>2, <3>4 DEF H!Live
    <3>. QED BY <3>3, <3>4
  <2>. QED BY <2>1, <2>6 DEF H!CleanupInv
<1>8. H!VerdictsAreTested'
  BY <1>1, SMTT(10)
  DEF H!IInv, H!VerdictsAreTested, H!Dies, H!At, H!Live, H!Rest, H!Active, H!rowVars
<1>9. H!ClonesAreRemoved'
  BY <1>1, HardeningTyped, HardeningNames, SMTT(10)
  DEF H!IInv, H!RunInv, H!TestInv, H!ClonesAreRemoved, H!Dies, H!At, H!Live, H!Rest,
      H!Active, H!NoClone, H!Due, H!rowVars, H!Unclone, H!Cloning, H!Works, H!Cleanups,
      H!Pasts
<1>. QED BY <1>2, <1>3, <1>4, <1>5, <1>6, <1>7, <1>8, <1>9 DEF H!IInv

(* The initial states.                                                     *)
LEMMA HardeningInit == ASSUME H!HardeningAssumption, H!Init PROVE H!IInv
<1>1. H!TypeOK
  BY HardeningNames DEF H!Init, H!TypeOK, H!Statuses, H!Active
<1>2. H!LockInv
  BY DEF H!Init, H!LockInv, H!At, H!NoWork, H!Due
<1>3. H!RecordsOK
  BY HardeningNames DEF H!Init, H!RecordsOK, H!Pasts
<1>4. H!RunInv
  BY DEF H!Init, H!RunInv, H!At, H!NoWork, H!Unclone, H!Cloning
<1>5. H!TestInv
  BY DEF H!Init, H!TestInv, H!At, H!Live, H!NoWork, H!NoClone, H!Unrated
<1>6. H!CleanupInv
  BY DEF H!Init, H!CleanupInv, H!Due, H!NoClone
<1>7. H!VerdictsAreTested
  BY DEF H!Init, H!VerdictsAreTested, H!Unrated
<1>8. H!ClonesAreRemoved
  BY DEF H!Init, H!ClonesAreRemoved, H!NoClone
<1>. QED BY <1>1, <1>2, <1>3, <1>4, <1>5, <1>6, <1>7, <1>8 DEF H!IInv

(* A step that changes nothing.                                            *)
LEMMA HardeningStutters == ASSUME H!IInv, UNCHANGED H!vars PROVE H!IInv'
<1>1. H!TypeOK' /\ H!LockInv' /\ H!RecordsOK'
  BY DEF H!IInv, H!TypeOK, H!LockInv, H!RecordsOK, H!vars, H!rowVars, H!bounds, H!At
<1>2. H!RunInv' /\ H!TestInv'
  BY DEF H!IInv, H!RunInv, H!TestInv, H!vars, H!rowVars, H!bounds, H!At, H!Live
<1>3. H!CleanupInv'
  BY DEF H!IInv, H!CleanupInv, H!Found, H!vars, H!rowVars, H!bounds, H!Live
<1>4. H!VerdictsAreTested' /\ H!ClonesAreRemoved'
  BY DEF H!IInv, H!VerdictsAreTested, H!ClonesAreRemoved, H!vars, H!rowVars, H!bounds,
         H!Live
<1>. QED BY <1>1, <1>2, <1>3, <1>4 DEF H!IInv

(* A step of a thread.                                                     *)
LEMMA HardeningRun ==
  ASSUME H!HardeningAssumption, H!IInv, NEW r \in H!Runs, H!Step(r) \/ H!Faulty(r)
  PROVE  H!IInv'
<1>1. CASE H!Load1(r)
  BY <1>1, Hardening_Load1
<1>2. CASE H!Begin1(r)
  BY <1>2, Hardening_Begin1
<1>3. CASE H!Watched(r)
  BY <1>3, Hardening_Watched
<1>4. CASE H!Begin2(r)
  BY <1>4, Hardening_Begin2
<1>5. CASE H!Clones(r)
  BY <1>5, Hardening_Clones
<1>6. CASE H!Cloned(r)
  BY <1>6, Hardening_Cloned
<1>7. CASE H!LockBusy(r)
  BY <1>7, Hardening_LockBusy
<1>8. CASE H!Check(r)
  BY <1>8, Hardening_Check
<1>9. CASE H!Tested(r)
  BY <1>9, Hardening_Tested
<1>10. CASE H!AllTested(r)
  BY <1>10, Hardening_AllTested
<1>11. CASE H!Finish(r)
  BY <1>11, Hardening_Finish
<1>12. CASE H!Cancel(r)
  BY <1>12, Hardening_Cancel
<1>13. CASE H!Fail(r)
  BY <1>13, Hardening_Fail
<1>14. CASE H!CleanClone(r)
  BY <1>14, Hardening_CleanClone
<1>15. CASE H!DropClone(r)
  BY <1>15, Hardening_DropClone
<1>16. CASE H!WatchFails(r)
  BY <1>16, Hardening_WatchFails
<1>17. CASE H!TestFails(r)
  BY <1>17, Hardening_TestFails
<1>18. CASE H!CleanFails(r)
  BY <1>18, Hardening_CleanFails
<1>19. ASSUME NEW c \in BOOLEAN, H!CloneFails(r, c) PROVE H!IInv'
  BY <1>19, Hardening_CloneFails
<1>20. CASE H!BeginFails(r)
  BY <1>20, Hardening_BeginFails
<1>21. CASE H!FinishFails(r)
  BY <1>21, Hardening_FinishFails
<1>22. CASE H!HandlerFails(r)
  BY <1>22, Hardening_HandlerFails
<1>. QED
  BY <1>1, <1>2, <1>3, <1>4, <1>5, <1>6, <1>7, <1>8, <1>9, <1>10, <1>11, <1>12, <1>13,
     <1>14, <1>15, <1>16, <1>17, <1>18, <1>19, <1>20, <1>21, <1>22 DEF H!Step, H!Faulty

(* Every step.                                                             *)
LEMMA HardeningNext == ASSUME H!HardeningAssumption, H!IInv, [H!Next]_H!vars PROVE H!IInv'
<1>1. CASE H!CleanupBegins
  BY <1>1, Hardening_CleanupBegins
<1>2. CASE H!CleanupBusy
  BY <1>2, Hardening_CleanupBusy
<1>3. CASE H!CleanupReads
  BY <1>3, Hardening_CleanupReads
<1>4. CASE H!CleanupMarks
  BY <1>4, Hardening_CleanupMarks
<1>5. CASE H!CleanupDeletes
  BY <1>5, Hardening_CleanupDeletes
<1>6. CASE H!CleanupFails
  BY <1>6, Hardening_CleanupFails
<1>7. CASE H!OtherTakes
  BY <1>7, Hardening_OtherTakes
<1>8. CASE H!OtherLeaves
  BY <1>8, Hardening_OtherLeaves
<1>9. CASE H!Restarts
  BY <1>9, Hardening_Restarts
<1>10. CASE H!StopPhase1
  BY <1>10, Hardening_StopPhase1
<1>11. CASE H!StopPhase2
  BY <1>11, Hardening_StopPhase2
<1>12. CASE H!StartPhase1
  BY <1>12, Hardening_StartPhase1 DEF H!StartPhase1
<1>13. ASSUME NEW a \in Admins, H!AskPhase2(a) PROVE H!IInv'
  BY <1>13, Hardening_AskPhase2
<1>14. ASSUME NEW a \in Admins, H!StartPhase2(a) PROVE H!IInv'
  BY <1>14, Hardening_StartPhase2 DEF H!StartPhase2
<1>15. ASSUME NEW r \in H!Runs, H!Step(r) \/ H!Faulty(r) PROVE H!IInv'
  BY <1>15, HardeningRun
<1>16. ASSUME NEW failed \in SUBSET H!Runs, H!CleanupRemoves(failed) PROVE H!IInv'
  BY <1>16, Hardening_CleanupRemoves
<1>17. ASSUME NEW files \in SUBSET H!Runs, H!Dies(files) PROVE H!IInv'
  BY <1>17, Hardening_Dies
<1>18. CASE UNCHANGED H!vars
  BY <1>18, HardeningStutters
<1>. QED
  BY <1>1, <1>2, <1>3, <1>4, <1>5, <1>6, <1>7, <1>8, <1>9, <1>10, <1>11, <1>12, <1>13,
     <1>14, <1>15, <1>16, <1>17, <1>18 DEF H!Next, H!CleanupStep

(* Of any requests, runs, settings, faults, crashes and attempts, every    *)
(* state hardening runs can reach is as H!IInv says.                       *)
THEOREM HardeningInvariance == H!Spec => []H!IInv
<1>1. H!Init => H!IInv
  BY HardeningInit, HardeningAssumed
<1>2. H!IInv /\ [H!Next]_H!vars => H!IInv'
  BY HardeningNext, HardeningAssumed
<1>. QED BY <1>1, <1>2, PTL DEF H!Spec

(* A successful phase 2 tested or skipped every setting, each on a clone   *)
(* that was there, unless the cleanup took it for an interrupted run       *)
(* (_run_phase2_test_async).                                               *)
THEOREM Verdicts == H!Spec => []VerdictsAreTested
<1>1. H!IInv => VerdictsAreTested
  BY DEF H!IInv, VerdictsAreTested
<1>. QED BY <1>1, HardeningInvariance, PTL

(* A clone that nobody is at is removed, but for one whose removal failed  *)
(* or that the cleanup lost (fail_interrupted_hardening_runs).             *)
THEOREM Removal == H!Spec => []ClonesAreRemoved
<1>1. H!IInv => ClonesAreRemoved
  BY DEF H!IInv, ClonesAreRemoved
<1>. QED BY <1>1, HardeningInvariance, PTL

=============================================================================
