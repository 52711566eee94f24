-------------------------- MODULE Console_proofs --------------------------
(***************************************************************************)
(* For any page table, selection and traffic on the UART: the verdict of a *)
(* sweep sees that sweep, the log sinks follow the job, and a save writes  *)
(* the latest sweep.                                                       *)
(*                                                                         *)
(* SweepInv says how far the sweep has come: which pages of the selection  *)
(* have left their findings and their lines.  SinkInv says where the lines *)
(* go at each place of the pager, the saved flag of 'G' and 'w' included.  *)
(***************************************************************************)
EXTENDS Console, TLAPS

Running == pc \in {"loop", "poll", "body", "finish"}
AtRest == pc \in {"idle", "batch", "name", "rest"}
InPage == pc = "body" \/ (pc = "poll" /\ ret = "body")
Ending == pc = "finish" \/ (pc = "poll" /\ ret = "finish")

\* The selected pages before page n.
Done(n) == {i \in Enabled : i < n}

Places ==
    /\ Running \/ AtRest \/ Stopped
    /\ ret \in {"body", "finish"} /\ at \in Nat
    /\ AtRest => ~Sweeping

LoopProgress ==
    /\ at \in 1 .. NPages + 1
    /\ dx = Done(at)
    /\ hasBuf => capture = (Done(at) \cup (IF at = NPages + 1 THEN {0} ELSE {})) \X {epoch}

PageProgress ==
    /\ IF cur = 0 THEN at = NPages + 1 ELSE cur \in Enabled /\ at = cur + 1
    /\ dx = Done(at - 1)
    /\ hasBuf => capture = Done(at - 1) \X {epoch}

SweepInv ==
    /\ Places
    /\ Sweeping /\ pc = "loop" => LoopProgress
    /\ Sweeping /\ InPage => PageProgress
    /\ Sweeping /\ Ending => (hasBuf => capture = WholeSweep(epoch))
    /\ ~Sweeping /\ hasBuf => capture = WholeSweep(epoch)

SinkInv ==
    /\ job \in {"boot", "all", "render", "group", "wifi"}
    /\ uartOnly \in BOOLEAN /\ status \in BOOLEAN
    /\ armed \in BOOLEAN /\ hasBuf \in BOOLEAN /\ prev \in BOOLEAN
    /\ Running => /\ uartOnly = IF job = "render" THEN FALSE ELSE TRUE
                  /\ armed = IF Sweeping THEN hasBuf ELSE FALSE
                  /\ job # "boot" => status = FALSE
                  /\ job \in {"group", "wifi"} => prev = FALSE
    /\ AtRest => uartOnly = FALSE /\ status = FALSE /\ armed = FALSE

Inv == SweepInv /\ SinkInv

\* The selection is a set of data pages, so all of it comes before NPages.
LEMMA DoneFacts ==
    /\ Done(NPages) = Enabled /\ Done(NPages + 1) = Enabled /\ Done(1) = {}
    /\ \A n \in Nat : n \notin Enabled => Done(n + 1) = Done(n)
    /\ \A n \in Nat : n \in Enabled => Done(n + 1) = Done(n) \cup {n}
    /\ \A n \in Enabled : n \in 1 .. NPages - 1
<1>1. \A n \in Enabled : n \in Int /\ n >= 1 /\ n < NPages
  BY PagesAssumption DEF DataPages
<1>2. Done(NPages) = Enabled /\ Done(NPages + 1) = Enabled /\ Done(1) = {}
  BY <1>1, PagesAssumption DEF Done
<1>3. \A n \in Nat : n \notin Enabled => Done(n + 1) = Done(n)
  BY <1>1 DEF Done
<1>4. \A n \in Nat : n \in Enabled => Done(n + 1) = Done(n) \cup {n}
  <2> SUFFICES ASSUME NEW n \in Nat, n \in Enabled
               PROVE Done(n + 1) = Done(n) \cup {n}
    OBVIOUS
  <2>1. \A i \in Enabled : i < n + 1 <=> i < n \/ i = n
    BY <1>1
  <2> QED BY <2>1 DEF Done
<1> QED BY <1>1, <1>2, <1>3, <1>4, PagesAssumption

\* The members of a pair's set are pairs, component by component.
LEMMA ProductFacts ==
    /\ \A e : {} \X {e} = {}
    /\ \A S, i, e : (S \cup {i}) \X {e} = (S \X {e}) \cup {<<i, e>>}
  OBVIOUS

\* The console at entry to ipl_main satisfies the invariant.
LEMMA InitInv == Init => Inv
<1> SUFFICES ASSUME Init PROVE Inv
  OBVIOUS
<1> USE DEF Init
<1>1. SinkInv
  BY DEF SinkInv, Running, AtRest, Sweeping
<1>2. 1 \in 1 .. NPages + 1 /\ 1 # NPages + 1
  BY PagesAssumption
<1>3. ({} \cup {}) \X {1} = {}
  OBVIOUS
<1>4. LoopProgress
  BY <1>2, <1>3, DoneFacts DEF LoopProgress
<1>5. SweepInv
  BY <1>4 DEF SweepInv, Places, InPage, Ending, Running, AtRest, Sweeping
<1> QED BY <1>1, <1>5 DEF Inv

-----------------------------------------------------------------------------
(* A sweep, page by page.                                                  *)

\* run_probe_mask starting a sweep clears every product, so none is stale.
LEMMA BeginSweepStep ==
  ASSUME SweepInv, pc = "idle", BeginSweep("all"), UNCHANGED hasBuf,
         ret' = ret
  PROVE  SweepInv'
<1> USE DEF BeginSweep
<1>1. 1 \in 1 .. NPages + 1 /\ 1 # NPages + 1
  BY PagesAssumption
<1>2. ({} \cup {}) \X {epoch'} = {}
  OBVIOUS
<1>3. LoopProgress'
  BY <1>1, <1>2, DoneFacts DEF LoopProgress, Done
<1> QED BY <1>3 DEF SweepInv, Places, InPage, Ending, Running, AtRest, Sweeping

\* Nothing the sweep has gathered so far is touched.
Kept == UNCHANGED <<capture, epoch, hasBuf, ret, dx>>

\* Around the pages: the pager, its batches, names and saves.
LEMMA AtRestStep ==
  ASSUME SweepInv, AtRest, Kept,
         \/ pc' \in {"idle", "batch", "name", "rest", "rebooting", "off"}
            /\ UNCHANGED <<job, at>>
         \/ \E j \in {"render", "group", "wifi"} : BeginPages(j)
  PROVE  SweepInv'
  BY DEF SweepInv, Places, InPage, Ending, Running, AtRest, Stopped, Sweeping, Kept, BeginPages,
         WholeSweep

\* A page that runs leaves its products of this sweep.
LEMMA RunPageStep == SweepInv /\ RunPage => SweepInv'
<1> SUFFICES ASSUME SweepInv, RunPage PROVE SweepInv'
  OBVIOUS
<1> USE DEF RunPage, logVars, sinkVars, reportVars
<1>1. CASE ~Sweeping
  BY <1>1 DEF SweepInv, Places, InPage, Ending, Running, AtRest, Stopped, Sweeping, WholeSweep
<1>2. CASE Sweeping
  <2>1. LoopProgress /\ at < NPages /\ at \in Enabled
    <3>1. LoopProgress
      BY <1>2 DEF SweepInv
    <3>2. at # 0
      BY <3>1, PagesAssumption DEF LoopProgress
    <3> QED BY <1>2, <3>1, <3>2 DEF Selected, page_enabled, Sweeping
  <2>2. at # 0 /\ at # NPages + 1 /\ at \in Nat /\ at' - 1 = at
    BY <2>1, PagesAssumption DEF LoopProgress
  <2>3. Done(at) \cup {} = Done(at)
    OBVIOUS
  <2>4. PageProgress'
    BY <2>1, <2>2, <2>3 DEF LoopProgress, PageProgress, Done
  <2> QED BY <1>2, <2>2, <2>4 DEF SweepInv, Places, InPage, Ending, Running, AtRest, Sweeping
<1> QED BY <1>1, <1>2

\* A page that is left out leaves no product.
LEMMA SkipPageStep == SweepInv /\ SkipPage => SweepInv'
<1> SUFFICES ASSUME SweepInv, SkipPage PROVE SweepInv'
  OBVIOUS
<1> USE DEF SkipPage, logVars, sinkVars, reportVars
<1>1. CASE ~Sweeping
  BY <1>1 DEF SweepInv, Places, InPage, Ending, Running, AtRest, Stopped, Sweeping, WholeSweep
<1>2. CASE Sweeping
  <2>1. LoopProgress /\ at < NPages /\ at \notin Enabled
    BY <1>2 DEF SweepInv, Selected, page_enabled, LoopProgress, Sweeping
  <2>2. /\ at \in Nat /\ at' \in 1 .. NPages + 1
        /\ at # NPages + 1 /\ at' # NPages + 1
    BY <2>1, PagesAssumption DEF LoopProgress
  <2>3. Done(at') = Done(at)
    BY <2>1, <2>2, DoneFacts
  <2>4. LoopProgress'
    BY <2>1, <2>2, <2>3 DEF LoopProgress, Done
  <2> QED BY <1>2, <2>2, <2>4 DEF SweepInv, Places, InPage, Ending, Running, AtRest, Sweeping
<1> QED BY <1>1, <1>2

\* The verdict is built when every selected page of the sweep has run.
LEMMA RunVerdictStep == SweepInv /\ RunVerdict => SweepInv'
<1> SUFFICES ASSUME SweepInv, RunVerdict PROVE SweepInv'
  OBVIOUS
<1> USE DEF RunVerdict, logVars, sinkVars, reportVars
<1>1. LoopProgress /\ at = NPages /\ at # NPages + 1 /\ at' - 1 = at
  BY PagesAssumption DEF SweepInv
<1>2. Done(at) \cup {} = Done(at)
  OBVIOUS
<1>3. PageProgress'
  BY <1>1, <1>2 DEF LoopProgress, PageProgress, Done
<1> QED BY <1>1, <1>3, PagesAssumption
        DEF SweepInv, Places, InPage, Ending, Running, AtRest, Sweeping

\* status_set(NULL) ends the sweep with every page done.
LEMMA CloseSweepStep == SweepInv /\ CloseSweep => SweepInv'
<1> SUFFICES ASSUME SweepInv, CloseSweep PROVE SweepInv'
  OBVIOUS
<1> USE DEF CloseSweep, logVars, sinkVars, reportVars
<1>1. Done(NPages + 1) \cup {0} = {0} \cup Enabled
  BY DoneFacts
<1>2. hasBuf => capture = WholeSweep(epoch)
  BY <1>1 DEF SweepInv, LoopProgress, WholeSweep
<1> QED BY <1>2 DEF SweepInv, Places, InPage, Ending, Running, AtRest, Sweeping, WholeSweep

\* Polling for the reboot key does not touch the sweep.
LEMMA PollStep == SweepInv /\ Poll => SweepInv'
  BY DEF Poll, PollByte, PollEnd, SweepInv, Places, InPage, Ending, Running, AtRest, Stopped,
         Sweeping, PageProgress, Done, WholeSweep, logVars, sinkVars, reportVars, loopVars

\* A probe's own steps only add to the products of this sweep.
LEMMA ProbeStepStep == SweepInv /\ ProbeStep => SweepInv'
  BY DEF ProbeStep, SweepInv, Places, InPage, Ending, Running, AtRest, Stopped,
         Sweeping, PageProgress, Done, WholeSweep, logVars, sinkVars, reportVars

\* The page's findings and lines are in: the loop has come one page further.
LEMMA ProbeEndStep == Inv /\ ProbeEnd => SweepInv'
<1> SUFFICES ASSUME Inv, ProbeEnd PROVE SweepInv'
  OBVIOUS
<1> USE DEF ProbeEnd, sinkVars, loopVars
<1>1. CASE ~Sweeping
  <2>1. ~armed
    BY <1>1 DEF Inv, SinkInv, Running
  <2> QED BY <1>1, <2>1
          DEF Inv, SweepInv, Places, InPage, Ending, Running, AtRest, Sweeping, WholeSweep
<1>2. CASE Sweeping
  <2>1. PageProgress /\ (armed <=> hasBuf)
    BY <1>2 DEF Inv, SweepInv, InPage, SinkInv, Running
  <2>2. CASE cur = 0
    <3>1. at = NPages + 1 /\ at - 1 = NPages /\ at \in 1 .. NPages + 1
      BY <2>1, <2>2, PagesAssumption DEF PageProgress
    <3>2. Done(NPages + 1) = Enabled /\ dx' = Enabled
      BY <2>1, <2>2, <3>1, DoneFacts DEF PageProgress
    <3>3. hasBuf => capture' = (Enabled \cup {0}) \X {epoch}
      BY <2>1, <2>2, <3>1, DoneFacts, ProductFacts DEF PageProgress
    <3>4. LoopProgress'
      BY <3>1, <3>2, <3>3 DEF LoopProgress, Done
    <3> QED BY <1>2, <3>1, <3>4
            DEF Inv, SweepInv, Places, InPage, Ending, Running, AtRest, Sweeping
  <2>3. CASE cur # 0
    <3>1. /\ cur \in Enabled /\ cur \in Nat /\ at = cur + 1 /\ at - 1 = cur
          /\ at \in 1 .. NPages + 1 /\ at # NPages + 1
      BY <2>1, <2>3, DoneFacts, PagesAssumption DEF PageProgress
    <3>2. Done(at) = Done(cur) \cup {cur}
      BY <3>1, DoneFacts
    <3>3. hasBuf => capture' = (Done(cur) \cup {cur}) \X {epoch}
      BY <2>1, <3>1, ProductFacts DEF PageProgress
    <3>4. (Done(cur) \cup {cur}) \cup {} = Done(cur) \cup {cur}
      OBVIOUS
    <3>5. LoopProgress'
      BY <2>1, <2>3, <3>1, <3>2, <3>3, <3>4 DEF LoopProgress, PageProgress, Done
    <3> QED BY <1>2, <3>1, <3>5
            DEF Inv, SweepInv, Places, InPage, Ending, Running, AtRest, Sweeping
  <2> QED BY <2>2, <2>3
<1> QED BY <1>1, <1>2

\* The three callers of a sweep give it up whole.
LEMMA FinishStep == SweepInv /\ (FinishBoot \/ FinishAll \/ FinishPages) => SweepInv'
  BY DEF FinishBoot, FinishAll, FinishPages, BeginPages, SweepInv, Places, InPage, Ending,
         Running, AtRest, Stopped, Sweeping, WholeSweep, reportVars, loopVars

-----------------------------------------------------------------------------
(* Every step of the console and of the PC.                                *)

\* Every step of the console keeps the sweep's invariant.
LEMMA SweepStep == Inv /\ [Next]_vars => SweepInv'
<1> SUFFICES ASSUME Inv, [Next]_vars PROVE SweepInv'
  OBVIOUS
<1> USE DEF Inv
<1>1. CASE PageLoop
  BY <1>1, RunPageStep, SkipPageStep, RunVerdictStep, CloseSweepStep, FinishStep DEF PageLoop
<1>2. CASE Probe
  BY <1>2, ProbeStepStep, ProbeEndStep DEF Probe
<1>3. CASE Poll
  BY <1>3, PollStep
<1>4. CASE PagerTurn
  <2>1. PICK btn \in {"none"} \cup Buttons :
             \/ Navigate(btn) \/ Refresh(btn) \/ Wifi(btn) \/ Group(btn)
             \/ RefreshAll(btn) \/ Save(btn) \/ Reboot(btn) \/ Quit(btn) \/ Rest(btn)
    BY <1>4 DEF PagerTurn
  <2>2. CASE RefreshAll(btn)
    BY <2>2, BeginSweepStep DEF RefreshAll, Key, Turn
  <2>3. CASE \/ Navigate(btn) \/ Refresh(btn) \/ Wifi(btn) \/ Group(btn)
             \/ Save(btn) \/ Reboot(btn) \/ Quit(btn) \/ Rest(btn)
    <3>1. /\ pc = "idle" /\ Kept
          /\ \/ pc' \in {"idle", "batch", "name", "rebooting", "off"} /\ UNCHANGED <<job, at>>
             \/ BeginPages("render") \/ BeginPages("wifi")
      BY <2>3 DEF Navigate, Refresh, Wifi, Group, Save, Reboot, Quit, Rest, Key, Turn, Kept,
                  reportVars, BeginPages
    <3> QED BY <3>1, AtRestStep DEF AtRest
  <2> QED BY <2>1, <2>2, <2>3
<1>5. CASE Batch
  <2>1. /\ pc = "batch" /\ Kept
        /\ (pc' = "batch" /\ UNCHANGED <<job, at>>) \/ BeginPages("render")
    BY <1>5 DEF Batch, BatchNav, BatchEnd, Kept, logVars, sinkVars, reportVars, loopVars,
                BeginPages
  <2> QED BY <2>1, AtRestStep DEF AtRest
<1>6. CASE GroupName
  <2>1. /\ pc \in {"name", "rest"} /\ Kept
        /\ (pc' \in {"name", "rest", "idle"} /\ UNCHANGED <<job, at>>) \/ BeginPages("group")
    BY <1>6 DEF GroupName, NameByte, RestByte, NameNewline, NameTimeout, EndName, NameFrame,
                Kept, reportVars, BeginPages
  <2> QED BY <2>1, AtRestStep DEF AtRest
<1>7. CASE Host \/ Halted \/ UNCHANGED vars
  BY <1>7 DEF Host, HostLine, HostByte, Halted, vars, SweepInv, Places, InPage, Ending, Running,
              AtRest, Stopped, Sweeping, LoopProgress, PageProgress, Done, WholeSweep,
              logVars, sinkVars, reportVars, loopVars
<1> QED BY <1>1, <1>2, <1>3, <1>4, <1>5, <1>6, <1>7 DEF Next, Console

\* The sinks, and what they are for, stay as they are.
Still == UNCHANGED <<job, uartOnly, status, armed, hasBuf, prev>>

\* Every step keeps the capture and the verdict table with their job.
LEMMA SinkStep == Inv /\ [Next]_vars => SinkInv'
<1> SUFFICES ASSUME Inv, [Next]_vars PROVE SinkInv'
  OBVIOUS
<1> USE DEF Inv, SinkInv, Running, AtRest, Sweeping
<1>1. CASE RunPage \/ SkipPage \/ RunVerdict \/ CloseSweep
  BY <1>1 DEF RunPage, SkipPage, RunVerdict, CloseSweep, logVars, sinkVars, pagerVars
<1>2. CASE FinishBoot \/ FinishAll \/ FinishPages
  <2>1. /\ pc' = "loop" /\ job' = "render" /\ uartOnly' = FALSE /\ armed' = FALSE
        /\ status' = FALSE /\ UNCHANGED <<prev, hasBuf>>
        \/ FinishPages
    BY <1>2 DEF FinishBoot, FinishAll, BeginPages, pagerVars
  <2>2. CASE FinishPages
    <3>1. status = FALSE /\ armed = FALSE
      BY <2>2 DEF FinishPages
    <3>2. uartOnly' = FALSE
      BY <2>2 DEF FinishPages
    <3>3. pc' = "idle" /\ UNCHANGED <<job, status, armed, hasBuf, prev>>
      BY <2>2 DEF FinishPages, pagerVars, loopVars
    <3> QED BY <3>1, <3>2, <3>3
  <2> QED BY <2>1, <2>2
<1>3. CASE Probe \/ Poll
  <2>1. CASE Probe
    BY <2>1 DEF Probe, ProbeStep, ProbeEnd, logVars, sinkVars, pagerVars, loopVars
  <2>2. (pc = "poll" /\ pc' \in {"poll", "body", "finish", "rebooting"} /\ Still) \/ Probe
    BY <1>3 DEF Poll, PollByte, PollEnd, SweepInv, Places, Still, logVars, sinkVars,
                pagerVars, loopVars
  <2> QED BY <2>1, <2>2 DEF Still
<1>4. CASE PagerTurn
  <2>1. PICK btn \in {"none"} \cup Buttons :
             \/ Navigate(btn) \/ Refresh(btn) \/ Wifi(btn) \/ Group(btn)
             \/ RefreshAll(btn) \/ Save(btn) \/ Reboot(btn) \/ Quit(btn) \/ Rest(btn)
    BY <1>4 DEF PagerTurn
  <2>2. CASE RefreshAll(btn)
    BY <2>2 DEF RefreshAll, Key, Turn, BeginSweep
  <2>3. CASE Refresh(btn) \/ Wifi(btn)
    BY <2>3 DEF Refresh, Wifi, Key, Turn, BeginPages
  <2>4. CASE Navigate(btn) \/ Group(btn) \/ Save(btn) \/ Reboot(btn) \/ Quit(btn) \/ Rest(btn)
    <3>1. pc' \in {"batch", "name", "idle", "rebooting", "off"} /\ Still
      BY <2>4 DEF Navigate, Group, Save, Reboot, Quit, Rest, Key, Turn, Still
    <3> QED BY <3>1, <2>4 DEF Still, Navigate, Group, Save, Reboot, Quit, Rest, Key, Turn
  <2> QED BY <2>1, <2>2, <2>3, <2>4
<1>5. CASE Batch
  <2>1. /\ pc = "batch" /\ UNCHANGED <<uartOnly, status, armed, hasBuf, prev>>
        /\ (pc' = "batch" /\ job' = job) \/ (pc' = "loop" /\ job' = "render")
    BY <1>5 DEF Batch, BatchNav, BatchEnd, BeginPages, logVars, sinkVars, loopVars
  <2> QED BY <2>1
<1>6. CASE GroupName
  <2>1. /\ pc \in {"name", "rest"} /\ UNCHANGED <<armed, hasBuf, status>>
        /\ \/ pc' \in {"name", "rest", "idle"} /\ UNCHANGED <<job, prev, uartOnly>>
           \/ pc' = "loop" /\ job' = "group" /\ prev' = uartOnly /\ uartOnly' = TRUE
    BY <1>6 DEF GroupName, NameByte, RestByte, NameNewline, NameTimeout, EndName, NameFrame,
                BeginPages
  <2> QED BY <2>1
<1>7. CASE Host \/ Halted \/ UNCHANGED vars
  <2>1. Still /\ pc' = pc
    BY <1>7 DEF Host, HostLine, HostByte, Halted, vars, Still, logVars, sinkVars, pagerVars,
                loopVars
  <2> QED BY <2>1 DEF Still
<1> QED BY <1>1, <1>2, <1>3, <1>4, <1>5, <1>6, <1>7
        DEF Next, Console, PageLoop

\* The inductive invariant holds in every run of the console.
THEOREM SpecInv == Spec => []Inv
<1>1. Inv /\ [Next]_vars => Inv'
  BY SweepStep, SinkStep DEF Inv
<1> QED BY InitInv, <1>1, PTL DEF Spec

-----------------------------------------------------------------------------
(* The verdict of a sweep rolls up the findings of the selected data pages *)
(* of that sweep (core.c run_probe_mask).                                  *)
THEOREM VerdictFresh == Spec => []VerdictSeesTheSweep
<1>1. Inv => VerdictSeesTheSweep
  <2> SUFFICES ASSUME Inv, Sweeping, pc = "body", cur = 0 PROVE dx = Enabled
    BY DEF VerdictSeesTheSweep
  <2>1. at = NPages + 1 /\ dx = Done(at - 1)
    BY DEF Inv, SweepInv, InPage, PageProgress
  <2>2. at - 1 = NPages
    BY <2>1, PagesAssumption
  <2> QED BY <2>1, <2>2, DoneFacts
<1> QED BY SpecInv, <1>1, PTL

\* Probes write to the sinks their job calls for, and the pager finds the LCD
\* on and the report buffer detached (main.c ipl_main).
THEOREM SinksRight == Spec => []SinksFollowTheJob
<1>1. Inv => SinksFollowTheJob
  BY DEF Inv, SinkInv, SinksFollowTheJob, Running, AtRest
<1> QED BY SpecInv, <1>1, PTL

\* A report that is saved is the latest sweep, whole (report.c save_report).
THEOREM SaveIsLatest == Spec => SaveIsTheLatestSweep
<1>1. Inv /\ [Next]_vars => [file' # file => told' = "failed" \/ (told' = "saved" /\ file' = WholeSweep(epoch))]_vars
  <2> SUFFICES ASSUME Inv, Next, file' # file
               PROVE told' = "failed" \/ (told' = "saved" /\ file' = WholeSweep(epoch))
    OBVIOUS
  <2>1. CASE PageLoop \/ Probe \/ Poll
    BY <2>1 DEF PageLoop, RunPage, SkipPage, RunVerdict, CloseSweep, FinishBoot, FinishAll,
           FinishPages, Probe, ProbeStep, ProbeEnd, Poll, PollByte, PollEnd, logVars, sdVars,
           Inv, SweepInv, Ending, Sweeping, save_report
  <2>2. CASE PagerTurn
    <3>1. PICK btn \in {"none"} \cup Buttons : Save(btn)
      BY <2>2 DEF PagerTurn, Navigate, Refresh, Wifi, Group, RefreshAll, Reboot, Quit, Rest,
                  sdVars
    <3>2. save_report /\ ~Sweeping
      BY <3>1 DEF Save, Key, Turn, Inv, SweepInv, Places, AtRest
    <3> QED BY <3>2 DEF Inv, SweepInv, save_report
  <2>3. CASE Batch \/ GroupName \/ Host \/ Halted
    BY <2>3 DEF Batch, BatchNav, BatchEnd, GroupName, NameByte, RestByte, NameNewline,
           NameTimeout, NameFrame, Host, HostLine, HostByte, Halted, vars, logVars, sdVars
  <2> QED BY <2>1, <2>2, <2>3 DEF Next, Console
<1> QED BY SpecInv, <1>1, PTL DEF Spec, SaveIsTheLatestSweep
=============================================================================
