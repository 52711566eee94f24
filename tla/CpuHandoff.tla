----------------------------- MODULE CpuHandoff -----------------------------
(***************************************************************************)
(* The CPU0 handoff: the BPMP boots a stub on CPU0, which brings PCIe up   *)
(* and reads the Wi-Fi endpoint, and watches it through a mailbox in DRAM  *)
(* (probe_wifi.c pcie_cpu_handoff, cpu_stub/stub.c, cpu_mbox.h).  Any      *)
(* access CPU0 makes may never return, or fault.                           *)
(*                                                                         *)
(* Time passes in ticks while the BPMP watches.  The stub's own waits are  *)
(* all bounded: Dur says how long a stage may take, Gap how long it may go *)
(* without a heartbeat.  A step() is two stores, the stage and then the    *)
(* heartbeat, each cleaned to DRAM on its own, and the BPMP reads both in  *)
(* one cache line: it may look between them.                               *)
(***************************************************************************)
EXTENDS Naturals

CONSTANTS
    Attempts,     \* boots before the detailed report: 3
    EarlyWindow,  \* 2 s without a heartbeat, before CFG_RD
    LateWindow,   \* 300 ms, from CFG_RD on
    Ceiling,      \* the watch's 40000 polls
    DiagWait,     \* the diagnostic boot's 2000 polls
    BootGap,      \* from the release of CPU0 to its first heartbeat
    Dur, Gap      \* per stage: its length, its longest silence

Entry == 1
MselectRd == 2
MselectWr == 3
AfiRd == 4
AfiWr == 5
Xlate == 6
CtrlEn == 7
PortEn == 8
LinkWait == 9
CfgRd == 10
BarRd == 11
StageDone == 12
Stages == Entry .. StageDone

ASSUME WindowsAssumption ==
    /\ Attempts \in Nat \ {0} /\ DiagWait \in Nat /\ Ceiling \in Nat
    /\ EarlyWindow \in Nat /\ LateWindow \in Nat /\ BootGap \in Nat
    /\ Dur \in [Stages -> Nat] /\ Gap \in [Stages -> Nat]

VARIABLES
    sup,      \* where the BPMP is
    attempt,
    alive,    \* it has seen the magic word in this attempt
    verdict,  \* dx "wifi_pcie"
    quiet,    \* ticks since the heartbeat last moved
    spent,    \* ticks in this watch
    inStage,  \* ticks CPU0 has spent in its stage
    cpu,      \* what CPU0 does
    at,       \* where it is within its stage
    mb,       \* the mailbox
    went      \* what it did while this attempt was watched, for the properties

supVars == <<sup, attempt, alive, verdict>>
clock == <<quiet, spent, inStage>>
vars == <<supVars, clock, cpu, at, mb, went>>

ClearMailbox == [magic |-> FALSE, stage |-> 0, done |-> FALSE, aperture |-> FALSE,
                 port |-> "none", id |-> "none", bus |-> FALSE, afi |-> FALSE,
                 exc |-> FALSE]
NoBoot == [stage |-> 0, port |-> "none", id |-> "none", exc |-> FALSE,
           wedged |-> FALSE]

Verdict(kind, s) == [kind |-> kind, stage |-> s]
NoVerdict == Verdict("none", 0)

Watching == sup \in {"watch", "diag"}
Returned == sup \in {"returned", "rebooting"}

-----------------------------------------------------------------------------
(* CPU0: cpu_stub_main.                                                    *)

Recorded(w) == IF sup = "watch" THEN w ELSE went

\* step(): the breadcrumb, with what the stage before it left in the mailbox.
Enter(s, box, w) ==
    /\ mb' = [box EXCEPT !.stage = s]
    /\ went' = Recorded([w EXCEPT !.stage = s])
    /\ at' = "step"
    /\ UNCHANGED <<supVars, clock>>

\* step(): the heartbeat.
Bump ==
    /\ cpu = "running" /\ at = "step"
    /\ at' = "go" /\ quiet' = 0 /\ inStage' = 0
    /\ UNCHANGED <<supVars, spent, cpu, mb, went>>

Start ==
    /\ cpu = "released" /\ cpu' = "running"
    /\ Enter(Entry, [mb EXCEPT !.magic = TRUE], went)

At(s, place) == cpu = "running" /\ mb.stage = s /\ at = place /\ UNCHANGED cpu

Passes(stages) == \E s \in stages : At(s, "go") /\ Enter(s + 1, mb, went)

\* The clock and the PHY: nobody looks at what became of them.
PhyStage == Passes({Entry})
\* The aperture's registers read.
ProbeStage == Passes({MselectRd, MselectWr, AfiRd})
\* The windows, the controller, and port 0 tried first, whatever comes of it.
SetupStage == Passes({Xlate, CtrlEn})
PortStage == Passes({PortEn})

NextStage == PhyStage \/ ProbeStage \/ SetupStage \/ PortStage

\* The witness write reads back, or nothing is there to talk to.
Witness ==
    /\ At(AfiWr, "go")
    /\ \/ Enter(Xlate, [mb EXCEPT !.aperture = TRUE], went)
       \/ Enter(StageDone, [mb EXCEPT !.port = "down"], [went EXCEPT !.port = "down"])

LinkUp ==
    /\ At(LinkWait, "go")
    /\ Enter(CfgRd, [mb EXCEPT !.port = "up"], [went EXCEPT !.port = "up"])

NoLink ==
    /\ At(LinkWait, "go")
    /\ \E code \in BOOLEAN :
        Enter(StageDone, [mb EXCEPT !.port = "down", !.afi = code],
              [went EXCEPT !.port = "down"])

\* The bridge is programmed and read back (rp_bus, rp_cmd); another heartbeat.
Bridge ==
    /\ At(CfgRd, "go")
    /\ at' = "bridged" /\ quiet' = 0
    /\ \E took \in BOOLEAN : mb' = [mb EXCEPT !.bus = took]
    /\ UNCHANGED <<supVars, spent, inStage, went>>

\* The first endpoint read answers; AFI_INTR_CODE is sampled behind it.
FirstRead ==
    /\ At(CfgRd, "bridged")
    /\ at' = "read"
    /\ \E code \in BOOLEAN : mb' = [mb EXCEPT !.afi = code]
    /\ UNCHANGED <<supVars, clock, went>>

\* Broadcom's vendor ID is enough to go on to the BARs.
ReadId ==
    /\ At(CfgRd, "read")
    /\ \E id \in {"4356", "other broadcom", "other"}, code \in BOOLEAN :
        Enter(IF id = "other" THEN StageDone ELSE BarRd,
              [mb EXCEPT !.id = id, !.afi = code], [went EXCEPT !.id = id])

BarsRead ==
    /\ At(BarRd, "go")
    /\ \E code \in BOOLEAN : Enter(StageDone, [mb EXCEPT !.afi = code], went)

Finish ==
    /\ cpu = "running" /\ mb.stage = StageDone /\ at = "go"
    /\ cpu' = "done"
    /\ mb' = [mb EXCEPT !.done = TRUE]
    /\ UNCHANGED <<supVars, clock, at, went>>

\* A beat inside a stage: wait_bit, the port 0 polls, cfg_wr_verify.
Beat ==
    /\ cpu = "running" /\ at = "go" /\ quiet > 0
    /\ mb.stage \in {Entry, CtrlEn, BarRd}
    /\ quiet' = 0
    /\ UNCHANGED <<supVars, spent, inStage, cpu, at, mb, went>>

MayBreak == cpu = "released" \/ (cpu = "running" /\ at # "step" /\ mb.stage < StageDone)

\* An access that never returns; a cluster that does not start.
Hang ==
    /\ MayBreak /\ cpu' = "hung"
    /\ UNCHANGED <<supVars, clock, at, mb, went>>

\* exc_common: record and park.
Fault ==
    /\ MayBreak /\ cpu' = "parked"
    /\ mb' = [mb EXCEPT !.exc = TRUE]
    /\ went' = Recorded([went EXCEPT !.exc = TRUE])
    /\ UNCHANGED <<supVars, clock, at>>

Cpu == Bump \/ Start \/ NextStage \/ Witness \/ LinkUp \/ NoLink \/ Bridge
       \/ FirstRead \/ ReadId \/ BarsRead \/ Finish \/ Beat \/ Hang \/ Fault

-----------------------------------------------------------------------------
(* The BPMP: pcie_cpu_handoff.                                             *)

Init ==
    /\ sup = "boot" /\ attempt = 0 /\ alive = FALSE
    /\ quiet = 0 /\ spent = 0 /\ inStage = 0
    /\ cpu = "off" /\ at = "go"
    /\ mb = ClearMailbox
    /\ verdict = NoVerdict /\ went = NoBoot

\* _cpu0_boot_checked: CPU0 is released.
Release(place) ==
    /\ cpu' = "released" /\ sup' = place
    /\ quiet' = 0 /\ spent' = 0 /\ inStage' = 0 /\ at' = "go"

Boot ==
    /\ sup = "boot"
    /\ Release("watch")
    /\ alive' = FALSE /\ went' = NoBoot
    /\ UNCHANGED <<attempt, verdict, mb>>

\* A rail, a partition or the RAM repair does not come up: down again, no retry.
BootFails ==
    /\ sup = "boot"
    /\ cpu' = "off" /\ verdict' = Verdict("no power", 0) /\ sup' = "returned"
    /\ UNCHANGED <<attempt, alive, clock, at, mb, went>>

\* Mutant: one window for every stage.
WindowLate(s) == LateWindow
Window(s) == IF s < CfgRd THEN EarlyWindow ELSE LateWindow
Stalled == alive /\ quiet > Window(mb.stage)

SeeAlive ==
    /\ sup = "watch" /\ mb.magic /\ ~alive
    /\ alive' = TRUE
    /\ UNCHANGED <<sup, attempt, verdict, clock, cpu, at, mb, went>>

GiveUp ==
    /\ sup = "watch" /\ ~mb.done
    /\ mb.magic => alive
    /\ Stalled \/ spent = Ceiling
    /\ sup' = "stalled"
    /\ went' = [went EXCEPT !.wedged = cpu \in {"hung", "parked"}]
    /\ UNCHANGED <<attempt, alive, verdict, clock, cpu, at, mb>>

NeverAlive ==
    /\ sup = "stalled" /\ ~alive
    /\ verdict' = Verdict("no start", 0) /\ sup' = "powergate"
    /\ UNCHANGED <<attempt, alive, clock, cpu, at, mb, went>>

\* Mutant: what the code did once, clearing only done.
RetryMailboxDoneOnly == [mb EXCEPT !.done = FALSE]
RetryMailbox == ClearMailbox

\* Mutant: one attempt too many.
RetryOnceMore ==
    /\ sup = "stalled" /\ alive /\ attempt < Attempts
    /\ cpu' = "off"
    /\ mb' = RetryMailbox
    /\ attempt' = attempt + 1 /\ sup' = "boot"
    /\ UNCHANGED <<alive, verdict, clock, at, went>>

\* Mutant: the attempt is not counted.
RetryUncounted ==
    /\ sup = "stalled" /\ alive /\ attempt < Attempts - 1
    /\ cpu' = "off"
    /\ mb' = RetryMailbox /\ sup' = "boot"
    /\ UNCHANGED <<attempt, alive, verdict, clock, at, went>>

\* Powergate, pulse AFI's reset, and go around with a clean mailbox.
Retry ==
    /\ sup = "stalled" /\ alive /\ attempt < Attempts - 1
    /\ cpu' = "off"
    /\ mb' = RetryMailbox
    /\ attempt' = attempt + 1 /\ sup' = "boot"
    /\ UNCHANGED <<alive, verdict, clock, at, went>>

LastStall == sup = "stalled" /\ alive /\ attempt = Attempts - 1

\* Only a read that hung from CFG_RD on, with nothing latched yet, is looked into.
WantsDiag == mb.stage >= CfgRd /\ ~mb.afi

\* diag_mode is set in the mailbox too, but nothing on CPU0 reads it.
DiagBoot ==
    /\ LastStall /\ WantsDiag
    /\ Release("diag")
    /\ mb' = [mb EXCEPT !.done = FALSE]
    /\ UNCHANGED <<attempt, alive, verdict, went>>

DiagBootFails ==
    /\ LastStall /\ WantsDiag
    /\ cpu' = "off" /\ sup' = "report"
    /\ UNCHANGED <<attempt, alive, verdict, clock, at, mb, went>>

DiagEnds ==
    /\ sup = "diag"
    /\ mb.done \/ spent = DiagWait
    /\ sup' = "report"
    /\ UNCHANGED <<attempt, alive, verdict, clock, cpu, at, mb, went>>

NoDiag ==
    /\ LastStall /\ ~WantsDiag
    /\ sup' = "report"
    /\ UNCHANGED <<attempt, alive, verdict, clock, cpu, at, mb, went>>

\* The detailed report, from the mailbox as it is now.
StallVerdict ==
    IF mb.exc THEN Verdict("fault", 0)
    ELSE IF mb.bus THEN Verdict("endpoint read hung", 0)
    ELSE Verdict("stalled", mb.stage)

Report ==
    /\ sup = "report"
    /\ verdict' = StallVerdict /\ sup' = "powergate"
    /\ UNCHANGED <<attempt, alive, clock, cpu, at, mb, went>>

\* The stub ran to completion.
Completed == sup = "watch" /\ alive /\ mb.done

\* Mutant: a return where the code breaks out of the loop.
NoApertureReturns ==
    /\ Completed /\ ~mb.aperture
    /\ verdict' = Verdict("no aperture", 0) /\ sup' = "returned"
    /\ UNCHANGED <<attempt, alive, clock, cpu, at, mb, went>>

NoAperture ==
    /\ Completed /\ ~mb.aperture
    /\ verdict' = Verdict("no aperture", 0) /\ sup' = "powergate"
    /\ UNCHANGED <<attempt, alive, clock, cpu, at, mb, went>>

\* This branch returns on its own, and powergates first.
ReportNoLink ==
    /\ Completed /\ mb.aperture /\ mb.port # "up"
    /\ verdict' = Verdict("no link", 0)
    /\ cpu' = "off" /\ sup' = "returned"
    /\ UNCHANGED <<attempt, alive, clock, at, mb, went>>

Identified ==
    /\ Completed /\ mb.aperture /\ mb.port = "up"
    /\ verdict' = Verdict(IF mb.id = "4356" THEN "pass" ELSE "unexpected device", 0)
    /\ sup' = "powergate"
    /\ UNCHANGED <<attempt, alive, clock, cpu, at, mb, went>>

Powergate ==
    /\ sup = "powergate"
    /\ cpu' = "off" /\ sup' = "returned"
    /\ UNCHANGED <<attempt, alive, verdict, clock, at, mb, went>>

\* The watch and the retry's delays look for the PC's 'R'.
Reboot ==
    /\ sup \in {"watch", "stalled"}
    /\ sup' = "rebooting"
    /\ UNCHANGED <<attempt, alive, verdict, clock, cpu, at, mb, went>>

Supervisor == Boot \/ BootFails \/ SeeAlive \/ GiveUp \/ NeverAlive \/ Retry
              \/ DiagBoot \/ DiagBootFails \/ DiagEnds \/ NoDiag \/ Report
              \/ NoAperture \/ ReportNoLink \/ Identified \/ Powergate

\* The stub keeps within its bounds; the BPMP, which looks every 500 us, is never
\* a tick late.
StubInTime ==
    CASE cpu = "released" -> quiet < BootGap
      [] cpu = "running"  -> /\ at # "step"
                             /\ quiet < Gap[mb.stage] /\ inStage < Dur[mb.stage]
      [] OTHER            -> TRUE

Tick ==
    /\ Watching /\ StubInTime /\ ~mb.done
    /\ sup = "watch" => ~Stalled /\ spent < Ceiling /\ (mb.magic => alive)
    /\ sup = "diag" => spent < DiagWait
    /\ quiet' = quiet + 1 /\ spent' = spent + 1
    /\ inStage' = IF cpu = "running" THEN inStage + 1 ELSE inStage
    /\ UNCHANGED <<supVars, cpu, at, mb, went>>

Stop == Returned /\ UNCHANGED vars

Next == Cpu \/ Supervisor \/ Tick \/ Reboot \/ Stop

Spec == Init /\ [][Next]_vars

\* The BPMP runs and time passes; CPU0's loops are all bounded, so it moves on or
\* hangs.
FairSpec == Spec /\ WF_vars(Supervisor) /\ WF_vars(Tick) /\ WF_vars(Cpu)

-----------------------------------------------------------------------------
Verdicts == [kind : {"none", "no power", "no start", "fault", "stalled",
                     "endpoint read hung", "no aperture", "no link", "pass",
                     "unexpected device"}, stage : 0 .. StageDone]
Ports == {"none", "up", "down"}
Ids == {"none", "4356", "other broadcom", "other"}
Mailboxes == [magic : BOOLEAN, stage : 0 .. StageDone, done : BOOLEAN,
              aperture : BOOLEAN, port : Ports, id : Ids,
              bus : BOOLEAN, afi : BOOLEAN, exc : BOOLEAN]
Boots == [stage : 0 .. StageDone, port : Ports, id : Ids,
          exc : BOOLEAN, wedged : BOOLEAN]

(* Type correctness: attempts and clocks stay within their bounds.         *)
TypeOK ==
    /\ sup \in {"boot", "watch", "stalled", "diag", "report", "powergate",
                "returned", "rebooting"}
    /\ attempt \in 0 .. Attempts - 1
    /\ alive \in BOOLEAN
    /\ verdict \in Verdicts
    /\ quiet \in Nat /\ spent \in Nat /\ inStage \in Nat
    /\ cpu \in {"off", "released", "running", "hung", "parked", "done"}
    /\ at \in {"go", "step", "bridged", "read"}
    /\ mb \in Mailboxes
    /\ went \in Boots

(* Whatever the outcome, the handoff hands the console back with the       *)
(* cluster powergated: the pager never waits for a key over a CPU that     *)
(* still runs (probe_wifi.c:860-862).                                      *)
ClusterOffAtTheEnd == sup = "returned" => cpu = "off"

(* What the record says of the wireless card is true of the boot that was  *)
(* watched last, however many attempts, wedges and re-runs came before: an *)
(* endpoint that hung CPU0 had a trained link, a dead link was seen dead,  *)
(* an identified chip answered in this very boot (probe_wifi.c:585-589).   *)
VerdictIsOfThisAttempt ==
    CASE verdict.kind = "endpoint read hung" -> went.wedged => went.port = "up"
      [] verdict.kind = "no link"            -> went.port = "down"
      [] verdict.kind = "pass"               -> went.id = "4356" /\ went.port = "up"
      [] verdict.kind = "no start"           -> went.stage = 0
      [] verdict.kind = "stalled"            -> ~went.exc
      [] OTHER                               -> TRUE

\* The stages fit the watch: no silence is longer than its stage's window, and a
\* boot that goes through all of them, the latest it can be in each being t, is
\* over before the watch's ceiling.
StagesFit(t) ==
    /\ t \in [0 .. StageDone -> Nat]
    /\ t[0] = BootGap /\ \A s \in Stages : t[s] = t[s - 1] + Dur[s]
    /\ t[StageDone] < Ceiling
    /\ BootGap <= EarlyWindow
    /\ \A s \in Stages : Gap[s] <= IF s < CfgRd THEN EarlyWindow ELSE LateWindow

(* A watch is given up only on a stub that hangs or has faulted, or that   *)
(* is between the two stores of a step: a slow stage is waited for.        *)
StallIsRealOrMidStep ==
    [][GiveUp => cpu \in {"hung", "parked"} \/ (at = "step" /\ mb.stage >= CfgRd)]_vars

(* "treating a stalled heartbeat rather than a fixed deadline as failure - *)
(* that way a slow step is not mistaken for a dead one"                    *)
(* (probe_wifi.c:515-517).                                                 *)
SlowIsNotDead == [][GiveUp => cpu \in {"hung", "parked"}]_vars

(* Wherever CPU0 wedges, and however often, the handoff ends: with a       *)
(* verdict and a powergated cluster, or in the reboot the PC asked for.    *)
AlwaysReturns == <>Returned
=============================================================================
