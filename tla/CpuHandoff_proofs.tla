------------------------- MODULE CpuHandoff_proofs -------------------------
(***************************************************************************)
(* Proofs about CpuHandoff, for every number of attempts and every timing. *)
(* Only the last, StallsAreReal, leans on the windows: it is about stages  *)
(* that fit them.                                                          *)
(***************************************************************************)
EXTENDS CpuHandoff, TLAPS

\* The watched boot, seen from the mailbox, while nothing has been given up on.
Tracks ==
    /\ went.stage = mb.stage /\ went.port = mb.port
    /\ went.id = mb.id /\ went.exc = mb.exc

\* What a boot that began with a clean mailbox has put in it.
Shape ==
    /\ mb.stage < CfgRd => mb.port = "none" /\ mb.bus = FALSE /\ mb.id = "none"
    /\ mb.stage \in {CfgRd, BarRd} => mb.port = "up"
    /\ mb.stage = StageDone => mb.port \in {"up", "down"}
    /\ mb.bus = TRUE => mb.port = "up"
    /\ mb.id # "none" => mb.port = "up"
    /\ mb.magic = FALSE => mb.stage = 0
    /\ mb.done = TRUE => mb.stage = StageDone
    /\ cpu = "released" => mb.stage = 0
    /\ cpu \in {"hung", "parked"} => mb.stage < StageDone

Given == sup = "stalled" /\ went.wedged = TRUE

InvBoot == sup = "boot" => cpu = "off" /\ mb = ClearMailbox
InvOff == sup = "returned" => cpu = "off"
InvWatch == sup = "watch" \/ Given => Tracks /\ Shape
InvWedged == Given => cpu \in {"hung", "parked"}
InvNoStart == sup = "stalled" /\ alive = FALSE => went.stage = 0
InvDiag == sup = "diag" /\ went.wedged = TRUE => went.port = "up"
InvReport == sup = "report" /\ went.wedged = TRUE =>
                went.port = "up" \/ (mb.bus = FALSE /\ cpu \in {"hung", "parked"})
InvFault == sup \in {"watch", "stalled", "diag", "report"} /\ went.exc = TRUE => mb.exc = TRUE
InvNone == sup \notin {"powergate", "returned", "rebooting"} => verdict.kind = "none"

Rest ==
    /\ InvBoot /\ InvOff /\ InvWedged /\ InvNoStart
    /\ InvDiag /\ InvReport /\ InvFault /\ InvNone

Inv == TypeOK /\ InvWatch /\ Rest /\ VerdictIsOfThisAttempt

USE DEF Entry, MselectRd, MselectWr, AfiRd, AfiWr, Xlate, CtrlEn, PortEn, LinkWait,
        CfgRd, BarRd, StageDone, Stages

-----------------------------------------------------------------------------
(* The stores the stub and the BPMP make keep the mailbox a mailbox.       *)
LEMMA StageStore ==
    ASSUME NEW m \in Mailboxes, NEW s \in 0 .. StageDone
    PROVE  [m EXCEPT !.stage = s] \in Mailboxes
BY DEF Mailboxes

\* A store to one of the mailbox's flags keeps it a mailbox.
LEMMA FlagStores ==
    ASSUME NEW m \in Mailboxes, NEW b \in BOOLEAN
    PROVE  /\ [m EXCEPT !.magic = b] \in Mailboxes
           /\ [m EXCEPT !.done = b] \in Mailboxes
           /\ [m EXCEPT !.aperture = b] \in Mailboxes
           /\ [m EXCEPT !.bus = b] \in Mailboxes
           /\ [m EXCEPT !.afi = b] \in Mailboxes
           /\ [m EXCEPT !.exc = b] \in Mailboxes
BY DEF Mailboxes

\* A store to one of the mailbox's result words keeps it a mailbox.
LEMMA ResultStores ==
    ASSUME NEW m \in Mailboxes, NEW p \in Ports, NEW i \in Ids, NEW b \in BOOLEAN
    PROVE  /\ [m EXCEPT !.port = p] \in Mailboxes
           /\ [m EXCEPT !.port = p, !.afi = b] \in Mailboxes
           /\ [m EXCEPT !.id = i, !.afi = b] \in Mailboxes
BY DEF Mailboxes

\* A store to a field of the boot's record keeps it one.
LEMMA BootStores ==
    ASSUME NEW w \in Boots
    PROVE  /\ \A s \in 0 .. StageDone : [w EXCEPT !.stage = s] \in Boots
           /\ \A p \in Ports : [w EXCEPT !.port = p] \in Boots
           /\ \A i \in Ids : [w EXCEPT !.id = i] \in Boots
           /\ \A b \in BOOLEAN : [w EXCEPT !.exc = b] \in Boots
           /\ \A b \in BOOLEAN : [w EXCEPT !.wedged = b] \in Boots
BY DEF Boots

\* The cleared mailbox and the empty records have their types.
LEMMA CleanTypes == ClearMailbox \in Mailboxes /\ NoBoot \in Boots /\ NoVerdict \in Verdicts
BY DEF ClearMailbox, NoBoot, NoVerdict, Verdict, Mailboxes, Boots, Verdicts, Ports, Ids

\* Every verdict the supervisor can write has its type.
LEMMA VerdictTypes ==
    /\ \A k \in {"no power", "no start", "fault", "endpoint read hung", "no aperture",
                 "no link", "pass", "unexpected device"} : Verdict(k, 0) \in Verdicts
    /\ \A s \in 0 .. StageDone : Verdict("stalled", s) \in Verdicts
<1>0. 0 \in 0 .. StageDone OBVIOUS
<1>1. ASSUME NEW k \in {"no power", "no start", "fault", "endpoint read hung",
                        "no aperture", "no link", "pass", "unexpected device"}
      PROVE  Verdict(k, 0) \in Verdicts
  BY <1>0, Zenon DEF Verdict, Verdicts
<1>2. ASSUME NEW s \in 0 .. StageDone PROVE Verdict("stalled", s) \in Verdicts
  BY DEF Verdict, Verdicts
<1>. QED BY <1>1, <1>2

\* step(): storing a stage, then the heartbeat, keeps the types.
LEMMA EnterTypes ==
    ASSUME TypeOK, NEW s \in 0 .. StageDone, NEW box \in Mailboxes, NEW w \in Boots,
           Enter(s, box, w)
    PROVE  mb' \in Mailboxes /\ went' \in Boots /\ at' = "step"
           /\ UNCHANGED <<supVars, clock>>
<1>1. [box EXCEPT !.stage = s] \in Mailboxes BY StageStore
<1>2. [w EXCEPT !.stage = s] \in Boots BY BootStores
<1>3. went \in Boots BY DEF TypeOK
<1>. QED BY <1>1, <1>2, <1>3 DEF Enter, Recorded

\* Every step of the stub on CPU0 keeps the types.
LEMMA StubTypes == TypeOK /\ Cpu => TypeOK'
<1> SUFFICES ASSUME TypeOK, Cpu PROVE TypeOK'
  OBVIOUS
<1>0. mb \in Mailboxes /\ went \in Boots /\ mb.stage \in 0 .. StageDone
  BY DEF TypeOK, Mailboxes
<1>a. StageDone \in 0 .. StageDone /\ BarRd \in 0 .. StageDone OBVIOUS
<1>1. CASE Bump
  BY <1>1 DEF TypeOK, Bump, supVars
<1>2. CASE Start
  <2>1. [mb EXCEPT !.magic = TRUE] \in Mailboxes BY <1>0, FlagStores
  <2>2. Enter(Entry, [mb EXCEPT !.magic = TRUE], went) /\ cpu' = "running" BY <1>2 DEF Start
  <2>. QED BY <1>0, <2>1, <2>2, EnterTypes DEF TypeOK, supVars, clock
<1>3. CASE NextStage
  <2>1. PICK s \in {Entry, MselectRd, MselectWr, AfiRd, Xlate, CtrlEn, PortEn} :
          At(s, "go") /\ Enter(s + 1, mb, went)
    BY <1>3 DEF NextStage, PhyStage, ProbeStage, SetupStage, PortStage, Passes
  <2>2. s + 1 \in 0 .. StageDone OBVIOUS
  <2>. QED BY <1>0, <2>1, <2>2, EnterTypes DEF TypeOK, At, supVars, clock
<1>4. CASE Witness
  <2>1. [mb EXCEPT !.aperture = TRUE] \in Mailboxes BY <1>0, FlagStores
  <2>2. [mb EXCEPT !.port = "down"] \in Mailboxes BY <1>0, ResultStores DEF Ports, Ids
  <2>3. [went EXCEPT !.port = "down"] \in Boots BY <1>0, BootStores DEF Ports, Ids
  <2>4. CASE Enter(Xlate, [mb EXCEPT !.aperture = TRUE], went)
    BY <1>0, <1>4, <2>1, <2>4, EnterTypes DEF TypeOK, Witness, At, supVars, clock
  <2>5. CASE Enter(StageDone, [mb EXCEPT !.port = "down"], [went EXCEPT !.port = "down"])
    BY <1>0, <1>4, <2>2, <2>3, <2>5, EnterTypes DEF TypeOK, Witness, At, supVars, clock
  <2>. QED BY <1>4, <2>4, <2>5 DEF Witness
<1>5. CASE LinkUp
  <2>1. [mb EXCEPT !.port = "up"] \in Mailboxes BY <1>0, ResultStores DEF Ports, Ids
  <2>2. [went EXCEPT !.port = "up"] \in Boots BY <1>0, BootStores DEF Ports, Ids
  <2>. QED BY <1>5, <2>1, <2>2, EnterTypes DEF TypeOK, LinkUp, At, supVars, clock
<1>6. CASE NoLink
  <2>1. PICK code \in BOOLEAN :
          Enter(StageDone, [mb EXCEPT !.port = "down", !.afi = code],
                [went EXCEPT !.port = "down"])
    BY <1>6 DEF NoLink
  <2>2. [mb EXCEPT !.port = "down", !.afi = code] \in Mailboxes
    BY <1>0, ResultStores DEF Ports, Ids
  <2>3. [went EXCEPT !.port = "down"] \in Boots BY <1>0, BootStores DEF Ports, Ids
  <2>. QED BY <1>6, <2>1, <2>2, <2>3, EnterTypes DEF TypeOK, NoLink, At, supVars, clock
<1>7. CASE Bridge
  BY <1>0, <1>7, FlagStores DEF TypeOK, Bridge, At, supVars
<1>8. CASE FirstRead
  BY <1>0, <1>8, FlagStores DEF TypeOK, FirstRead, At, supVars, clock
<1>9. CASE ReadId
  <2>1. PICK id \in {"4356", "other broadcom", "other"}, code \in BOOLEAN :
          Enter(IF id = "other" THEN StageDone ELSE BarRd,
                [mb EXCEPT !.id = id, !.afi = code], [went EXCEPT !.id = id])
    BY <1>9 DEF ReadId
  <2>2. [mb EXCEPT !.id = id, !.afi = code] \in Mailboxes
    BY <1>0, ResultStores DEF Ports, Ids
  <2>3. [went EXCEPT !.id = id] \in Boots BY <1>0, BootStores DEF Ports, Ids
  <2>4. (IF id = "other" THEN StageDone ELSE BarRd) \in 0 .. StageDone BY <1>a, Zenon
  <2>5. cpu' = cpu BY <1>9 DEF ReadId, At
  <2>6. mb' \in Mailboxes /\ went' \in Boots /\ at' = "step" /\ UNCHANGED <<supVars, clock>>
    BY <2>1, <2>2, <2>3, <2>4, EnterTypes
  <2>. QED BY <2>5, <2>6 DEF TypeOK, supVars, clock
<1>10. CASE BarsRead
  <2>1. PICK code \in BOOLEAN : Enter(StageDone, [mb EXCEPT !.afi = code], went)
    BY <1>10 DEF BarsRead
  <2>2. [mb EXCEPT !.afi = code] \in Mailboxes BY <1>0, FlagStores
  <2>. QED BY <1>0, <1>10, <2>1, <2>2, EnterTypes DEF TypeOK, BarsRead, At, supVars, clock
<1>11. CASE Finish
  BY <1>0, <1>11, FlagStores DEF TypeOK, Finish, supVars, clock
<1>12. CASE Beat
  BY <1>12 DEF TypeOK, Beat, supVars
<1>13. CASE Hang
  BY <1>13 DEF TypeOK, Hang, supVars, clock
<1>14. CASE Fault
  <2>1. [mb EXCEPT !.exc = TRUE] \in Mailboxes BY <1>0, FlagStores
  <2>2. [went EXCEPT !.exc = TRUE] \in Boots BY <1>0, BootStores DEF Ports, Ids
  <2>3. mb' \in Mailboxes /\ went' \in Boots BY <1>0, <1>14, <2>1, <2>2 DEF Fault, Recorded
  <2>4. cpu' = "parked" /\ UNCHANGED <<supVars, clock, at>> BY <1>14 DEF Fault
  <2>. QED BY <2>3, <2>4 DEF TypeOK, supVars, clock
<1>. QED BY <1>1, <1>2, <1>3, <1>4, <1>5, <1>6, <1>7, <1>8, <1>9, <1>10, <1>11, <1>12,
            <1>13, <1>14 DEF Cpu

\* Every step of pcie_cpu_handoff keeps the types.
LEMMA SupervisorTypes == TypeOK /\ Supervisor => TypeOK'
<1> SUFFICES ASSUME TypeOK, Supervisor PROVE TypeOK'
  OBVIOUS
<1>0. mb \in Mailboxes /\ went \in Boots /\ mb.stage \in 0 .. StageDone
  BY DEF TypeOK, Mailboxes
<1>1. CASE Boot
  BY <1>0, <1>1, CleanTypes DEF TypeOK, Boot, Release
<1>2. CASE BootFails
  <2>1. verdict' \in Verdicts BY <1>0, <1>2, VerdictTypes DEF BootFails
  <2>. QED BY <1>2, <2>1 DEF TypeOK, BootFails, clock
<1>3. CASE SeeAlive
  BY <1>0, <1>3 DEF TypeOK, SeeAlive, clock
<1>4. CASE GiveUp
  <2>1. (cpu \in {"hung", "parked"}) \in BOOLEAN OBVIOUS
  <2>2. [went EXCEPT !.wedged = cpu \in {"hung", "parked"}] \in Boots
    BY <1>0, <2>1, BootStores DEF Ports, Ids
  <2>. QED BY <1>4, <2>2 DEF TypeOK, GiveUp, clock
<1>5. CASE NeverAlive
  <2>1. verdict' \in Verdicts BY <1>0, <1>5, VerdictTypes DEF NeverAlive
  <2>. QED BY <1>5, <2>1 DEF TypeOK, NeverAlive, clock
<1>6. CASE Retry
  BY <1>0, <1>6, CleanTypes, WindowsAssumption DEF TypeOK, Retry, RetryMailbox, clock
<1>7. CASE DiagBoot
  BY <1>0, <1>7, FlagStores DEF TypeOK, DiagBoot, Release
<1>8. CASE DiagBootFails
  BY <1>0, <1>8 DEF TypeOK, DiagBootFails, clock
<1>9. CASE DiagEnds
  BY <1>0, <1>9 DEF TypeOK, DiagEnds, clock
<1>10. CASE NoDiag
  BY <1>0, <1>10 DEF TypeOK, NoDiag, clock
<1>11. CASE Report
  <2>1. verdict' \in Verdicts BY <1>0, <1>11, VerdictTypes DEF Report, StallVerdict
  <2>. QED BY <1>11, <2>1 DEF TypeOK, Report, clock
<1>12. CASE NoAperture
  <2>1. verdict' \in Verdicts BY <1>0, <1>12, VerdictTypes DEF NoAperture
  <2>. QED BY <1>12, <2>1 DEF TypeOK, NoAperture, clock
<1>13. CASE ReportNoLink
  <2>1. verdict' \in Verdicts BY <1>0, <1>13, VerdictTypes DEF ReportNoLink
  <2>. QED BY <1>13, <2>1 DEF TypeOK, ReportNoLink, clock
<1>14. CASE Identified
  <2>1. verdict' \in Verdicts BY <1>0, <1>14, VerdictTypes DEF Identified
  <2>. QED BY <1>14, <2>1 DEF TypeOK, Identified, clock
<1>15. CASE Powergate
  BY <1>0, <1>15 DEF TypeOK, Powergate, clock
<1>. QED BY <1>1, <1>2, <1>3, <1>4, <1>5, <1>6, <1>7, <1>8, <1>9, <1>10, <1>11, <1>12, <1>13, <1>14, <1>15 DEF Supervisor

\* The state at the call of pcie_cpu_handoff has its types.
LEMMA InitTypes == Init => TypeOK
<1>1. 0 \in 0 .. Attempts - 1 BY WindowsAssumption
<1>2. ASSUME Init PROVE mb \in Mailboxes /\ went \in Boots /\ verdict \in Verdicts
  BY <1>2, CleanTypes DEF Init
<1>3. ASSUME Init
      PROVE  /\ sup = "boot" /\ attempt = 0 /\ alive = FALSE /\ cpu = "off" /\ at = "go"
             /\ quiet = 0 /\ spent = 0 /\ inStage = 0
  BY <1>3 DEF Init
<1>. QED BY <1>1, <1>2, <1>3 DEF TypeOK

\* Every step of the hand-off keeps the types.
LEMMA StepTypes == TypeOK /\ [Next]_vars => TypeOK'
<1> SUFFICES ASSUME TypeOK, [Next]_vars PROVE TypeOK'
  OBVIOUS
<1>1. CASE Tick
  BY <1>1 DEF TypeOK, Tick, supVars
<1>2. CASE Reboot
  BY <1>2 DEF TypeOK, Reboot, clock
<1>3. CASE UNCHANGED vars
  BY <1>3 DEF TypeOK, vars, supVars, clock
<1>. QED BY <1>1, <1>2, <1>3, StubTypes, SupervisorTypes DEF Next, Stop

(* TypeCorrect: the handoff counts at most Attempts boots and the mailbox  *)
(* holds what its fields may hold, for every choice of the windows.        *)
THEOREM TypeCorrect == Spec => []TypeOK
BY InitTypes, StepTypes, PTL DEF Spec

-----------------------------------------------------------------------------
(* What TypeOK says of the two records, in the form their updates need.    *)
LEMMA Records ==
    TypeOK => /\ mb = [magic |-> mb.magic, stage |-> mb.stage, done |-> mb.done,
                       aperture |-> mb.aperture, port |-> mb.port, id |-> mb.id,
                       bus |-> mb.bus, afi |-> mb.afi, exc |-> mb.exc]
              /\ went = [stage |-> went.stage, port |-> went.port, id |-> went.id,
                         exc |-> went.exc, wedged |-> went.wedged]
              /\ mb.stage \in 0 .. StageDone
              /\ mb.port \in Ports
<1>1. ASSUME NEW m \in Mailboxes
      PROVE  /\ m = [magic |-> m.magic, stage |-> m.stage, done |-> m.done,
                     aperture |-> m.aperture, port |-> m.port, id |-> m.id,
                     bus |-> m.bus, afi |-> m.afi, exc |-> m.exc]
             /\ m.stage \in 0 .. StageDone /\ m.port \in Ports
  BY DEF Mailboxes
<1>2. ASSUME NEW w \in Boots
      PROVE  w = [stage |-> w.stage, port |-> w.port, id |-> w.id,
                  exc |-> w.exc, wedged |-> w.wedged]
  BY DEF Boots
<1>. QED BY <1>1, <1>2 DEF TypeOK

(* What no step of CPU0 does: it leaves the BPMP's variables alone, is not *)
(* recorded once the watch is over, and never takes a fault record back.   *)
LEMMA StubFrame ==
    ASSUME TypeOK, Cpu
    PROVE  /\ UNCHANGED supVars
           /\ sup # "watch" => went' = went
           /\ mb.exc = TRUE => mb'.exc = TRUE
           /\ cpu \in {"released", "running"}
           /\ cpu' \in {"running", "done", "hung", "parked"}
<1> USE Records
<1>1. CASE Bump
  BY <1>1 DEF Bump
<1>2. CASE Start
  BY <1>2 DEF Start, Enter, Recorded
<1>3. CASE NextStage
  BY <1>3 DEF NextStage, PhyStage, ProbeStage, SetupStage, PortStage, Passes, Enter, Recorded, At
<1>4. CASE Witness
  BY <1>4 DEF Witness, Enter, Recorded, At
<1>5. CASE LinkUp
  BY <1>5 DEF LinkUp, Enter, Recorded, At
<1>6. CASE NoLink
  BY <1>6 DEF NoLink, Enter, Recorded, At
<1>7. CASE Bridge
  BY <1>7 DEF Bridge, At
<1>8. CASE FirstRead
  BY <1>8 DEF FirstRead, At
<1>9. CASE ReadId
  BY <1>9 DEF ReadId, Enter, Recorded, At
<1>10. CASE BarsRead
  BY <1>10 DEF BarsRead, Enter, Recorded, At
<1>11. CASE Finish
  BY <1>11 DEF Finish
<1>12. CASE Beat
  BY <1>12 DEF Beat
<1>13. CASE Hang
  BY <1>13 DEF Hang, MayBreak
<1>14. CASE Fault
  BY <1>14 DEF Fault, MayBreak, Recorded
<1>. QED BY <1>1, <1>2, <1>3, <1>4, <1>5, <1>6, <1>7, <1>8, <1>9, <1>10, <1>11, <1>12, <1>13, <1>14 DEF Cpu

\* What the mailbox holds once the stub is past the link.
LEMMA ShapeAtCfgRd ==
    Shape /\ mb.stage = CfgRd =>
        mb.port = "up" /\ ~(mb.magic = FALSE) /\ ~(mb.done = TRUE)
BY DEF Shape

(* In the watched boot the mailbox holds what this boot has put there.     *)
LEMMA StubTracks ==
    ASSUME TypeOK, InvWatch, sup = "watch", Cpu
    PROVE  Tracks' /\ Shape'
<1>0. Tracks /\ Shape BY DEF InvWatch
<1> USE <1>0, Records DEF Tracks, Shape
<1>1. CASE Bump
  BY <1>1 DEF Bump, Ports
<1>2. CASE Start
  BY <1>2 DEF Start, Enter, Recorded, Ports
<1>3. CASE NextStage
  BY <1>3 DEF NextStage, PhyStage, ProbeStage, SetupStage, PortStage, Passes, Enter, Recorded, At, Ports
<1>4. CASE Witness
  <2>1. CASE Enter(Xlate, [mb EXCEPT !.aperture = TRUE], went)
    BY <1>4, <2>1 DEF Witness, Enter, Recorded, At
  <2>2. CASE Enter(StageDone, [mb EXCEPT !.port = "down"], [went EXCEPT !.port = "down"])
    BY <1>4, <2>2 DEF Witness, Enter, Recorded, At
  <2>. QED BY <1>4, <2>1, <2>2 DEF Witness
<1>5. CASE LinkUp
  BY <1>5 DEF LinkUp, Enter, Recorded, At, Ports
<1>6. CASE NoLink
  BY <1>6 DEF NoLink, Enter, Recorded, At, Ports
<1>7. CASE Bridge
  BY <1>7 DEF Bridge, At, Ports
<1>8. CASE FirstRead
  BY <1>8 DEF FirstRead, At, Ports
<1>9. CASE ReadId
  <2>1. cpu = "running" /\ mb.stage = CfgRd /\ cpu' = cpu BY <1>9 DEF ReadId, At
  <2>2. mb.port = "up" /\ ~(mb.magic = FALSE) /\ ~(mb.done = TRUE)
    BY <1>0, <2>1, ShapeAtCfgRd
  <2>3. \E i, n :
          /\ n \in {BarRd, StageDone}
          /\ mb'.stage = n /\ mb'.id = i /\ mb'.port = mb.port /\ mb'.bus = mb.bus
          /\ mb'.exc = mb.exc /\ mb'.magic = mb.magic /\ mb'.done = mb.done
          /\ went'.stage = n /\ went'.id = i /\ went'.port = went.port
          /\ went'.exc = went.exc
    <3>1. PICK id \in {"4356", "other broadcom", "other"}, code \in BOOLEAN :
            Enter(IF id = "other" THEN StageDone ELSE BarRd,
                  [mb EXCEPT !.id = id, !.afi = code], [went EXCEPT !.id = id])
      BY <1>9 DEF ReadId
    <3> DEFINE next == IF id = "other" THEN StageDone ELSE BarRd
    <3>2. next \in {BarRd, StageDone} OBVIOUS
    <3>3. /\ mb'.stage = next /\ mb'.id = id /\ mb'.port = mb.port /\ mb'.bus = mb.bus
          /\ mb'.exc = mb.exc /\ mb'.magic = mb.magic /\ mb'.done = mb.done
          /\ went'.stage = next /\ went'.id = id /\ went'.port = went.port
          /\ went'.exc = went.exc
      BY <3>1 DEF Enter, Recorded
    <3> HIDE DEF next
    <3>. QED BY <3>2, <3>3, Zenon
  <2>4. PICK i, n :
          /\ n \in {BarRd, StageDone}
          /\ mb'.stage = n /\ mb'.id = i /\ mb'.port = mb.port /\ mb'.bus = mb.bus
          /\ mb'.exc = mb.exc /\ mb'.magic = mb.magic /\ mb'.done = mb.done
          /\ went'.stage = n /\ went'.id = i /\ went'.port = went.port
          /\ went'.exc = went.exc
    BY <2>3
  <2>5. Shape' BY <2>1, <2>2, <2>4
  <2>6. Tracks' BY <2>4
  <2>. QED BY <2>5, <2>6
<1>10. CASE BarsRead
  BY <1>10 DEF BarsRead, Enter, Recorded, At, Ports
<1>11. CASE Finish
  BY <1>11 DEF Finish, Ports
<1>12. CASE Beat
  BY <1>12 DEF Beat, Ports
<1>13. CASE Hang
  BY <1>13 DEF Hang, MayBreak, Ports
<1>14. CASE Fault
  BY <1>14 DEF Fault, MayBreak, Recorded, Ports
<1>. QED BY <1>1, <1>2, <1>3, <1>4, <1>5, <1>6, <1>7, <1>8, <1>9, <1>10, <1>11, <1>12, <1>13, <1>14 DEF Cpu

\* Every step of the stub keeps the invariant.
LEMMA StubInv == Inv /\ Cpu => Inv'
<1> SUFFICES ASSUME Inv, Cpu PROVE Inv'
  OBVIOUS
<1>1. TypeOK' BY StubTypes DEF Inv
<1>2. /\ UNCHANGED supVars
      /\ sup # "watch" => went' = went
      /\ mb.exc = TRUE => mb'.exc = TRUE
      /\ cpu \in {"released", "running"}
      /\ cpu' \in {"running", "done", "hung", "parked"}
  BY StubFrame DEF Inv
<1>3. InvWatch'
  <2>1. CASE sup = "watch"
    BY <1>2, <2>1, StubTracks DEF Inv, InvWatch, Given, supVars
  <2>2. CASE sup # "watch"
    BY <1>2, <2>2 DEF Inv, Rest, InvWatch, InvWedged, Given, supVars
  <2>. QED BY <2>1, <2>2
<1>4. Rest'
  <2> USE <1>2 DEF supVars
  <2>1. InvBoot' /\ InvOff' BY DEF Inv, Rest, InvBoot, InvOff
  <2>2. InvWedged' BY DEF Inv, Rest, InvWedged, Given
  <2>3. InvNoStart' BY DEF Inv, Rest, InvNoStart
  <2>4. InvDiag' BY DEF Inv, Rest, InvDiag
  <2>5. InvReport' BY DEF Inv, Rest, InvReport
  <2>6. InvFault' BY <1>3 DEF Inv, Rest, InvFault, InvWatch, Tracks
  <2>7. InvNone' BY DEF Inv, Rest, InvNone
  <2>. QED BY <2>1, <2>2, <2>3, <2>4, <2>5, <2>6, <2>7 DEF Rest
<1>5. VerdictIsOfThisAttempt'
  BY <1>2 DEF Inv, Rest, InvNone, VerdictIsOfThisAttempt, supVars
<1>. QED BY <1>1, <1>3, <1>4, <1>5 DEF Inv

\* Every step of the supervisor, the clock and the reboot keeps the invariant.
LEMMA SupervisorInv == Inv /\ (Supervisor \/ Tick \/ Reboot) => InvWatch' /\ Rest'
                                                          /\ VerdictIsOfThisAttempt'
<1> SUFFICES ASSUME Inv, Supervisor \/ Tick \/ Reboot
             PROVE  InvWatch' /\ Rest' /\ VerdictIsOfThisAttempt'
  OBVIOUS
<1>0. TypeOK /\ InvWatch /\ Rest /\ VerdictIsOfThisAttempt BY DEF Inv
<1> USE <1>0, Records DEF InvWatch, Rest, Given, Tracks, Shape, InvBoot, InvOff, InvWedged,
        InvNoStart, InvDiag, InvReport, InvFault, InvNone, ClearMailbox, NoBoot,
        Verdict, supVars, clock
<1>1. CASE Boot
  <2>0. mb' = ClearMailbox /\ went' = NoBoot /\ cpu' = "released"
    BY <1>1 DEF Boot, Release
  <2>1. InvWatch' BY <2>0
  <2>2. Rest' BY <1>1 DEF Boot, Release
  <2>3. VerdictIsOfThisAttempt' BY <1>1 DEF Boot, Release, VerdictIsOfThisAttempt
  <2>. QED BY <2>1, <2>2, <2>3
<1>2. CASE BootFails
  <2>1. InvWatch' BY <1>2 DEF BootFails
  <2>2. Rest' BY <1>2 DEF BootFails
  <2>3. VerdictIsOfThisAttempt' BY <1>2 DEF BootFails, VerdictIsOfThisAttempt
  <2>. QED BY <2>1, <2>2, <2>3
<1>3. CASE SeeAlive
  <2>1. InvWatch' BY <1>3 DEF SeeAlive
  <2>2. Rest' BY <1>3 DEF SeeAlive
  <2>3. VerdictIsOfThisAttempt' BY <1>3 DEF SeeAlive, VerdictIsOfThisAttempt
  <2>. QED BY <2>1, <2>2, <2>3
<1>4. CASE GiveUp
  <2>1. InvWatch' BY <1>4 DEF GiveUp
  <2>2. Rest'
    <3>1. InvWedged' BY <1>4 DEF GiveUp
    <3>2. InvNoStart' BY <1>4 DEF GiveUp
    <3>3. InvFault' BY <1>4 DEF GiveUp
    <3>. QED BY <1>4, <3>1, <3>2, <3>3 DEF GiveUp
  <2>3. VerdictIsOfThisAttempt' BY <1>4 DEF GiveUp, VerdictIsOfThisAttempt
  <2>. QED BY <2>1, <2>2, <2>3
<1>5. CASE NeverAlive
  <2>1. InvWatch' BY <1>5 DEF NeverAlive
  <2>2. Rest' BY <1>5 DEF NeverAlive
  <2>3. VerdictIsOfThisAttempt'
    <3>1. verdict'.kind = "no start" /\ went' = went BY <1>5 DEF NeverAlive
    <3>2. alive = FALSE BY <1>5 DEF NeverAlive, TypeOK
    <3>3. went.stage = 0 BY <1>5, <3>2 DEF NeverAlive
    <3>. QED BY <3>1, <3>3 DEF VerdictIsOfThisAttempt
  <2>. QED BY <2>1, <2>2, <2>3
<1>6. CASE Retry
  <2>1. InvWatch' BY <1>6 DEF Retry, RetryMailbox
  <2>2. Rest' BY <1>6 DEF Retry, RetryMailbox
  <2>3. VerdictIsOfThisAttempt' BY <1>6 DEF Retry, RetryMailbox, VerdictIsOfThisAttempt
  <2>. QED BY <2>1, <2>2, <2>3
<1>7. CASE DiagBoot
  <2>1. InvWatch' BY <1>7 DEF DiagBoot, Release, LastStall, WantsDiag
  <2>2. Rest' BY <1>7 DEF DiagBoot, Release, LastStall, WantsDiag
  <2>3. VerdictIsOfThisAttempt' BY <1>7 DEF DiagBoot, Release, LastStall, WantsDiag, VerdictIsOfThisAttempt
  <2>. QED BY <2>1, <2>2, <2>3
<1>8. CASE DiagBootFails
  <2>1. InvWatch' BY <1>8 DEF DiagBootFails, LastStall, WantsDiag
  <2>2. Rest' BY <1>8 DEF DiagBootFails, LastStall, WantsDiag
  <2>3. VerdictIsOfThisAttempt' BY <1>8 DEF DiagBootFails, LastStall, WantsDiag, VerdictIsOfThisAttempt
  <2>. QED BY <2>1, <2>2, <2>3
<1>9. CASE DiagEnds
  <2>1. InvWatch' BY <1>9 DEF DiagEnds
  <2>2. Rest' BY <1>9 DEF DiagEnds
  <2>3. VerdictIsOfThisAttempt' BY <1>9 DEF DiagEnds, VerdictIsOfThisAttempt
  <2>. QED BY <2>1, <2>2, <2>3
<1>10. CASE NoDiag
  <2>1. InvWatch' BY <1>10 DEF NoDiag, LastStall, WantsDiag
  <2>2. Rest' BY <1>10 DEF NoDiag, LastStall, WantsDiag
  <2>3. VerdictIsOfThisAttempt' BY <1>10 DEF NoDiag, LastStall, WantsDiag, VerdictIsOfThisAttempt
  <2>. QED BY <2>1, <2>2, <2>3
<1>11. CASE Report
  <2>1. InvWatch' BY <1>11 DEF Report, StallVerdict
  <2>2. Rest' BY <1>11 DEF Report, StallVerdict
  <2>3. VerdictIsOfThisAttempt' BY <1>11 DEF Report, StallVerdict, VerdictIsOfThisAttempt
  <2>. QED BY <2>1, <2>2, <2>3
<1>12. CASE NoAperture
  <2>1. InvWatch' BY <1>12 DEF NoAperture, Completed
  <2>2. Rest' BY <1>12 DEF NoAperture, Completed
  <2>3. VerdictIsOfThisAttempt' BY <1>12 DEF NoAperture, Completed, VerdictIsOfThisAttempt
  <2>. QED BY <2>1, <2>2, <2>3
<1>13. CASE ReportNoLink
  <2>1. InvWatch' BY <1>13 DEF ReportNoLink, Completed
  <2>2. Rest' BY <1>13 DEF ReportNoLink, Completed
  <2>3. VerdictIsOfThisAttempt' BY <1>13 DEF ReportNoLink, Completed, VerdictIsOfThisAttempt
  <2>. QED BY <2>1, <2>2, <2>3
<1>14. CASE Identified
  <2>1. InvWatch' BY <1>14 DEF Identified, Completed
  <2>2. Rest' BY <1>14 DEF Identified, Completed
  <2>3. VerdictIsOfThisAttempt' BY <1>14 DEF Identified, Completed, VerdictIsOfThisAttempt
  <2>. QED BY <2>1, <2>2, <2>3
<1>15. CASE Powergate
  <2>1. InvWatch' BY <1>15 DEF Powergate
  <2>2. Rest' BY <1>15 DEF Powergate
  <2>3. VerdictIsOfThisAttempt' BY <1>15 DEF Powergate, VerdictIsOfThisAttempt
  <2>. QED BY <2>1, <2>2, <2>3
<1>16. CASE Tick
  <2>1. InvWatch' BY <1>16 DEF Tick
  <2>2. Rest' BY <1>16 DEF Tick
  <2>3. VerdictIsOfThisAttempt' BY <1>16 DEF Tick, VerdictIsOfThisAttempt
  <2>. QED BY <2>1, <2>2, <2>3
<1>17. CASE Reboot
  <2>1. InvWatch' BY <1>17 DEF Reboot
  <2>2. Rest' BY <1>17 DEF Reboot
  <2>3. VerdictIsOfThisAttempt' BY <1>17 DEF Reboot, VerdictIsOfThisAttempt
  <2>. QED BY <2>1, <2>2, <2>3
<1>. QED BY <1>1, <1>2, <1>3, <1>4, <1>5, <1>6, <1>7, <1>8, <1>9, <1>10, <1>11, <1>12, <1>13, <1>14, <1>15, <1>16, <1>17 DEF Supervisor

(***************************************************************************)
(* The invariant holds of every behaviour of the handoff.                  *)
(***************************************************************************)
THEOREM SpecInv == Spec => []Inv
<1>1. Init => Inv
  <2> SUFFICES ASSUME Init PROVE Inv
    OBVIOUS
  <2>1. TypeOK BY InitTypes
  <2>2. /\ mb = ClearMailbox /\ went = NoBoot /\ verdict.kind = "none"
        /\ sup = "boot" /\ cpu = "off"
    BY DEF Init, NoVerdict, Verdict
  <2>3. InvWatch /\ Rest
    BY <2>2 DEF InvWatch, Rest, Given, InvBoot, InvOff, InvWedged, InvNoStart, InvDiag,
                InvReport, InvFault, InvNone, NoBoot
  <2>4. VerdictIsOfThisAttempt BY <2>2 DEF VerdictIsOfThisAttempt
  <2>. QED BY <2>1, <2>3, <2>4 DEF Inv
<1>2. Inv /\ [Next]_vars => Inv'
  <2> SUFFICES ASSUME Inv, [Next]_vars PROVE Inv'
    OBVIOUS
  <2>1. CASE Cpu
    BY <2>1, StubInv
  <2>2. CASE Supervisor \/ Tick \/ Reboot
    BY <2>2, SupervisorInv, StepTypes DEF Inv, Next
  <2>3. CASE UNCHANGED vars
    <3>1. TypeOK' BY StepTypes DEF Inv
    <3>2. InvWatch' BY <2>3 DEF Inv, InvWatch, Given, Tracks, Shape, vars, supVars, clock
    <3>3. Rest'
      BY <2>3 DEF Inv, Rest, Given, InvBoot, InvOff, InvWedged, InvNoStart, InvDiag,
                  InvReport, InvFault, InvNone, vars, supVars, clock
    <3>4. VerdictIsOfThisAttempt'
      BY <2>3 DEF Inv, VerdictIsOfThisAttempt, vars, supVars, clock
    <3>. QED BY <3>1, <3>2, <3>3, <3>4 DEF Inv
  <2>. QED BY <2>1, <2>2, <2>3 DEF Next, Stop
<1>. QED BY <1>1, <1>2, PTL DEF Spec

(* ClusterOff: however the handoff ends, CPU0 is powered down when the     *)
(* pager gets the console back.                                            *)
THEOREM ClusterOff == Spec => []ClusterOffAtTheEnd
<1>1. Inv => ClusterOffAtTheEnd BY DEF Inv, Rest, InvOff, ClusterOffAtTheEnd
<1>. QED BY <1>1, SpecInv, PTL

(* VerdictIsCurrent: what is reported of the card is true of the boot that *)
(* was watched last, for any number of attempts and any windows.           *)
THEOREM VerdictIsCurrent == Spec => []VerdictIsOfThisAttempt
<1>1. Inv => VerdictIsOfThisAttempt BY DEF Inv
<1>. QED BY <1>1, SpecInv, PTL

-----------------------------------------------------------------------------
(* The pace of a watched boot.                                             *)

\* No later stage is reached before an earlier one is over.
LEMMA StagesInOrder ==
    ASSUME NEW t, StagesFit(t)
    PROVE  /\ t \in [0 .. StageDone -> Nat]
           /\ \A s \in Stages, r \in Stages : s < r => t[s] <= t[r - 1]
           /\ \A s \in Stages : t[s] < Ceiling /\ t[s] = t[s - 1] + Dur[s]
           /\ t[0] < Ceiling /\ t[0] = BootGap
<1>1. t \in [0 .. StageDone -> Nat] /\ t[0] = BootGap
      /\ \A s \in Stages : t[s] = t[s - 1] + Dur[s]
  BY DEF StagesFit
<1>2. \A s \in Stages : Dur[s] \in Nat BY WindowsAssumption
<1>3. \A s \in 0 .. 12 : t[s] \in Nat BY <1>1
<1>4. /\ t[0] <= t[1] /\ t[1] <= t[2] /\ t[2] <= t[3] /\ t[3] <= t[4]
      /\ t[4] <= t[5] /\ t[5] <= t[6]
  <2>1. \A s \in Stages : t[s - 1] <= t[s] BY <1>1, <1>2, <1>3
  <2>2. t[1 - 1] <= t[1] /\ t[2 - 1] <= t[2] /\ t[3 - 1] <= t[3] /\ t[4 - 1] <= t[4]
        /\ t[5 - 1] <= t[5] /\ t[6 - 1] <= t[6]
    BY <2>1
  <2>. QED BY <2>2
<1>5. /\ t[6] <= t[7] /\ t[7] <= t[8] /\ t[8] <= t[9] /\ t[9] <= t[10]
      /\ t[10] <= t[11] /\ t[11] <= t[12]
  <2>1. \A s \in Stages : t[s - 1] <= t[s] BY <1>1, <1>2, <1>3
  <2>2. t[7 - 1] <= t[7] /\ t[8 - 1] <= t[8] /\ t[9 - 1] <= t[9] /\ t[10 - 1] <= t[10]
        /\ t[11 - 1] <= t[11] /\ t[12 - 1] <= t[12]
    BY <2>1
  <2>. QED BY <2>2
<1>6. \A s \in 0 .. 12, r \in 0 .. 12 : s <= r => t[s] <= t[r]
  <2>. SUFFICES ASSUME NEW s \in 0 .. 12, NEW r \in 0 .. 12, s <= r PROVE t[s] <= t[r]
    OBVIOUS
  <2>1. /\ t[0] \in Nat /\ t[1] \in Nat /\ t[2] \in Nat /\ t[3] \in Nat /\ t[4] \in Nat
        /\ t[5] \in Nat /\ t[6] \in Nat /\ t[7] \in Nat /\ t[8] \in Nat /\ t[9] \in Nat
        /\ t[10] \in Nat /\ t[11] \in Nat /\ t[12] \in Nat
    BY <1>3
  <2>2. CASE s <= 3 BY <1>4, <1>5, <2>1, <2>2
  <2>3. CASE s \in 4 .. 7 BY <1>4, <1>5, <2>1, <2>3
  <2>4. CASE s \in 8 .. 12 BY <1>4, <1>5, <2>1, <2>4
  <2>. QED BY <2>2, <2>3, <2>4
<1>7. t[12] < Ceiling /\ Ceiling \in Nat BY WindowsAssumption DEF StagesFit
<1>8. \A s \in 0 .. 12 : t[s] < Ceiling
  <2>. SUFFICES ASSUME NEW s \in 0 .. 12 PROVE t[s] < Ceiling OBVIOUS
  <2>1. t[s] <= t[12] BY <1>6
  <2>2. t[s] \in Nat /\ t[12] \in Nat BY <1>3
  <2>. QED BY <1>7, <2>1, <2>2
<1>9. ASSUME NEW s \in Stages, NEW r \in Stages, s < r PROVE t[s] <= t[r - 1]
  BY <1>6, <1>9
<1>. QED BY <1>1, <1>8, <1>9

\* How far a watched boot is, and how long it has been silent.
Pace(t) ==
    /\ alive = TRUE => mb.magic = TRUE
    /\ cpu # "off"
    /\ cpu = "released" => mb.magic = FALSE /\ quiet <= BootGap /\ spent = quiet
    /\ cpu = "running" /\ at = "step" =>
         /\ mb.stage \in Stages /\ spent <= t[mb.stage - 1]
         /\ mb.stage < CfgRd => quiet <= EarlyWindow
    /\ cpu = "running" /\ at # "step" =>
         /\ mb.stage \in Stages /\ inStage <= Dur[mb.stage]
         /\ spent <= t[mb.stage - 1] + inStage
         /\ quiet <= Gap[mb.stage]
    /\ cpu = "done" => mb.done = TRUE
PaceInv(t) == sup = "watch" => Pace(t)

\* A stage is entered in time.
LEMMA EnterPace ==
    ASSUME NEW t, StagesFit(t), TypeOK, Pace(t), cpu = "running", at # "step",
           cpu' = "running", at' = "step", UNCHANGED <<quiet, spent, alive>>,
           mb'.magic = mb.magic, NEW r \in Stages, mb.stage < r, mb'.stage = r
    PROVE  Pace(t)'
<1>. DEFINE s == mb.stage
<1>1. /\ s \in Stages /\ inStage <= Dur[s] /\ spent <= t[s - 1] + inStage
      /\ quiet <= Gap[s]
  BY DEF Pace
<1>2. quiet \in Nat /\ spent \in Nat /\ inStage \in Nat /\ Dur[s] \in Nat
      /\ Gap[s] \in Nat /\ EarlyWindow \in Nat
  BY <1>1, WindowsAssumption DEF TypeOK
<1>3. t[s] <= t[r - 1] /\ t[s] = t[s - 1] + Dur[s] BY <1>1, StagesInOrder
<1>4. t[s] \in Nat /\ t[s - 1] \in Nat /\ t[r - 1] \in Nat
  <2>1. s \in 0 .. StageDone /\ s - 1 \in 0 .. StageDone /\ r - 1 \in 0 .. StageDone
    BY <1>1
  <2>. QED BY <2>1, StagesInOrder
<1>5. spent <= t[r - 1] BY <1>1, <1>2, <1>3, <1>4
<1>6. r < CfgRd => quiet <= EarlyWindow
  <2>. SUFFICES ASSUME r < CfgRd PROVE quiet <= EarlyWindow OBVIOUS
  <2>1. s < CfgRd BY <1>1
  <2>2. Gap[s] <= EarlyWindow BY <1>1, <2>1 DEF StagesFit, Window
  <2>. HIDE DEF s
  <2>. QED BY <1>1, <1>2, <2>2
<1>. QED BY <1>5, <1>6 DEF Pace
(* The stub's steps keep the pace.                                         *)
LEMMA StubPace ==
    ASSUME NEW t, StagesFit(t), TypeOK, InvWatch, sup = "watch", Pace(t), Cpu
    PROVE  Pace(t)'
<1>0. Shape /\ mb.stage \in 0 .. StageDone BY Records DEF InvWatch
<1>1. CASE Bump
  <2>1. /\ cpu = "running" /\ at = "step" /\ at' = "go" /\ quiet' = 0 /\ inStage' = 0
        /\ UNCHANGED <<supVars, spent, cpu, mb>>
    BY <1>1 DEF Bump
  <2>2. mb.stage \in Stages /\ spent <= t[mb.stage - 1] BY <2>1 DEF Pace
  <2>3. Dur[mb.stage] \in Nat /\ Gap[mb.stage] \in Nat BY <2>2, WindowsAssumption
  <2>4. mb.stage - 1 \in 0 .. StageDone BY <2>2
  <2>5. t[mb.stage - 1] \in Nat /\ spent \in Nat BY <2>4, StagesInOrder DEF TypeOK
  <2>. QED BY <2>1, <2>2, <2>3, <2>5 DEF Pace, supVars
<1>2. CASE Start
  <2>1. /\ cpu = "released" /\ cpu' = "running" /\ at' = "step"
        /\ UNCHANGED <<supVars, clock>>
        /\ mb' = [mb EXCEPT !.magic = TRUE, !.stage = Entry]
    BY <1>2 DEF Start, Enter
  <2>2. mb'.stage = 1 /\ mb'.magic = TRUE BY <2>1, Records
  <2>3. quiet <= BootGap /\ spent = quiet BY <2>1 DEF Pace
  <2>4. BootGap <= EarlyWindow /\ t[0] = BootGap BY StagesInOrder DEF StagesFit
  <2>5. quiet \in Nat /\ BootGap \in Nat /\ EarlyWindow \in Nat
    BY WindowsAssumption DEF TypeOK
  <2>6. spent' = spent /\ quiet' = quiet BY <2>1 DEF clock
  <2>7. spent' <= t[mb'.stage - 1] BY <2>2, <2>3, <2>4, <2>6
  <2>. QED BY <2>1, <2>2, <2>3, <2>4, <2>5, <2>6, <2>7 DEF Pace
<1>3. CASE NextStage \/ Witness \/ LinkUp \/ NoLink \/ ReadId \/ BarsRead
  <2>1. \E r \in Stages :
          /\ cpu = "running" /\ cpu' = "running" /\ at # "step" /\ at' = "step"
          /\ UNCHANGED <<supVars, clock>>
          /\ mb.stage < r /\ mb'.stage = r /\ mb'.magic = mb.magic
    <3>1. CASE NextStage
      <4>1. PICK s \in {Entry, MselectRd, MselectWr, AfiRd, Xlate, CtrlEn, PortEn} :
              At(s, "go") /\ Enter(s + 1, mb, went)
        BY <3>1 DEF NextStage, PhyStage, ProbeStage, SetupStage, PortStage, Passes
      <4>2. s + 1 \in Stages /\ mb.stage = s /\ mb.stage < s + 1 BY <4>1 DEF At
      <4>3. mb'.stage = s + 1 /\ mb'.magic = mb.magic BY <4>1, Records DEF Enter
      <4>. QED BY <4>1, <4>2, <4>3 DEF At, Enter
    <3>2. CASE Witness
      <4>1. CASE Enter(Xlate, [mb EXCEPT !.aperture = TRUE], went)
        <5>1. mb'.stage = Xlate /\ mb'.magic = mb.magic BY <4>1, Records DEF Enter
        <5>. QED BY <3>2, <4>1, <5>1 DEF Witness, At, Enter
      <4>2. CASE Enter(StageDone, [mb EXCEPT !.port = "down"], [went EXCEPT !.port = "down"])
        <5>1. mb'.stage = StageDone /\ mb'.magic = mb.magic BY <4>2, Records DEF Enter
        <5>. QED BY <3>2, <4>2, <5>1 DEF Witness, At, Enter
      <4>. QED BY <3>2, <4>1, <4>2 DEF Witness
    <3>3. CASE LinkUp
      <4>1. mb'.stage = CfgRd /\ mb'.magic = mb.magic BY <3>3, Records DEF LinkUp, Enter
      <4>. QED BY <3>3, <4>1 DEF LinkUp, At, Enter
    <3>4. CASE NoLink
      <4>1. mb'.stage = StageDone /\ mb'.magic = mb.magic BY <3>4, Records DEF NoLink, Enter
      <4>. QED BY <3>4, <4>1 DEF NoLink, At, Enter
    <3>5. CASE ReadId
      <4>1. at' = "step" /\ UNCHANGED <<supVars, clock>> BY <3>5 DEF ReadId, Enter
      <4>2. mb'.magic = mb.magic /\ (mb'.stage = StageDone \/ mb'.stage = BarRd)
        <5>1. PICK id \in {"4356", "other broadcom", "other"}, code \in BOOLEAN :
                Enter(IF id = "other" THEN StageDone ELSE BarRd,
                      [mb EXCEPT !.id = id, !.afi = code], [went EXCEPT !.id = id])
          BY <3>5 DEF ReadId
        <5>2. CASE id = "other"
          <6>1. mb' = [mb EXCEPT !.id = id, !.afi = code, !.stage = StageDone]
            BY <5>1, <5>2 DEF Enter
          <6>. QED BY <6>1, Records
        <5>3. CASE id # "other"
          <6>1. mb' = [mb EXCEPT !.id = id, !.afi = code, !.stage = BarRd]
            BY <5>1, <5>3 DEF Enter
          <6>. QED BY <6>1, Records
        <5>. QED BY <5>2, <5>3
      <4>3. mb.stage = CfgRd /\ cpu = "running" /\ cpu' = "running" /\ at # "step"
        BY <3>5 DEF ReadId, At
      <4>4. mb'.stage \in Stages /\ mb.stage < mb'.stage BY <4>2, <4>3
      <4>. QED BY <4>1, <4>2, <4>3, <4>4
    <3>6. CASE BarsRead
      <4>1. mb'.stage = StageDone /\ mb'.magic = mb.magic BY <3>6, Records DEF BarsRead, Enter
      <4>. QED BY <3>6, <4>1 DEF BarsRead, At, Enter
    <3>. QED BY <1>3, <3>1, <3>2, <3>3, <3>4, <3>5, <3>6
  <2>. QED BY <2>1, EnterPace DEF supVars, clock
<1>4. CASE Bridge \/ FirstRead \/ Beat
  <2>1. /\ cpu = "running" /\ cpu' = cpu /\ at # "step" /\ at' # "step"
        /\ UNCHANGED <<supVars, spent, inStage>> /\ (quiet' = 0 \/ quiet' = quiet)
        /\ mb'.stage = mb.stage /\ mb'.magic = mb.magic
    <3>1. CASE Bridge BY <1>4, <3>1, Records DEF Bridge, At
    <3>2. CASE FirstRead BY <1>4, <3>2, Records DEF FirstRead, At, clock
    <3>3. CASE Beat BY <1>4, <3>3 DEF Beat
    <3>. QED BY <1>4, <3>1, <3>2, <3>3
  <2>2. /\ mb.stage \in Stages /\ inStage <= Dur[mb.stage]
        /\ spent <= t[mb.stage - 1] + inStage /\ quiet <= Gap[mb.stage]
    BY <2>1 DEF Pace
  <2>3. Gap[mb.stage] \in Nat BY <2>2, WindowsAssumption
  <2>4. quiet' <= Gap[mb.stage] BY <2>1, <2>2, <2>3
  <2>. QED BY <2>1, <2>2, <2>4 DEF Pace, supVars
<1>5. CASE Finish
  <2>1. cpu' = "done" /\ mb'.done = TRUE /\ mb'.magic = mb.magic /\ UNCHANGED supVars
    BY <1>5, Records DEF Finish
  <2>. QED BY <2>1 DEF Pace, supVars
<1>6. CASE Hang \/ Fault
  <2>1. cpu' \in {"hung", "parked"} /\ mb'.magic = mb.magic /\ UNCHANGED supVars
    BY <1>6, Records DEF Hang, Fault
  <2>. QED BY <2>1 DEF Pace, supVars
<1>. QED BY <1>1, <1>2, <1>3, <1>4, <1>5, <1>6 DEF Cpu

(* A tick of a watch keeps the pace: the stub is within its stage's bounds.*)
LEMMA TickPace ==
    ASSUME NEW t, StagesFit(t), TypeOK, sup = "watch", Pace(t), Tick
    PROVE  Pace(t)'
<1>1. /\ StubInTime /\ UNCHANGED <<supVars, cpu, at, mb>>
      /\ quiet' = quiet + 1 /\ spent' = spent + 1
      /\ (cpu = "running" => inStage' = inStage + 1)
  BY DEF Tick
<1>2. quiet \in Nat /\ spent \in Nat /\ inStage \in Nat BY DEF TypeOK
<1>3. CASE cpu = "released"
  <2>1. quiet < BootGap BY <1>1, <1>3 DEF StubInTime
  <2>2. BootGap \in Nat BY WindowsAssumption
  <2>. QED BY <1>1, <1>2, <1>3, <2>1, <2>2 DEF Pace, supVars
<1>4. CASE cpu = "running"
  <2>1. at # "step" /\ quiet < Gap[mb.stage] /\ inStage < Dur[mb.stage]
    BY <1>1, <1>4 DEF StubInTime
  <2>2. mb.stage \in Stages /\ spent <= t[mb.stage - 1] + inStage
    BY <1>4, <2>1 DEF Pace
  <2>3. Gap[mb.stage] \in Nat /\ Dur[mb.stage] \in Nat BY <2>2, WindowsAssumption
  <2>4. mb.stage - 1 \in 0 .. StageDone BY <2>2
  <2>5. t[mb.stage - 1] \in Nat BY <2>4, StagesInOrder
  <2>6. quiet' <= Gap[mb.stage] /\ inStage' <= Dur[mb.stage]
        /\ spent' <= t[mb.stage - 1] + inStage'
    BY <1>1, <1>2, <1>4, <2>1, <2>2, <2>3, <2>5
  <2>. QED BY <1>1, <1>4, <2>1, <2>2, <2>6 DEF Pace, supVars
<1>5. CASE cpu \notin {"released", "running"}
  BY <1>1, <1>5 DEF Pace, supVars
<1>. QED BY <1>3, <1>4, <1>5

(* Every step of the handoff keeps the pace.                               *)
LEMMA StepPace ==
    ASSUME NEW t, StagesFit(t), Inv, PaceInv(t), [Next]_vars
    PROVE  PaceInv(t)'
<1>0. TypeOK /\ InvWatch /\ Rest BY DEF Inv
<1>1. CASE Cpu
  <2>1. UNCHANGED supVars BY <1>0, <1>1, StubFrame
  <2>. QED BY <1>0, <1>1, <2>1, StubPace DEF PaceInv, supVars
<1>2. CASE Boot
  <2>1. mb = ClearMailbox BY <1>0, <1>2 DEF Rest, InvBoot, Boot
  <2>2. cpu' = "released" /\ quiet' = 0 /\ spent' = 0 /\ mb'.magic = FALSE /\ alive' = FALSE
    BY <1>2, <2>1 DEF Boot, Release, ClearMailbox
  <2>3. BootGap \in Nat BY WindowsAssumption
  <2>. QED BY <2>2, <2>3 DEF PaceInv, Pace
<1>3. CASE SeeAlive
  <2>1. sup = "watch" /\ mb.magic /\ UNCHANGED <<sup, clock, cpu, at, mb>>
    BY <1>3 DEF SeeAlive
  <2>2. mb.magic \in BOOLEAN BY <1>0 DEF TypeOK, Mailboxes
  <2>. QED BY <2>1, <2>2 DEF PaceInv, Pace, clock
<1>4. CASE Tick
  <2>1. UNCHANGED supVars BY <1>4 DEF Tick
  <2>. QED BY <1>0, <1>4, <2>1, TickPace DEF PaceInv, supVars
<1>5. CASE UNCHANGED vars
  BY <1>5 DEF PaceInv, Pace, vars, supVars, clock
<1>6. CASE GiveUp \/ NeverAlive \/ Retry \/ DiagEnds \/ Report \/ NoAperture
           \/ ReportNoLink \/ Identified \/ Powergate
  <2>1. sup' # "watch"
    BY <1>6 DEF GiveUp, NeverAlive, Retry, DiagEnds, Report, NoAperture, ReportNoLink,
                Identified, Powergate
  <2>. QED BY <2>1 DEF PaceInv
<1>7. CASE BootFails \/ DiagBoot \/ DiagBootFails \/ NoDiag \/ Reboot
  <2>1. sup' # "watch"
    BY <1>7 DEF BootFails, DiagBoot, DiagBootFails, NoDiag, Reboot, Release
  <2>. QED BY <2>1 DEF PaceInv
<1>. QED BY <1>1, <1>2, <1>3, <1>4, <1>5, <1>6, <1>7 DEF Next, Supervisor, Stop

(* A watch that keeps the pace is given up only on a wedged stub, or on    *)
(* one between the two stores of a late step.                              *)
LEMMA GiveUpIsReal ==
    ASSUME NEW t, StagesFit(t), Inv, PaceInv(t), GiveUp
    PROVE  cpu \in {"hung", "parked"} \/ (at = "step" /\ mb.stage >= CfgRd)
<1>1. sup = "watch" /\ ~mb.done /\ (Stalled \/ spent = Ceiling) BY DEF GiveUp
<1>2. Pace(t) /\ TypeOK BY <1>1 DEF PaceInv, Inv
<1>3. /\ quiet \in Nat /\ spent \in Nat /\ inStage \in Nat /\ alive \in BOOLEAN
      /\ cpu \in {"off", "released", "running", "hung", "parked", "done"}
      /\ BootGap \in Nat /\ EarlyWindow \in Nat /\ LateWindow \in Nat /\ Ceiling \in Nat
  BY <1>2, WindowsAssumption DEF TypeOK
<1>4. cpu \notin {"off", "done"} BY <1>1, <1>2 DEF Pace
<1>5. CASE cpu = "released"
  <2>1. mb.magic = FALSE /\ quiet <= BootGap /\ spent = quiet BY <1>2, <1>5 DEF Pace
  <2>2. alive = FALSE BY <1>2, <1>3, <2>1 DEF Pace
  <2>3. BootGap < Ceiling BY StagesInOrder
  <2>. QED BY <1>1, <1>3, <2>1, <2>2, <2>3 DEF Stalled
<1>6. CASE cpu = "running" /\ at # "step"
  <2>. DEFINE s == mb.stage
  <2>1. /\ s \in Stages /\ inStage <= Dur[s] /\ spent <= t[s - 1] + inStage
        /\ quiet <= Gap[s]
    BY <1>2, <1>6 DEF Pace
  <2>2. s \in 0 .. StageDone /\ s - 1 \in 0 .. StageDone BY <2>1
  <2>3. t[s] \in Nat /\ t[s - 1] \in Nat /\ t[s] < Ceiling /\ t[s] = t[s - 1] + Dur[s]
    BY <2>1, <2>2, StagesInOrder
  <2>4. Gap[s] <= Window(s) BY <2>1 DEF StagesFit, Window
  <2>5. Dur[s] \in Nat /\ Gap[s] \in Nat /\ Window(s) \in Nat
    BY <1>3, <2>1, WindowsAssumption DEF Window
  <2>6. ~(quiet > Window(s)) BY <1>3, <2>1, <2>4, <2>5
  <2>7. spent < Ceiling BY <1>3, <2>1, <2>3, <2>5
  <2>. QED BY <1>1, <1>3, <2>6, <2>7 DEF Stalled
<1>7. CASE cpu = "running" /\ at = "step"
  <2>. SUFFICES ASSUME mb.stage < CfgRd PROVE FALSE
    BY <1>2, <1>7 DEF Pace
  <2>1. mb.stage \in Stages /\ spent <= t[mb.stage - 1] /\ quiet <= EarlyWindow
    BY <1>2, <1>7 DEF Pace
  <2>2. mb.stage \in 0 .. StageDone /\ mb.stage - 1 \in 0 .. StageDone BY <2>1
  <2>3. t[mb.stage - 1] \in Nat /\ t[mb.stage] \in Nat /\ t[mb.stage] < Ceiling
        /\ t[mb.stage] = t[mb.stage - 1] + Dur[mb.stage]
    BY <2>1, <2>2, StagesInOrder
  <2>4. Dur[mb.stage] \in Nat BY <2>1, WindowsAssumption
  <2>5. spent < Ceiling BY <1>3, <2>1, <2>3, <2>4
  <2>6. Window(mb.stage) = EarlyWindow BY DEF Window
  <2>7. ~Stalled BY <1>3, <2>1, <2>6 DEF Stalled
  <2>. QED BY <1>1, <1>3, <2>5, <2>7
<1>. QED BY <1>3, <1>4, <1>5, <1>6, <1>7

(* StallsAreReal: where the stages fit the watch, whatever the number of   *)
(* attempts, a watch is given up only on a stub that hangs or has faulted, *)
(* or on one between the two stores of a step from CFG_RD on.              *)
THEOREM StallsAreReal ==
    ASSUME NEW t, StagesFit(t) PROVE Spec => StallIsRealOrMidStep
<1>1. Init => PaceInv(t) BY DEF Init, PaceInv
<1>2. Inv /\ PaceInv(t) /\ [Next]_vars => PaceInv(t)' BY StepPace
<1>3. Inv /\ PaceInv(t) /\ [Next]_vars
      => [GiveUp => cpu \in {"hung", "parked"} \/ (at = "step" /\ mb.stage >= CfgRd)]_vars
  BY GiveUpIsReal
<1>. QED BY <1>1, <1>2, <1>3, SpecInv, PTL DEF Spec, StallIsRealOrMidStep
=============================================================================
