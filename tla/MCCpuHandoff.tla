---------------------------- MODULE MCCpuHandoff ----------------------------
(* CpuHandoff with ticks of 200 ms.  The PHY bring-up (stage 1) and the    *)
(* port 0 probe (7) are long but beat, the link wait (9) is 800 ms of      *)
(* silence, the command write (11) 500 ms of beats 20 ms apart.            *)
EXTENDS CpuHandoff

StageDur == [s \in Stages |-> CASE s = Entry    -> 9
                                [] s = CtrlEn   -> 7
                                [] s = LinkWait -> 4
                                [] s = BarRd    -> 3
                                [] OTHER        -> 1]
StageGap == [s \in Stages |-> IF s = LinkWait THEN 4 ELSE 1]

Latest[s \in 0 .. StageDone] == IF s = 0 THEN BootGap ELSE Latest[s - 1] + Dur[s]
ASSUME FitAssumption == StagesFit(Latest)
=============================================================================
