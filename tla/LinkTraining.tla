---------------------------- MODULE LinkTraining ----------------------------
(***************************************************************************)
(* The picture on the TV (dpout.c): dpout_video_start powers the second    *)
(* head and SOR1, trains the DisplayPort link with the sink over the AUX   *)
(* channel, and attaches the picture; dpout_video_stop undoes it.          *)
(*                                                                         *)
(* Training drives each lane with a swing and a pre-emphasis, reads what   *)
(* the sink makes of it, and follows what the sink asks for.  A rate that  *)
(* cannot be trained gives way to the next lower one; a rate that trains   *)
(* with symbol errors is trained again from a higher swing.                *)
(*                                                                         *)
(* Each AUX access may fail, before or after the sink took it; the code    *)
(* checks some and not others.  A status is, for each lane, "none", "cr"   *)
(* (clock recovered) or "eq" (equalized and symbol locked too), and the    *)
(* alignment of the lanes.                                                 *)
(***************************************************************************)
EXTENDS Integers, FiniteSets

CONSTANTS
    Sinks,      \* the sinks: their highest rate, lanes, and alternate scrambler
    Requests,   \* what a sink may ask for: <<swing, pre-emphasis>> of each lane
    MaxSame,    \* unchanged requests that end clock recovery: 5
    MaxCr,      \* tries of clock recovery: 20
    MaxEq,      \* tries of equalization: 4
    AuxFails,   \* TRUE: AUX accesses may fail and HPD may go
    Faults      \* which of the parts in Parts may not come up

Parts == {"plldp", "plld2", "disb", "sequencer", "awake"}
Lane == 0 .. 1
Levels == 0 .. 3

ASSUME RequestsAssumption == Requests \subseteq [Lane -> Levels \X Levels]
ASSUME SinksAssumption ==
    Sinks \subseteq [rate : {6, 10, 20}, max : 1 .. 2, canAssr : BOOLEAN]
ASSUME TriesAssumption ==
    /\ MaxSame \in Nat \ {0} /\ MaxCr \in Nat \ {0} /\ MaxEq \in Nat \ {0}
    /\ AuxFails \in BOOLEAN /\ Faults \subseteq Parts

VARIABLES
    pc,      \* where dpout_video_start is; "idle" when nobody runs it
    ret,     \* what it returned last: its step, 0 for a picture
    stage,   \* s_stage
    assr,    \* s_assr
    link,    \* s_link: lanes, bw, vs_floor, and what _link_calc computed last
    vs, pe,  \* l->vs and l->pe, per lane
    st,      \* the last status read
    tries, same,
    sor,     \* SOR1: the link speed, the dividers and the pattern set there
    on,      \* what is powered or clocked
    sink,    \* the sink: what it can do, and what it was told
    trained, \* for the properties: what the sink last said of the link in this
             \* equalization: "yes", "no", or "unheard" if no read got through
    lost     \* for the properties: the writes whose last attempt failed

auxVars == <<sink, trained, lost>>
linkVars == <<link, vs, pe, st, tries, same>>
vars == <<pc, ret, stage, assr, linkVars, sor, on, auxVars>>

Used == 0 .. link.lanes - 1
Statuses == [lane : [Used -> {"none", "cr", "eq"}], align : BOOLEAN]
Unread == [unread |-> TRUE]
Rates == {6, 10, 20}
Patterns == {"none", "tps1", "tps2"}

\* What becomes of an AUX access.  Where the code looks at the result it also
\* matters whether the sink took a write whose answer was lost ("late").
Outcomes == IF AuxFails THEN {"ok", "lost"} ELSE {"ok"}
Checked == IF AuxFails THEN {"ok", "lost", "late"} ELSE {"ok"}
Marked(what, o) == IF o = "ok" THEN lost \ {what} ELSE lost \cup {what}

Return(r) == pc' = "idle" /\ ret' = r
Goto(p) == pc' = p /\ UNCHANGED ret

-----------------------------------------------------------------------------
(* Accesses to the sink.                                                   *)

CrDone(s) == \A i \in Used : s.lane[i] # "none"
EqDoneLane0(s) == s.lane[0] = "eq" /\ s.align
EqDone(s) == (\A i \in Used : s.lane[i] = "eq") /\ s.align


\* A read of the status.  Its result is not looked at: a read that failed
\* leaves what was there, which at first is nothing defined.
ReadStatus ==
    \E s \in Statuses, o \in Outcomes :
        /\ \/ o = "ok" /\ st' = s
           \/ o # "ok" /\ st # Unread /\ st' = st
           \/ o # "ok" /\ st = Unread /\ st' \in Statuses
        /\ trained' = IF o # "ok" \/ pc = "cr look" THEN trained
                      ELSE IF s.align /\ \A i \in Used : s.lane[i] = "eq" THEN "yes" ELSE "no"

\* _tpg: the pattern in SOR1, then in the sink, whose answer is not looked at.
Pattern(p) ==
    /\ sor' = [sor EXCEPT !.pattern = p]
    /\ \E o \in Outcomes :
          /\ sink' = IF o = "lost" THEN sink ELSE [sink EXCEPT !.pattern = p]
          /\ lost' = Marked("pattern", o)

\* _lt_config: the levels of the lanes in use, in SOR1 and in the sink.
Drive ==
    \E o \in Outcomes :
        /\ sink' = IF o = "lost" THEN sink ELSE [sink EXCEPT !.vs = vs, !.pe = pe]
        /\ lost' = Marked("levels", o)

\* _lt_adjust: what the sink asks for, or nothing when the read failed, never
\* below the floor; swing and pre-emphasis stay within 3 together.
Swing(ask) == IF ask < link.floor THEN link.floor ELSE ask
Emphasis(swing, ask) == IF swing + ask > 3 THEN 3 - swing ELSE ask

Adjusted(ask) ==
    /\ vs' = [i \in Lane |-> IF i \in Used THEN Swing(ask[i][1]) ELSE vs[i]]
    /\ pe' = [i \in Lane |-> IF i \in Used THEN Emphasis(vs'[i], ask[i][2]) ELSE pe[i]]
Adjust ==
    \/ \E ask \in Requests : Adjusted(ask)
    \/ AuxFails /\ Adjusted([i \in Lane |-> <<0, 0>>])

-----------------------------------------------------------------------------
(* _link_calc: whether the mode fits, and the dividers for a rate.  The    *)
(* mode's pixel clock is 74250 kHz, 24 bits a pixel; a link symbol carries *)
(* 8 bits and comes 27000 kHz times the rate's code.                       *)

Fits(bw, lanes) == 74250 * 24 < 27000 * bw * 8 * lanes
Lower(bw) == IF bw = 20 THEN 10 ELSE 6

\* A mode that does not fit leaves the dividers as they were.
LinkCalc(l) == IF Fits(l.bw, l.lanes) THEN [l EXCEPT !.calc = <<l.bw, l.lanes>>] ELSE l

NoLink == [lanes |-> 1, bw |-> 6, floor |-> 0, calc |-> <<0, 0>>]
Quiet == [speed |-> 0, pads |-> "none", calc |-> <<0, 0>>, lanes |-> 0, pattern |-> "none"]
NoLevels == [i \in Lane |-> 0]

Init ==
    /\ pc = "idle" /\ ret = 0 /\ stage = 0 /\ assr = FALSE
    /\ link = NoLink /\ vs = NoLevels /\ pe = NoLevels
    /\ st = Unread /\ tries = 0 /\ same = 0
    /\ sor = Quiet /\ on = {}
    /\ \E s \in Sinks :
       sink = [dpcd |-> s, bw |-> 0, lanes |-> 0, vs |-> NoLevels, pe |-> NoLevels,
               pattern |-> "none", assr |-> FALSE]
    /\ trained = "unheard" /\ lost = {}

-----------------------------------------------------------------------------
(* What is programmed in SOR1.                                             *)

\* The settings of the pads ("prods") for a rate: 5.4 Gbps has its own.
PadsFor(bw) == IF bw = 20 THEN "hbr2" ELSE "hbr"
RateProds(s, bw) == [s EXCEPT !.pads = PadsFor(bw)]

\* The macro for a rate: the pad prepared, its termination found, powered.
MacroUp(s, bw) == RateProds([s EXCEPT !.speed = bw], bw)
LanesOn(s, n) == [s EXCEPT !.lanes = n]
DpMode(s, l) == [s EXCEPT !.speed = l.bw, !.calc = l.calc, !.pattern = "none"]

-----------------------------------------------------------------------------
(* dpout_video_stop.  From stage 2 the lanes and the macro go down and the *)
(* sink is told; from stage 1 the head, SOR1 and the two PLLs.             *)

Undone(s) == {"picture", "head", "sor1", "plldp", "plld2"}
             \cup IF s >= 2 THEN {"macro", "lanes"} ELSE {}
Undo ==
    /\ stage' = 0 /\ assr' = FALSE
    /\ on' = on \ Undone(stage)
    /\ \E o \in Outcomes :
          sink' = IF stage >= 2 /\ assr /\ o = "ok" THEN [sink EXCEPT !.assr = FALSE] ELSE sink

Stop ==
    /\ pc = "idle" /\ stage # 0
    /\ Undo
    /\ UNCHANGED <<pc, ret, linkVars, sor, trained, lost>>

-----------------------------------------------------------------------------
(* _video_start up to the training.                                        *)

\* What the probe of the sink finds: no power for the AUX channel, nobody
\* plugged in, a sink that does not answer, or one that does.
Probes == {"no power", "no hpd", "silent", "answered"}

\* A start over a picture stops it first.  A sink that did not answer the
\* probe, or too slow for the mode, ends it.
Start(probe) ==
    /\ pc = "idle"
    /\ IF stage # 0 THEN Undo ELSE UNCHANGED <<stage, assr, on, sink>>
    /\ IF probe = "answered"
         THEN LET asked == [NoLink EXCEPT !.lanes = sink.dpcd.max, !.bw = sink.dpcd.rate] IN
              /\ link' = LinkCalc(asked) /\ vs' = NoLevels /\ pe' = NoLevels
              /\ IF Fits(asked.bw, asked.lanes) THEN Goto("clocks") ELSE Return(2)
         ELSE Return(1) /\ UNCHANGED <<link, vs, pe>>
    /\ UNCHANGED <<st, tries, same, sor, trained, lost>>

\* The two PLLs, the head's partition, SOR1's block out of its reset.  A PLL
\* that does not lock stays enabled.
Clocks ==
    /\ pc = "clocks"
    /\ \/ /\ "plldp" \in Faults
          /\ Return(3) /\ on' = on \cup {"plldp"} /\ UNCHANGED <<stage, sor>>
       \/ /\ "plld2" \in Faults
          /\ Return(4) /\ on' = on \cup {"plldp", "plld2"} /\ UNCHANGED <<stage, sor>>
       \/ /\ "disb" \in Faults
          /\ Return(5) /\ on' = on \cup {"plldp", "plld2"} /\ UNCHANGED <<stage, sor>>
       \/ /\ Goto("macro") /\ stage' = 1 /\ sor' = Quiet
          /\ on' = on \cup {"plldp", "plld2", "head", "sor1"}
    /\ UNCHANGED <<assr, linkVars, auxVars>>

\* SOR1 with the macro and the lanes up.
LanesUp == LanesOn(MacroUp(sor, link.bw), link.lanes)

\* The stage is set once the lanes are up.
MacroStageLate ==
    /\ pc = "macro"
    /\ on' = on \cup {"macro", "lanes"}
    /\ \/ "sequencer" \in Faults /\ Return(7) /\ sor' = LanesUp /\ UNCHANGED stage
       \/ Goto("wake") /\ stage' = 2 /\ sor' = DpMode(LanesUp, link)
    /\ UNCHANGED <<assr, linkVars, auxVars>>

\* The macro, its clock, the lanes, the link parameters.
Macro ==
    /\ pc = "macro"
    /\ stage' = 2 /\ on' = on \cup {"macro", "lanes"}
    /\ \/ "sequencer" \in Faults /\ Return(7) /\ sor' = LanesUp
       \/ Goto("wake") /\ sor' = DpMode(LanesUp, link)
    /\ UNCHANGED <<assr, linkVars, auxVars>>

\* The alternate scrambler reset, on a sink that has it, then the sink woken
\* (three tries, whatever comes of them); HPD may be gone by then.
Wake ==
    /\ pc = "wake"
    /\ IF sink.dpcd.canAssr
         THEN \E o \in Checked :
                 /\ assr' = (o = "ok")
                 /\ sink' = IF o = "lost" THEN sink ELSE [sink EXCEPT !.assr = TRUE]
                 /\ lost' = Marked("assr", o)
         ELSE UNCHANGED <<assr, sink, lost>>
    /\ Goto("rate") \/ (AuxFails /\ Return(8))
    /\ UNCHANGED <<stage, linkVars, sor, on, trained>>

-----------------------------------------------------------------------------
(* _link_train, and the loop around it.                                    *)

\* The rate.  A sink that does not take it fails the training.
SetRate ==
    /\ pc = "rate"
    /\ sor' = [sor EXCEPT !.speed = link.bw]
    /\ \E o \in Checked :
          /\ sink' = IF o = "lost" THEN sink ELSE [sink EXCEPT !.bw = link.bw]
          /\ Goto(IF o = "ok" THEN "width" ELSE "failed")
    /\ UNCHANGED <<stage, assr, linkVars, on, trained, lost>>

SetWidth ==
    /\ pc = "width"
    /\ \E o \in Checked :
          /\ sink' = IF o = "lost" THEN sink ELSE [sink EXCEPT !.lanes = link.lanes]
          /\ IF o = "ok"
               THEN Goto("begin") /\ sor' = [sor EXCEPT !.lanes = link.lanes]
               ELSE Goto("failed") /\ UNCHANGED sor
    /\ UNCHANGED <<stage, assr, linkVars, on, trained, lost>>

\* The status and the counters are locals of _link_train.
EndLocals == st' = Unread /\ tries' = 0 /\ same' = 0

BeginCr ==
    /\ pc = "begin"
    /\ vs' = [i \in Lane |-> link.floor] /\ pe' = NoLevels /\ EndLocals
    /\ Pattern("tps1") /\ Goto("cr")
    /\ UNCHANGED <<stage, assr, link, on, trained>>

CrTry ==
    /\ pc = "cr" /\ same < MaxSame /\ tries < MaxCr
    /\ tries' = tries + 1
    /\ Drive /\ Goto("cr look")
    /\ UNCHANGED <<stage, assr, link, vs, pe, st, same, sor, on, trained>>

CrLook ==
    /\ pc = "cr look"
    /\ ReadStatus
    /\ Goto(IF CrDone(st') THEN "cr done" ELSE "cr adjust")
    /\ UNCHANGED <<stage, assr, link, vs, pe, tries, same, sor, on, sink, lost>>

CrAdjust ==
    /\ pc = "cr adjust"
    /\ Adjust /\ same' = IF vs' = vs THEN same + 1 ELSE 0
    /\ Goto("cr")
    /\ UNCHANGED <<stage, assr, link, st, tries, sor, on, auxVars>>

CrGivesUp ==
    /\ pc = "cr" /\ (same >= MaxSame \/ tries >= MaxCr)
    /\ Pattern("none") /\ Goto("failed") /\ EndLocals
    /\ UNCHANGED <<stage, assr, link, vs, pe, on, trained>>

BeginEq ==
    /\ pc = "cr done"
    /\ tries' = 0 /\ same' = 0 /\ trained' = "unheard"
    /\ Pattern("tps2") /\ Goto("eq look")
    /\ UNCHANGED <<stage, assr, link, vs, pe, st, on>>

EqAdjust ==
    /\ pc = "eq adjust"
    /\ Adjust /\ Goto("eq drive")
    /\ UNCHANGED <<stage, assr, link, st, tries, same, sor, on, auxVars>>

EqDrive ==
    /\ pc = "eq drive"
    /\ Drive /\ Goto("eq look")
    /\ UNCHANGED <<stage, assr, linkVars, sor, on, trained>>

\* The clock must not have been lost.
EqLook ==
    /\ pc = "eq look"
    /\ ReadStatus
    /\ Goto(IF CrDone(st') THEN "eq done" ELSE "eq failed")
    /\ UNCHANGED <<stage, assr, link, vs, pe, tries, same, sor, on, sink, lost>>

EqDoneLook ==
    /\ pc = "eq done"
    /\ ReadStatus
    /\ IF EqDone(st')
         THEN Goto("trained") /\ UNCHANGED tries
         ELSE tries' = tries + 1 /\ Goto(IF tries' < MaxEq THEN "eq adjust" ELSE "eq failed")
    /\ UNCHANGED <<stage, assr, link, vs, pe, same, sor, on, sink, lost>>

EqEnd ==
    /\ pc \in {"trained", "eq failed"}
    /\ Pattern("none") /\ Goto(IF pc = "trained" THEN "margin" ELSE "failed") /\ EndLocals
    /\ UNCHANGED <<stage, assr, link, vs, pe, on, trained>>

\* The floor is not raised, or without a limit.
MarginSame ==
    /\ pc = "margin"
    /\ Goto("attach") \/ Goto("rate")
    /\ UNCHANGED <<stage, assr, linkVars, sor, on, auxVars>>
MarginUnlimited ==
    /\ pc = "margin"
    /\ \/ Goto("attach") /\ UNCHANGED link
       \/ link' = [link EXCEPT !.floor = @ + 1] /\ Goto("rate")
    /\ UNCHANGED <<stage, assr, vs, pe, st, tries, same, sor, on, auxVars>>

\* Symbol errors at the levels trained: once more from a higher swing.
Margin ==
    /\ pc = "margin"
    /\ \/ Goto("attach") /\ UNCHANGED link
       \/ /\ link.floor < 2
          /\ link' = [link EXCEPT !.floor = @ + 1] /\ Goto("rate")
    /\ UNCHANGED <<stage, assr, vs, pe, st, tries, same, sor, on, auxVars>>

\* The dividers stay those of the rate given up.
FallBackSameDividers ==
    /\ pc = "failed"
    /\ \/ link.bw = 6 /\ Return(9) /\ UNCHANGED <<link, sor>>
       \/ /\ link.bw # 6 /\ Goto("rate")
          /\ link' = [link EXCEPT !.bw = Lower(@), !.floor = 0]
          /\ sor' = [sor EXCEPT !.speed = link'.bw, !.pattern = "none"]
    /\ UNCHANGED <<stage, assr, vs, pe, st, tries, same, on, auxVars>>

\* The next lower rate, with its dividers and its pads, unless there is none or
\* it is too slow for the mode.
FallBack ==
    /\ pc = "failed"
    /\ \/ link.bw = 6 /\ Return(9) /\ UNCHANGED <<link, sor>>
       \/ /\ link.bw # 6
          /\ link' = LinkCalc([link EXCEPT !.bw = Lower(@), !.floor = 0])
          /\ IF Fits(link'.bw, link'.lanes)
               THEN Goto("rate") /\ sor' = RateProds(DpMode(sor, link'), link'.bw)
               ELSE Return(2) /\ UNCHANGED sor
    /\ UNCHANGED <<stage, assr, vs, pe, st, tries, same, on, auxVars>>

\* _sor_attach: the head runs either way.
Attach ==
    /\ pc = "attach"
    /\ on' = on \cup {"picture"}
    /\ \/ Return(0) /\ stage' = 3
       \/ "awake" \in Faults /\ Return(11) /\ UNCHANGED stage
    /\ UNCHANGED <<assr, linkVars, sor, auxVars>>

-----------------------------------------------------------------------------
Prepare == Clocks \/ Macro \/ Wake
ClockRecovery == BeginCr \/ CrTry \/ CrLook \/ CrAdjust \/ CrGivesUp
Equalize == BeginEq \/ EqAdjust \/ EqDrive \/ EqLook \/ EqDoneLook \/ EqEnd
Train == SetRate \/ SetWidth \/ ClockRecovery \/ Equalize \/ Margin \/ FallBack
Run == Prepare \/ Train \/ Attach

Next == Run \/ Stop \/ \E probe \in Probes : Start(probe)

Spec == Init /\ [][Next]_vars

-----------------------------------------------------------------------------
Places == {"idle", "clocks", "macro", "wake", "rate", "width", "begin", "cr", "cr look",
           "cr adjust", "cr done", "eq look", "eq done", "eq adjust", "eq drive",
           "trained", "eq failed", "margin", "failed", "attach"}
TypeOK ==
    /\ pc \in Places /\ ret \in 0 .. 11 /\ stage \in 0 .. 3 /\ assr \in BOOLEAN
    /\ link \in [lanes : 1 .. 2, bw : Rates, floor : 0 .. 2,
                 calc : (Rates \cup {0}) \X (0 .. 2)]
    /\ vs \in [Lane -> Levels] /\ pe \in [Lane -> Levels]
    /\ st \in Statuses \cup {Unread}
    /\ tries \in 0 .. (IF MaxCr > MaxEq THEN MaxCr ELSE MaxEq) /\ same \in 0 .. MaxSame
    /\ sor \in [speed : Rates \cup {0}, pads : {"none", "hbr", "hbr2"},
                calc : (Rates \cup {0}) \X (0 .. 2), lanes : 0 .. 2, pattern : Patterns]
    /\ on \subseteq {"plldp", "plld2", "head", "sor1", "macro", "lanes", "picture"}
    /\ sink \in [dpcd : Sinks,
                 bw : Rates \cup {0}, lanes : 0 .. 2,
                 vs : [Lane -> Levels], pe : [Lane -> Levels],
                 pattern : Patterns, assr : BOOLEAN]
    /\ trained \in {"no", "yes", "unheard"} /\ lost \subseteq {"levels", "pattern", "assr"}

\* Whatever the sink asks for, and whatever reads fail, a lane is driven within
\* the tables (swing and pre-emphasis 3 together) and not below the swing the
\* margin asked for.
LevelsInRange ==
    pc \in {"cr", "cr look", "cr done", "eq look", "eq drive", "eq done", "trained", "margin",
            "attach"}
    => \A i \in Used : vs[i] + pe[i] <= 3 /\ vs[i] >= link.floor

\* A picture runs over a link whose two ends were set alike: the rate and the
\* width in the sink, in SOR1, in the dividers and in the pads, after any number of rates
\* given up and accesses that failed; the levels, the pattern and the scrambler
\* unless that very access, which the code does not check, failed.
BothEndsAgree ==
    stage = 3 =>
      /\ sink.bw = link.bw /\ sor.speed = link.bw
      /\ sink.lanes = link.lanes /\ sor.lanes = link.lanes
      /\ sor.calc = <<link.bw, link.lanes>> /\ sor.pads = PadsFor(link.bw)
      /\ "levels" \notin lost => \A i \in Used : sink.vs[i] = vs[i] /\ sink.pe[i] = pe[i]
      /\ "pattern" \notin lost => sink.pattern = "none" /\ sor.pattern = "none"
      /\ "assr" \notin lost => sink.assr = assr

\* A picture never comes up against the sink's word: whatever was lost before or
\* after it, the last answer read during equalization said that every lane in
\* use was equalized and aligned.  Nothing may have been read there at all: the
\* results of the reads are not looked at, so that what clock recovery read, or
\* whatever was in st[3], then decides.
PictureIsTrained == stage = 3 => trained # "no"

\* No training is tried twice: each one is at a lower rate than the one before
\* or, at the same rate, from a higher swing.  With the tries of each training
\* bounded, a start returns whatever the sink answers.
RetrainsDescend ==
    [][pc \notin {"rate", "wake"} /\ pc' = "rate" =>
         \/ link'.bw < link.bw
         \/ link'.bw = link.bw /\ link'.floor > link.floor]_vars

\* Stopping and starting over leave nothing powered or clocked, whichever step the
\* start failed at from stage 1 on, the attach included.  A start that failed
\* before it, which the stop does not look at, leaves the two PLLs at most, however
\* many starts failed so (s_stage's comment has 0 as "nothing").
StopUndoes == /\ [][stage' < stage => on' = {}]_vars
              /\ [](stage = 0 => on \subseteq {"plldp", "plld2"})
=============================================================================
