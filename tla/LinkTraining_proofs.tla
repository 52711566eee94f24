------------------------ MODULE LinkTraining_proofs ------------------------
(***************************************************************************)
(* Proofs about LinkTraining, for every sink, every request it may make,   *)
(* every number of tries and every set of parts that may fail.             *)
(***************************************************************************)
EXTENDS LinkTraining, TLAPS

Links == [lanes : 1 .. 2, bw : Rates, floor : 0 .. 2, calc : (Rates \cup {0}) \X (0 .. 2)]
Pads == {"none", "hbr", "hbr2"}
Sors == [speed : Rates \cup {0}, pads : Pads, calc : (Rates \cup {0}) \X (0 .. 2),
         lanes : 0 .. 2, pattern : Patterns]
SinkStates == [dpcd : Sinks, bw : Rates \cup {0}, lanes : 0 .. 2,
               vs : [Lane -> Levels], pe : [Lane -> Levels],
               pattern : Patterns, assr : BOOLEAN]
Powered == {"plldp", "plld2", "head", "sor1", "macro", "lanes", "picture"}

\* Where the locals of _link_train hold a status.
Looking == {"cr", "cr look", "cr adjust", "cr done", "eq look", "eq done", "eq adjust",
            "eq drive", "trained", "eq failed"}

\* The types, in the parts the steps disturb apart.
TypeControl == pc \in Places /\ ret \in 0 .. 11 /\ stage \in 0 .. 3 /\ assr \in BOOLEAN
TypeLink == link \in Links
TypeLevels == vs \in [Lane -> Levels] /\ pe \in [Lane -> Levels]
TypeStatus == st = Unread \/ (st \in Statuses /\ pc \in Looking)
TypeSor == sor \in Sors
TypeSink == sink \in SinkStates
TypeRest == /\ on \subseteq Powered
            /\ trained \in {"no", "yes", "unheard"} /\ lost \subseteq {"levels", "pattern", "assr"}

\* A try is counted before the limit is looked at again.
Limits == /\ tries \in Nat /\ same \in Nat
          /\ same <= MaxSame /\ (tries <= MaxCr \/ tries <= MaxEq)
Counts ==
    /\ Limits
    /\ pc \in {"cr look", "cr adjust"} => same < MaxSame
    /\ pc \in {"eq look", "eq done", "eq adjust", "eq drive"} => tries < MaxEq

Types ==
    /\ TypeControl /\ TypeLink /\ TypeLevels /\ TypeStatus
    /\ TypeSor /\ TypeSink /\ TypeRest /\ Counts

-----------------------------------------------------------------------------
(* The records, taken apart and stored to.                                 *)

\* No link, and SOR1 out of its reset.
LEMMA NoLinkType == NoLink \in Links /\ Quiet \in Sors
<1>1. 0 \in 0 .. 2 /\ 1 \in 1 .. 2 /\ <<0, 0>> \in (Rates \cup {0}) \X (0 .. 2)
  <2>1. 0 \in 0 .. 2 /\ 1 \in 1 .. 2 OBVIOUS
  <2>. QED BY <2>1
<1>. QED BY <1>1 DEF NoLink, Quiet, Links, Sors, Pads, Rates, Patterns

\* What a description of the link, of SOR1 and of the sink are made of.
LEMMA Records ==
    /\ \A l \in Links : /\ l.lanes \in 1 .. 2 /\ l.bw \in Rates /\ l.floor \in 0 .. 2
                        /\ l.calc \in (Rates \cup {0}) \X (0 .. 2)
    /\ \A s \in SinkStates : /\ s.dpcd \in Sinks /\ s.assr \in BOOLEAN
                             /\ s.dpcd.rate \in Rates /\ s.dpcd.max \in 1 .. 2
                             /\ s.dpcd.canAssr \in BOOLEAN
<1>1. \A l \in Links : /\ l.lanes \in 1 .. 2 /\ l.bw \in Rates /\ l.floor \in 0 .. 2
                       /\ l.calc \in (Rates \cup {0}) \X (0 .. 2)
  BY DEF Links
<1>2. \A s \in SinkStates : s.dpcd \in Sinks /\ s.assr \in BOOLEAN BY DEF SinkStates
<1>3. \A d \in Sinks : d.rate \in Rates /\ d.max \in 1 .. 2 /\ d.canAssr \in BOOLEAN
  BY SinksAssumption DEF Rates
<1>. QED BY <1>1, <1>2, <1>3

\* What is programmed in SOR1 stays of its type.
LEMMA SorStores ==
    ASSUME NEW s \in Sors
    PROVE  /\ \A p \in Patterns : [s EXCEPT !.pattern = p] \in Sors
           /\ \A r \in Rates : [s EXCEPT !.speed = r] \in Sors
           /\ \A n \in 0 .. 2 : [s EXCEPT !.lanes = n] \in Sors
           /\ \A r \in Rates : MacroUp(s, r) \in Sors /\ RateProds(s, r) \in Sors
           /\ \A n \in 0 .. 2 : LanesOn(s, n) \in Sors
           /\ \A l \in Links : DpMode(s, l) \in Sors
BY DEF Sors, Patterns, Pads, MacroUp, RateProds, PadsFor, LanesOn, DpMode, Links

\* What the steps of the power up leave in SOR1.
LEMMA PowerUpSets ==
    ASSUME sor \in Sors, link \in Links
    PROVE  /\ LanesUp \in Sors /\ DpMode(LanesUp, link) \in Sors
           /\ DpMode(LanesUp, link).speed = link.bw /\ DpMode(LanesUp, link).calc = link.calc
           /\ DpMode(LanesUp, link).lanes = link.lanes
           /\ DpMode(LanesUp, link).pads = PadsFor(link.bw)
<1>. DEFINE m == MacroUp(sor, link.bw)
<1>1. link.lanes \in 0 .. 2 /\ link.bw \in Rates
  <2>1. link.lanes \in 1 .. 2 /\ link.bw \in Rates BY DEF Links
  <2>. QED BY <2>1
<1>2. m \in Sors BY <1>1, SorStores
<1>3. m.pads = PadsFor(link.bw) BY DEF MacroUp, RateProds, Sors
<1>4. LanesUp = LanesOn(m, link.lanes) BY DEF LanesUp
<1>. HIDE DEF m
<1>5. LanesUp \in Sors BY <1>1, <1>2, <1>4, SorStores
<1>6. LanesUp.lanes = link.lanes /\ LanesUp.pads = m.pads BY <1>2, <1>4 DEF LanesOn, Sors
<1>7. DpMode(LanesUp, link) \in Sors BY <1>5, SorStores
<1>8. /\ DpMode(LanesUp, link).speed = link.bw /\ DpMode(LanesUp, link).calc = link.calc
      /\ DpMode(LanesUp, link).lanes = LanesUp.lanes /\ DpMode(LanesUp, link).pads = LanesUp.pads
  BY <1>5 DEF DpMode, Sors
<1>. QED BY <1>3, <1>5, <1>6, <1>7, <1>8

\* What the fallback leaves there.
LEMMA FallBackSets ==
    ASSUME NEW s \in Sors, NEW l \in Links
    PROVE  LET t == RateProds(DpMode(s, l), l.bw) IN
           /\ t \in Sors /\ t.speed = l.bw /\ t.calc = l.calc /\ t.lanes = s.lanes
           /\ t.pads = PadsFor(l.bw)
<1>. DEFINE m == DpMode(s, l)
<1>1. m \in Sors BY SorStores
<1>2. m.speed = l.bw /\ m.calc = l.calc /\ m.lanes = s.lanes BY DEF DpMode, Sors
<1>. HIDE DEF m
<1>3. l.bw \in Rates BY DEF Links
<1>4. RateProds(m, l.bw) \in Sors BY <1>1, <1>3, SorStores
<1>5. /\ RateProds(m, l.bw).speed = m.speed /\ RateProds(m, l.bw).calc = m.calc
      /\ RateProds(m, l.bw).lanes = m.lanes /\ RateProds(m, l.bw).pads = PadsFor(l.bw)
  BY <1>1 DEF RateProds, Sors
<1>6. m = DpMode(s, l) BY DEF m
<1>. QED BY <1>2, <1>4, <1>5, <1>6

\* What the sink is told stays of its type.
LEMMA SinkStores ==
    ASSUME NEW s \in SinkStates
    PROVE  /\ \A p \in Patterns : [s EXCEPT !.pattern = p] \in SinkStates
           /\ \A r \in Rates : [s EXCEPT !.bw = r] \in SinkStates
           /\ \A n \in 0 .. 2 : [s EXCEPT !.lanes = n] \in SinkStates
           /\ \A b \in BOOLEAN : [s EXCEPT !.assr = b] \in SinkStates
           /\ \A u, v \in [Lane -> Levels] : [s EXCEPT !.vs = u, !.pe = v] \in SinkStates
BY DEF SinkStates

\* The link's description stays of its type, whatever it becomes; the dividers
\* computed are those of a mode that fits.
LEMMA LinkStores ==
    ASSUME NEW l \in Links
    PROVE  /\ l.floor < 2 => [l EXCEPT !.floor = @ + 1] \in Links
           /\ \A r \in Rates : [l EXCEPT !.bw = r, !.floor = 0] \in Links
           /\ LinkCalc(l) \in Links
           /\ LinkCalc(l).bw = l.bw /\ LinkCalc(l).lanes = l.lanes /\ LinkCalc(l).floor = l.floor
           /\ Fits(l.bw, l.lanes) => LinkCalc(l).calc = <<l.bw, l.lanes>>
<1>1. ASSUME l.floor < 2 PROVE [l EXCEPT !.floor = @ + 1] \in Links
  <2>1. l.floor + 1 \in 0 .. 2 BY <1>1 DEF Links
  <2>2. \A f \in 0 .. 2 : [l EXCEPT !.floor = f] \in Links BY DEF Links
  <2>. QED BY <2>1, <2>2
<1>2. 0 \in 0 .. 2 OBVIOUS
<1>3. ASSUME NEW r \in Rates PROVE [l EXCEPT !.bw = r, !.floor = 0] \in Links
  BY <1>2, <1>3 DEF Links
<1>4. \A c \in (Rates \cup {0}) \X (0 .. 2) :
         /\ [l EXCEPT !.calc = c] \in Links /\ [l EXCEPT !.calc = c].calc = c
         /\ [l EXCEPT !.calc = c].bw = l.bw /\ [l EXCEPT !.calc = c].lanes = l.lanes
         /\ [l EXCEPT !.calc = c].floor = l.floor
  BY DEF Links
<1>5. <<l.bw, l.lanes>> \in (Rates \cup {0}) \X (0 .. 2)
  <2>1. l.bw \in Rates /\ l.lanes \in 1 .. 2 BY DEF Links
  <2>2. l.lanes \in 0 .. 2 BY <2>1
  <2>. QED BY <2>1, <2>2
<1>6. \/ LinkCalc(l) = l /\ ~Fits(l.bw, l.lanes)
      \/ LinkCalc(l) = [l EXCEPT !.calc = <<l.bw, l.lanes>>]
  BY DEF LinkCalc
<1>7. /\ LinkCalc(l) \in Links
      /\ LinkCalc(l).bw = l.bw /\ LinkCalc(l).lanes = l.lanes /\ LinkCalc(l).floor = l.floor
  <2>1. CASE LinkCalc(l) = l BY <2>1
  <2>2. CASE LinkCalc(l) = [l EXCEPT !.calc = <<l.bw, l.lanes>>]
    <3> DEFINE c == <<l.bw, l.lanes>>
    <3>1. c \in (Rates \cup {0}) \X (0 .. 2) /\ LinkCalc(l) = [l EXCEPT !.calc = c] BY <1>5, <2>2
    <3> HIDE DEF c
    <3>2. /\ [l EXCEPT !.calc = c] \in Links /\ [l EXCEPT !.calc = c].bw = l.bw
          /\ [l EXCEPT !.calc = c].lanes = l.lanes /\ [l EXCEPT !.calc = c].floor = l.floor
      BY <1>4, <3>1
    <3>. QED BY <3>1, <3>2, Zenon
  <2>. QED BY <1>6, <2>1, <2>2
<1>8. ASSUME Fits(l.bw, l.lanes) PROVE LinkCalc(l).calc = <<l.bw, l.lanes>>
  <2>1. LinkCalc(l) = [l EXCEPT !.calc = <<l.bw, l.lanes>>] BY <1>8 DEF LinkCalc
  <2>. QED BY <1>4, <1>5, <2>1
<1>. QED BY <1>1, <1>3, <1>7, <1>8

-----------------------------------------------------------------------------
(* The accesses to the sink.                                               *)

\* _lt_adjust stays within the tables, and what it drives adds up to at most 3
\* and reaches the floor, whatever the sink asks for.
LEMMA AdjustedLevels ==
    ASSUME TypeLink, TypeLevels, Adjust
    PROVE  /\ TypeLevels'
           /\ \A i \in Used : vs'[i] + pe'[i] <= 3 /\ vs'[i] >= link.floor
<1>1. PICK ask \in [Lane -> Levels \X Levels] : Adjusted(ask)
  <2>1. [i \in Lane |-> <<0, 0>>] \in [Lane -> Levels \X Levels] BY DEF Levels
  <2>. QED BY <2>1, RequestsAssumption DEF Adjust
<1>2. link.floor \in 0 .. 2 /\ Used \subseteq Lane BY Records DEF TypeLink, Used, Lane
<1>3. ASSUME NEW i \in Lane
      PROVE  ask[i][1] \in 0 .. 3 /\ ask[i][2] \in 0 .. 3
  BY <1>1, <1>3 DEF Levels
<1>4. \A a, f \in 0 .. 3 : (IF a < f THEN f ELSE a) \in 0 .. 3 OBVIOUS
<1>5. ASSUME NEW i \in Lane PROVE Swing(ask[i][1]) \in 0 .. 3 /\ Swing(ask[i][1]) >= link.floor
  BY <1>2, <1>3, <1>5 DEF Swing
<1>6. ASSUME NEW s \in 0 .. 3, NEW a \in 0 .. 3
      PROVE  Emphasis(s, a) \in 0 .. 3 /\ s + Emphasis(s, a) <= 3
  BY <1>6 DEF Emphasis
<1>7. vs' \in [Lane -> Levels] BY <1>1, <1>5 DEF Adjusted, TypeLevels, Levels
<1>8. pe' \in [Lane -> Levels]
  BY <1>1, <1>3, <1>6, <1>7 DEF Adjusted, TypeLevels, Levels
<1>9. ASSUME NEW i \in Used PROVE vs'[i] + pe'[i] <= 3 /\ vs'[i] >= link.floor
  <2>1. i \in Lane BY <1>2, <1>9
  <2>2. vs'[i] = Swing(ask[i][1]) /\ pe'[i] = Emphasis(vs'[i], ask[i][2])
    BY <1>1, <1>9, <2>1 DEF Adjusted
  <2>. QED BY <1>3, <1>5, <1>6, <2>1, <2>2
<1>. QED BY <1>7, <1>8, <1>9 DEF TypeLevels

\* A pattern set keeps SOR1 and the sink of their types.
LEMMA PatternTypes ==
    ASSUME TypeSor, TypeSink, TypeRest, NEW p \in Patterns, Pattern(p)
    PROVE  TypeSor' /\ TypeSink' /\ lost' \subseteq {"levels", "pattern", "assr"}
BY SorStores, SinkStores DEF Pattern, TypeSor, TypeSink, TypeRest, Marked

\* So do levels driven.
LEMMA DriveTypes ==
    ASSUME TypeSink, TypeLevels, TypeRest, Drive
    PROVE  TypeSink' /\ lost' \subseteq {"levels", "pattern", "assr"}
<1>1. PICK o \in Outcomes :
        /\ sink' = IF o = "lost" THEN sink ELSE [sink EXCEPT !.vs = vs, !.pe = pe]
        /\ lost' = Marked("levels", o)
  BY DEF Drive
<1>2. [sink EXCEPT !.vs = vs, !.pe = pe] \in SinkStates
  BY SinkStores DEF TypeSink, TypeLevels
<1>. QED BY <1>1, <1>2 DEF TypeSink, TypeRest, Marked

\* A status read, or left as it was, is a status of the lanes in use.
LEMMA ReadTypes ==
    ASSUME TypeStatus, TypeRest, ReadStatus
    PROVE  st' \in Statuses /\ trained' \in {"no", "yes", "unheard"}
BY DEF ReadStatus, TypeStatus, TypeRest

-----------------------------------------------------------------------------
(* Every step keeps the types, one part of the state at a time: for each,  *)
(* the steps that write it, and the rest of Next, which leaves it alone.   *)

\* What the fallback leaves in the link's description and in SOR1: nothing new
\* at the lowest rate, else the next rate, with its dividers if the mode fits.
LEMMA FallBackWrites ==
    ASSUME FallBack, link \in Links, sor \in Sors
    PROVE  \/ link.bw = 6 /\ pc' = "idle" /\ link' = link /\ sor' = sor
           \/ /\ link.bw # 6 /\ link' \in Links
              /\ link'.bw = Lower(link.bw) /\ link'.lanes = link.lanes
              /\ \/ pc' = "idle" /\ sor' = sor
                 \/ /\ pc' = "rate" /\ link'.calc = <<link'.bw, link'.lanes>>
                    /\ sor' = RateProds(DpMode(sor, link'), link'.bw)
<1>. DEFINE asked == [link EXCEPT !.bw = Lower(link.bw), !.floor = 0]
<1>1. CASE link.bw = 6
  BY <1>1 DEF FallBack, Return
<1>2. CASE link.bw # 6
  <2>1. Lower(link.bw) \in Rates BY DEF Lower, Rates
  <2>2. asked \in Links /\ asked.bw = Lower(link.bw) /\ asked.lanes = link.lanes
    BY <2>1, LinkStores DEF Links
  <2>3. /\ link' = LinkCalc(asked)
        /\ \/ /\ Fits(link'.bw, link'.lanes) /\ pc' = "rate"
              /\ sor' = RateProds(DpMode(sor, link'), link'.bw)
           \/ pc' = "idle" /\ sor' = sor
    BY <1>2 DEF FallBack, Goto, Return
  <2>. HIDE DEF asked
  <2>4. link' \in Links /\ link'.bw = asked.bw /\ link'.lanes = asked.lanes
    BY <2>2, <2>3, LinkStores
  <2>5. Fits(link'.bw, link'.lanes) => link'.calc = <<link'.bw, link'.lanes>>
    BY <2>2, <2>3, <2>4, LinkStores
  <2>. QED BY <1>2, <2>2, <2>3, <2>4, <2>5
<1>. QED BY <1>1, <1>2

\* The description of the link is written by a start, the margin and the
\* fallback.
LEMMA LinkStep == Types /\ [Next]_vars => TypeLink'
<1> SUFFICES ASSUME Types, [Next]_vars PROVE TypeLink'
  OBVIOUS
<1>0. link \in Links /\ sink \in SinkStates /\ sor \in Sors
  BY DEF Types, TypeLink, TypeSink, TypeSor, Rates
<1>1. ASSUME NEW probe \in Probes, Start(probe) PROVE TypeLink'
  <2> DEFINE asked == [NoLink EXCEPT !.lanes = sink.dpcd.max, !.bw = sink.dpcd.rate]
  <2>1. sink.dpcd.max \in 1 .. 2 /\ sink.dpcd.rate \in Rates BY <1>0, Records
  <2>2. asked \in Links BY <2>1, NoLinkType DEF Links
  <2>3. LinkCalc(asked) \in Links BY <2>2, LinkStores
  <2>. QED BY <1>0, <1>1, <2>3 DEF Start, TypeLink
<1>2. CASE Margin
  BY <1>0, <1>2, LinkStores DEF Margin, TypeLink
<1>3. CASE FallBack
  BY <1>0, <1>3, FallBackWrites DEF TypeLink
<1>4. CASE UNCHANGED link
  BY <1>0, <1>4 DEF TypeLink
<1>5. Prepare \/ Attach \/ Stop \/ SetRate \/ SetWidth \/ ClockRecovery \/ Equalize \/ UNCHANGED vars
      => UNCHANGED link
  BY DEF Prepare, Clocks, Macro, Wake, Attach, Stop, SetRate, SetWidth, ClockRecovery, Equalize,
         BeginCr, CrTry, CrLook, CrAdjust, CrGivesUp, BeginEq, EqAdjust, EqDrive, EqLook,
         EqDoneLook, EqEnd, vars, linkVars
<1>. QED BY <1>1, <1>2, <1>3, <1>4, <1>5 DEF Next, Run, Train

\* The levels are written by a start, the first try and the requests.
LEMMA LevelsStep == Types /\ [Next]_vars => TypeLevels'
<1> SUFFICES ASSUME Types, [Next]_vars PROVE TypeLevels'
  OBVIOUS
<1>0. TypeLink /\ TypeLevels /\ link.floor \in Levels /\ NoLevels \in [Lane -> Levels]
  <2>1. link.floor \in 0 .. 2 BY Records DEF Types, TypeLink
  <2>. QED BY <2>1 DEF Types, Levels, NoLevels
<1>1. ASSUME NEW probe \in Probes, Start(probe) PROVE TypeLevels'
  BY <1>0, <1>1 DEF Start, TypeLevels
<1>2. CASE BeginCr
  BY <1>0, <1>2 DEF BeginCr, TypeLevels
<1>3. CASE CrAdjust \/ EqAdjust
  BY <1>0, <1>3, AdjustedLevels DEF CrAdjust, EqAdjust
<1>4. CASE UNCHANGED <<vs, pe>>
  BY <1>0, <1>4 DEF TypeLevels
<1>5. Prepare \/ Attach \/ Stop \/ SetRate \/ SetWidth \/ CrTry \/ CrLook \/ CrGivesUp \/ BeginEq
      \/ EqDrive \/ EqLook \/ EqDoneLook \/ EqEnd \/ Margin \/ FallBack \/ UNCHANGED vars
      => UNCHANGED <<vs, pe>>
  BY DEF Prepare, Clocks, Macro, Wake, Attach, Stop, SetRate, SetWidth, CrTry, CrLook, CrGivesUp,
         BeginEq, EqDrive, EqLook, EqDoneLook, EqEnd, Margin, FallBack, vars, linkVars
<1>. QED BY <1>1, <1>2, <1>3, <1>4, <1>5 DEF Next, Run, Train, ClockRecovery, Equalize

\* SOR1 is written by the start's power up, the rate, the width, the patterns
\* and the fallback.
LEMMA SorStep == Types /\ [Next]_vars => TypeSor'
<1> SUFFICES ASSUME Types, [Next]_vars PROVE TypeSor'
  OBVIOUS
<1>0. /\ sor \in Sors /\ link \in Links /\ TypeSor /\ TypeSink /\ TypeRest
      /\ link.bw \in Rates /\ link.lanes \in 0 .. 2 /\ link.calc \in (Rates \cup {0}) \X (0 .. 2)
      /\ {"none", "tps1", "tps2"} \subseteq Patterns /\ 6 \in Rates /\ 10 \in Rates
  <2>1. link.lanes \in 1 .. 2 BY Records DEF Types, TypeLink
  <2>2. link.lanes \in 0 .. 2 BY <2>1
  <2>. QED BY <2>2, Records DEF Types, TypeLink, TypeSor, Patterns, Rates
<1>1. CASE Macro
  <2>1. LanesUp \in Sors /\ DpMode(LanesUp, link) \in Sors BY <1>0, PowerUpSets
  <2>. QED BY <1>1, <2>1 DEF Macro, TypeSor
<1>2. CASE SetRate \/ SetWidth
  BY <1>0, <1>2, SorStores DEF SetRate, SetWidth, TypeSor
<1>3. CASE BeginCr \/ CrGivesUp \/ BeginEq \/ EqEnd
  <2>1. PICK p \in Patterns : Pattern(p)
    BY <1>0, <1>3 DEF BeginCr, CrGivesUp, BeginEq, EqEnd
  <2>. QED BY <1>0, <2>1, PatternTypes
<1>4. CASE FallBack
  BY <1>0, <1>4, FallBackWrites, FallBackSets DEF TypeSor
<1>5. CASE UNCHANGED sor
  BY <1>0, <1>5 DEF TypeSor
<1>6. Wake \/ Attach \/ Stop \/ CrTry \/ CrLook \/ CrAdjust \/ EqAdjust \/ EqDrive \/ EqLook
      \/ EqDoneLook \/ Margin \/ (\E probe \in Probes : Start(probe)) \/ UNCHANGED vars
      => UNCHANGED sor
  BY DEF Wake, Attach, Stop, CrTry, CrLook, CrAdjust, EqAdjust, EqDrive, EqLook,
         EqDoneLook, Margin, Start, vars
<1>7. CASE Clocks
  BY <1>0, <1>7, NoLinkType DEF Clocks, TypeSor
<1>. QED BY <1>1, <1>2, <1>3, <1>4, <1>5, <1>6, <1>7 DEF Next, Run, Prepare, Train, ClockRecovery, Equalize

\* The sink is told by every access that it takes.
LEMMA SinkStep == Types /\ [Next]_vars => TypeSink'
<1> SUFFICES ASSUME Types, [Next]_vars PROVE TypeSink'
  OBVIOUS
<1>0. /\ sink \in SinkStates /\ TypeLevels /\ TypeSor /\ TypeSink /\ TypeRest
      /\ link.bw \in Rates /\ link.lanes \in 0 .. 2
      /\ {"none", "tps1", "tps2"} \subseteq Patterns
  <2>1. link.lanes \in 1 .. 2 BY Records DEF Types, TypeLink
  <2>2. link.lanes \in 0 .. 2 BY <2>1
  <2>. QED BY <2>2, Records DEF Types, TypeLink, TypeSink, Patterns
<1>1. CASE Stop \/ \E probe \in Probes : Start(probe)
  <2>1. Undo \/ UNCHANGED sink BY <1>1 DEF Stop, Start
  <2>. QED BY <1>0, <2>1, SinkStores DEF Undo, TypeSink
<1>2. CASE Wake \/ SetRate \/ SetWidth
  BY <1>0, <1>2, SinkStores DEF Wake, SetRate, SetWidth, TypeSink
<1>3. CASE BeginCr \/ CrGivesUp \/ BeginEq \/ EqEnd
  <2>1. PICK p \in Patterns : Pattern(p)
    BY <1>0, <1>3 DEF BeginCr, CrGivesUp, BeginEq, EqEnd
  <2>. QED BY <1>0, <2>1, PatternTypes
<1>4. CASE CrTry \/ EqDrive
  BY <1>0, <1>4, DriveTypes DEF CrTry, EqDrive
<1>5. CASE UNCHANGED sink
  BY <1>0, <1>5 DEF TypeSink
<1>6. Clocks \/ Macro \/ Attach \/ CrLook \/ CrAdjust \/ EqAdjust \/ EqLook \/ EqDoneLook \/ Margin
      \/ FallBack \/ UNCHANGED vars
      => UNCHANGED sink
  BY DEF Clocks, Macro, Attach, CrLook, CrAdjust, EqAdjust, EqLook, EqDoneLook, Margin, FallBack,
         vars, auxVars
<1>. QED BY <1>1, <1>2, <1>3, <1>4, <1>5, <1>6 DEF Next, Run, Prepare, Train, ClockRecovery, Equalize

\* Where a step goes is a place, and what it returns, the stage it reaches and
\* the scrambler's flag are what they may be.
LEMMA ControlStep == Types /\ [Next]_vars => TypeControl'
<1> SUFFICES ASSUME Types, [Next]_vars PROVE TypeControl'
  OBVIOUS
<1>0. TypeControl BY DEF Types
<1>a. {0, 1, 2, 3, 4, 5, 7, 8, 9, 11} \subseteq 0 .. 11 /\ {0, 1, 2, 3} \subseteq 0 .. 3 OBVIOUS
<1>1. CASE Prepare
  BY <1>0, <1>1, <1>a DEF Prepare, Clocks, Macro, Wake, Goto, Return, TypeControl, Places
<1>2. CASE ClockRecovery
  BY <1>0, <1>2, <1>a DEF ClockRecovery, BeginCr, CrTry, CrLook, CrAdjust, CrGivesUp, Goto,
                          TypeControl, Places
<1>3. CASE Equalize
  BY <1>0, <1>3, <1>a DEF Equalize, BeginEq, EqAdjust, EqDrive, EqLook, EqDoneLook, EqEnd, Goto,
                          TypeControl, Places
<1>4. CASE SetRate \/ SetWidth \/ Margin \/ Attach
  BY <1>0, <1>4, <1>a DEF SetRate, SetWidth, Margin, Attach, Goto, Return, TypeControl, Places
<1>5. CASE FallBack
  BY <1>0, <1>5, <1>a DEF FallBack, Goto, Return, TypeControl, Places
<1>6. CASE Stop \/ \E probe \in Probes : Start(probe)
  BY <1>0, <1>6, <1>a DEF Stop, Start, Undo, Goto, Return, TypeControl, Places
<1>7. CASE UNCHANGED vars
  BY <1>0, <1>7 DEF TypeControl, vars
<1>. QED BY <1>1, <1>2, <1>3, <1>4, <1>5, <1>6, <1>7 DEF Next, Run, Train

\* Where the link is not described anew, a status stays one of the same lanes.
LEMMA StatusesKept == UNCHANGED link => Statuses' = Statuses
BY DEF Statuses, Used

\* A status read lives no longer than the locals of _link_train.
LEMMA StatusStep == Types /\ [Next]_vars => TypeStatus'
<1> SUFFICES ASSUME Types, [Next]_vars PROVE TypeStatus'
  OBVIOUS
<1>0. TypeStatus /\ TypeRest BY DEF Types
<1>1. CASE BeginCr \/ CrGivesUp \/ EqEnd
  BY <1>1 DEF BeginCr, CrGivesUp, EqEnd, EndLocals, TypeStatus
<1>2. CASE CrLook \/ EqLook \/ EqDoneLook
  <2>1. /\ st' \in Statuses /\ UNCHANGED link
        /\ pc' \in {"cr done", "cr adjust", "eq done", "eq failed", "trained", "eq adjust"}
    BY <1>0, <1>2, ReadTypes DEF CrLook, EqLook, EqDoneLook, Goto
  <2>. QED BY <2>1, StatusesKept DEF TypeStatus, Looking
<1>3. CASE CrTry \/ CrAdjust \/ BeginEq \/ EqAdjust \/ EqDrive
  <2>1. /\ UNCHANGED <<st, link>>
        /\ pc' \in {"cr look", "cr", "eq look", "eq drive"}
    BY <1>3 DEF CrTry, CrAdjust, BeginEq, EqAdjust, EqDrive, Goto, linkVars
  <2>. QED BY <1>0, <2>1, StatusesKept DEF TypeStatus, Looking
<1>4. CASE UNCHANGED st /\ pc \notin Looking
  BY <1>0, <1>4 DEF TypeStatus
<1>5. CASE UNCHANGED vars
  BY <1>0, <1>5, StatusesKept DEF TypeStatus, vars, linkVars
<1>6. Prepare \/ Attach \/ Stop \/ SetRate \/ SetWidth \/ Margin \/ FallBack
      \/ (\E probe \in Probes : Start(probe))
      => UNCHANGED st /\ pc \notin Looking
  BY DEF Prepare, Clocks, Macro, Wake, Attach, Stop, SetRate, SetWidth, Margin, FallBack, Start,
         linkVars, Looking
<1>. QED BY <1>1, <1>2, <1>3, <1>4, <1>5, <1>6 DEF Next, Run, Train, ClockRecovery, Equalize

\* What is powered, what equalization last saw and which writes failed.
LEMMA RestStep == Types /\ [Next]_vars => TypeRest'
<1> SUFFICES ASSUME Types, [Next]_vars PROVE TypeRest'
  OBVIOUS
<1>0. TypeRest /\ TypeSor /\ TypeSink /\ TypeLevels /\ TypeStatus BY DEF Types
<1>1. CASE Clocks \/ Macro \/ Attach
  BY <1>0, <1>1 DEF Clocks, Macro, Attach, TypeRest, Powered, auxVars
<1>2. CASE Wake
  BY <1>0, <1>2 DEF Wake, TypeRest, Marked
<1>3. CASE SetRate \/ SetWidth \/ CrAdjust \/ EqAdjust \/ Margin \/ FallBack
  BY <1>0, <1>3 DEF SetRate, SetWidth, CrAdjust, EqAdjust, Margin, FallBack, TypeRest, auxVars
<1>4. CASE BeginCr \/ CrGivesUp \/ BeginEq \/ EqEnd
  <2>1. PICK p \in Patterns : Pattern(p)
    BY <1>4 DEF BeginCr, CrGivesUp, BeginEq, EqEnd, Patterns
  <2>2. lost' \subseteq {"levels", "pattern", "assr"} BY <1>0, <2>1, PatternTypes
  <2>3. trained' \in {trained, "unheard"} /\ UNCHANGED on
    BY <1>4 DEF BeginCr, CrGivesUp, BeginEq, EqEnd
  <2>. QED BY <1>0, <2>2, <2>3 DEF TypeRest
<1>5. CASE CrTry \/ EqDrive
  <2>1. lost' \subseteq {"levels", "pattern", "assr"}
    BY <1>0, <1>5, DriveTypes DEF CrTry, EqDrive
  <2>. QED BY <1>0, <1>5, <2>1 DEF CrTry, EqDrive, TypeRest
<1>6. CASE CrLook \/ EqLook \/ EqDoneLook
  <2>1. trained' \in {"no", "yes", "unheard"}
    BY <1>0, <1>6, ReadTypes DEF CrLook, EqLook, EqDoneLook
  <2>. QED BY <1>0, <1>6, <2>1 DEF CrLook, EqLook, EqDoneLook, TypeRest
<1>7. CASE Stop \/ \E probe \in Probes : Start(probe)
  BY <1>0, <1>7 DEF Stop, Start, Undo, TypeRest
<1>8. CASE UNCHANGED vars
  BY <1>0, <1>8 DEF TypeRest, vars, auxVars
<1>. QED BY <1>1, <1>2, <1>3, <1>4, <1>5, <1>6, <1>7, <1>8
         DEF Next, Run, Prepare, Train, ClockRecovery, Equalize

\* The loops of the training end within their limits.
LEMMA CountsStep == Types /\ [Next]_vars => Counts'
<1> SUFFICES ASSUME Types, [Next]_vars PROVE Counts'
  OBVIOUS
<1>0. Counts BY DEF Types
<1>a. Limits /\ MaxSame \in Nat \ {0} /\ MaxCr \in Nat \ {0} /\ MaxEq \in Nat \ {0}
  BY <1>0, TriesAssumption DEF Counts
<1>1. CASE BeginCr \/ CrGivesUp \/ EqEnd \/ BeginEq
  <2>1. tries' = 0 /\ same' = 0 /\ pc' \in {"cr", "failed", "margin", "eq look"}
    BY <1>1 DEF BeginCr, CrGivesUp, EqEnd, BeginEq, EndLocals, Goto
  <2>2. 0 <= MaxSame /\ 0 <= MaxCr /\ 0 < MaxSame /\ 0 < MaxEq BY <1>a
  <2>3. Limits' BY <2>1, <2>2 DEF Limits
  <2>. QED BY <2>1, <2>2, <2>3, Zenon DEF Counts
<1>2. CASE CrTry
  <2>1. /\ same < MaxSame /\ tries < MaxCr /\ tries' = tries + 1 /\ same' = same
        /\ pc' = "cr look"
    BY <1>2 DEF CrTry, Goto
  <2>0. same < MaxSame /\ tries < MaxCr /\ tries' = tries + 1 /\ same' = same BY <2>1
  <2>2. Limits' BY <1>a, <2>0 DEF Limits
  <2>. QED BY <2>1, <2>2, Zenon DEF Counts
<1>3. CASE CrAdjust
  <2>1. pc = "cr adjust" /\ tries' = tries /\ same' \in {same + 1, 0} /\ pc' = "cr"
    BY <1>3 DEF CrAdjust, Goto
  <2>0. tries' = tries /\ (same' = same + 1 \/ same' = 0) BY <2>1
  <2>2. same < MaxSame BY <1>0, <2>1 DEF Counts
  <2>3. Limits' BY <1>a, <2>0, <2>2 DEF Limits
  <2>. QED BY <2>1, <2>3, Zenon DEF Counts
<1>4. CASE CrLook
  BY <1>0, <1>4 DEF CrLook, Goto, Counts, Limits
<1>5. CASE EqLook \/ EqAdjust \/ EqDrive
  BY <1>0, <1>5 DEF EqLook, EqAdjust, EqDrive, Goto, Counts, Limits, linkVars
<1>6. CASE EqDoneLook
  <2>1. pc = "eq done" /\ same' = same BY <1>6 DEF EqDoneLook
  <2>2. \/ pc' = "trained" /\ tries' = tries
        \/ tries' = tries + 1 /\ pc' = (IF tries' < MaxEq THEN "eq adjust" ELSE "eq failed")
    BY <1>6 DEF EqDoneLook, Goto
  <2>0. same' = same /\ (tries' = tries \/ tries' = tries + 1) BY <2>1, <2>2
  <2>3. tries < MaxEq BY <1>0, <2>1 DEF Counts
  <2>4. Limits' BY <1>a, <2>0, <2>3 DEF Limits
  <2>. QED BY <2>2, <2>4, Zenon DEF Counts
<1>7. CASE /\ UNCHANGED <<tries, same>>
           /\ pc' \notin {"cr look", "cr adjust", "eq look", "eq done", "eq adjust", "eq drive"}
  BY <1>0, <1>7 DEF Counts, Limits
<1>8. CASE UNCHANGED vars
  BY <1>0, <1>8 DEF Counts, Limits, vars, linkVars
<1>9. Prepare \/ Attach \/ Stop \/ SetRate \/ SetWidth \/ Margin \/ FallBack
      \/ (\E probe \in Probes : Start(probe))
      => /\ UNCHANGED <<tries, same>>
         /\ pc' \notin {"cr look", "cr adjust", "eq look", "eq done", "eq adjust", "eq drive"}
  BY DEF Prepare, Clocks, Macro, Wake, Attach, Stop, SetRate, SetWidth, Margin, FallBack, Start,
         linkVars, Goto, Return
<1>. QED BY <1>1, <1>2, <1>3, <1>4, <1>5, <1>6, <1>7, <1>8, <1>9
         DEF Next, Run, Train, ClockRecovery, Equalize

\* Every step keeps the types.
LEMMA StepTypes == Types /\ [Next]_vars => Types'
BY LinkStep, LevelsStep, SorStep, SinkStep, ControlStep, StatusStep, RestStep, CountsStep DEF Types

-----------------------------------------------------------------------------
(* The invariant.  A picture is up at stage 3, which a start reaches from  *)
(* "attach": what the two ends agree on is followed from where it is first *)
(* set, through every training that failed, to there.                      *)

\* SOR1 has been told the link, or a picture is up.
Configured == stage = 3 \/ pc \notin {"idle", "clocks", "macro"}
\* The sink took the rate.
Told == stage = 3 \/ pc \notin {"idle", "clocks", "macro", "wake", "rate", "failed"}
\* The levels driven last are those computed last.
Driven == stage = 3 \/ pc \in {"cr look", "cr done", "eq look", "eq done", "trained",
                               "eq failed", "margin", "attach"}
\* Training ended well.
Passed == stage = 3 \/ pc \in {"margin", "attach"}

InvStage ==
    /\ pc = "clocks" => stage = 0
    /\ pc = "macro" => stage = 1
    /\ pc \notin {"idle", "clocks", "macro"} => stage = 2
    /\ stage \in {0, 1} => "macro" \notin on /\ "lanes" \notin on
    /\ stage = 0 => on \subseteq {"plldp", "plld2"}
InvRate ==
    /\ Configured \/ pc \in {"clocks", "macro"} => link.calc = <<link.bw, link.lanes>>
    /\ Configured => /\ sor.speed = link.bw /\ sor.lanes = link.lanes
                     /\ sor.calc = <<link.bw, link.lanes>> /\ sor.pads = PadsFor(link.bw)
InvTold ==
    /\ Told => sink.bw = link.bw
    /\ Told /\ pc # "width" => sink.lanes = link.lanes
InvDriven == Driven /\ "levels" \notin lost => sink.vs = vs /\ sink.pe = pe
InvPattern == Passed /\ "pattern" \notin lost => sink.pattern = "none" /\ sor.pattern = "none"
InvScrambler ==
    /\ Configured /\ pc # "wake" /\ "assr" \notin lost => sink.assr = assr
    /\ sink.dpcd.canAssr = FALSE => assr = FALSE /\ sink.assr = FALSE
NotEqualized == st # Unread /\ ~EqDone(st)
Equalizing == {"eq look", "eq done", "eq adjust", "eq drive"}
InvTrained ==
    /\ Passed \/ pc = "trained" => trained # "no"
    /\ pc \in Equalizing /\ trained = "no" => NotEqualized

Inv ==
    /\ Types /\ InvStage /\ InvRate /\ InvTold /\ InvDriven
    /\ InvPattern /\ InvScrambler /\ InvTrained /\ LevelsInRange

-----------------------------------------------------------------------------
(* What an access leaves alone.                                            *)

\* A pattern set changes the pattern only, and in the sink unless it was lost.
LEMMA PatternSets ==
    ASSUME TypeSor, TypeSink, NEW p, Pattern(p)
    PROVE  /\ sor'.speed = sor.speed /\ sor'.lanes = sor.lanes /\ sor'.calc = sor.calc
           /\ sor'.pads = sor.pads /\ sor'.pattern = p
           /\ sink'.dpcd = sink.dpcd /\ sink'.bw = sink.bw /\ sink'.lanes = sink.lanes
           /\ sink'.vs = sink.vs /\ sink'.pe = sink.pe /\ sink'.assr = sink.assr
           /\ "pattern" \notin lost' => sink'.pattern = p
           /\ "levels" \in lost' <=> "levels" \in lost
           /\ "assr" \in lost' <=> "assr" \in lost
BY DEF Pattern, TypeSor, TypeSink, Sors, SinkStates, Marked

\* Levels driven change the levels only, to those computed unless it was lost.
LEMMA DriveSets ==
    ASSUME TypeSink, Drive
    PROVE  /\ sink'.dpcd = sink.dpcd /\ sink'.bw = sink.bw /\ sink'.lanes = sink.lanes
           /\ sink'.pattern = sink.pattern /\ sink'.assr = sink.assr
           /\ "levels" \notin lost' => sink'.vs = vs /\ sink'.pe = pe
           /\ "pattern" \in lost' <=> "pattern" \in lost
           /\ "assr" \in lost' <=> "assr" \in lost
BY DEF Drive, TypeSink, SinkStates, Marked

\* The wake up changes the scrambler only, and only of a sink that has it.
LEMMA WakeSets ==
    ASSUME TypeSink, Wake
    PROVE  /\ sink'.dpcd = sink.dpcd /\ sink'.bw = sink.bw /\ sink'.lanes = sink.lanes
           /\ sink'.vs = sink.vs /\ sink'.pe = sink.pe /\ sink'.pattern = sink.pattern
           /\ "pattern" \in lost' <=> "pattern" \in lost
           /\ "levels" \in lost' <=> "levels" \in lost
           /\ sink.dpcd.canAssr = FALSE => assr' = assr /\ sink' = sink
           /\ sink.dpcd.canAssr = TRUE /\ "assr" \notin lost' => sink'.assr = assr'
<1>1. sink.dpcd.canAssr \in BOOLEAN BY Records DEF TypeSink
<1>2. CASE sink.dpcd.canAssr = FALSE
  BY <1>2 DEF Wake
<1>3. CASE sink.dpcd.canAssr = TRUE
  <2>1. PICK o \in Checked : /\ assr' = (o = "ok")
                             /\ sink' = IF o = "lost" THEN sink ELSE [sink EXCEPT !.assr = TRUE]
                             /\ lost' = Marked("assr", o)
    BY <1>3 DEF Wake
  <2>2. CASE o = "ok" BY <1>3, <2>1, <2>2 DEF TypeSink, SinkStates, Marked
  <2>3. CASE o # "ok" BY <1>3, <2>1, <2>3 DEF TypeSink, SinkStates, Marked
  <2>. QED BY <2>2, <2>3
<1>. QED BY <1>1, <1>2, <1>3

\* What the rate sets.
LEMMA RateSets ==
    ASSUME TypeSor, TypeSink, SetRate
    PROVE  /\ sor'.speed = link.bw /\ sor'.lanes = sor.lanes /\ sor'.calc = sor.calc
           /\ sor'.pads = sor.pads
           /\ sink'.dpcd = sink.dpcd /\ sink'.assr = sink.assr
           /\ \/ pc' = "failed"
              \/ pc' = "width" /\ sink'.bw = link.bw
BY DEF SetRate, TypeSor, TypeSink, Sors, SinkStates, Checked, Goto

\* What the width sets.
LEMMA WidthSets ==
    ASSUME TypeSor, TypeSink, SetWidth
    PROVE  /\ sor'.speed = sor.speed /\ sor'.calc = sor.calc /\ sor'.pads = sor.pads
           /\ sor'.lanes \in {sor.lanes, link.lanes}
           /\ sink'.dpcd = sink.dpcd /\ sink'.assr = sink.assr /\ sink'.bw = sink.bw
           /\ \/ pc' = "failed"
              \/ pc' = "begin" /\ sink'.lanes = link.lanes
BY DEF SetWidth, TypeSor, TypeSink, Sors, SinkStates, Checked, Goto

\* What a stop leaves: no scrambler, and of what was powered nothing that was
\* powered by the stages reached.
LEMMA UndoSets ==
    ASSUME TypeSink, InvStage, TypeControl, TypeRest, Undo
    PROVE  /\ stage' = 0 /\ assr' = FALSE /\ on' = {}
           /\ sink'.dpcd = sink.dpcd
           /\ sink'.assr = sink.assr \/ sink'.assr = FALSE
<1>1. stage' = 0 /\ assr' = FALSE BY DEF Undo
<1>2. sink'.dpcd = sink.dpcd /\ (sink'.assr = sink.assr \/ sink'.assr = FALSE)
  BY DEF Undo, TypeSink, SinkStates
<1>3. stage \in {0, 1} \/ stage >= 2 BY DEF TypeControl
<1>4. on' = {} BY <1>3 DEF Undo, Undone, InvStage, TypeRest, Powered
<1>. QED BY <1>1, <1>2, <1>4

-----------------------------------------------------------------------------
(* Every step keeps the invariant, one part at a time.                     *)

\* The steps between the power up and the attach, where nothing is powered and
\* the stage stays 2.
Middle == Wake \/ Train

\* Where the steps of the middle start from, and where they go.
LEMMA MiddleMoves ==
    ASSUME Middle
    PROVE  /\ pc \notin {"idle", "clocks", "macro"} /\ pc' \notin {"clocks", "macro"}
           /\ UNCHANGED <<stage, on>>
<1>1. CASE Wake \/ SetRate \/ SetWidth \/ Margin
  BY <1>1 DEF Wake, SetRate, SetWidth, Margin, Goto, Return
<1>2. CASE ClockRecovery
  BY <1>2 DEF ClockRecovery, BeginCr, CrTry, CrLook, CrAdjust, CrGivesUp, Goto
<1>3. CASE Equalize
  BY <1>3 DEF Equalize, BeginEq, EqAdjust, EqDrive, EqLook, EqDoneLook, EqEnd, Goto
<1>4. CASE FallBack
  BY <1>4 DEF FallBack, Goto, Return
<1>. QED BY <1>1, <1>2, <1>3, <1>4 DEF Middle, Train

\* A start or a stop leaves nothing of the stages: there was nothing, or it is
\* undone.
LEMMA EndsMove ==
    ASSUME Inv, Stop \/ \E probe \in Probes : Start(probe)
    PROVE  /\ pc = "idle" /\ pc' \in {"idle", "clocks"} /\ stage' = 0
           /\ on' \subseteq {"plldp", "plld2"}
           /\ sink'.dpcd = sink.dpcd
           /\ assr' = assr \/ assr' = FALSE
           /\ sink'.assr = sink.assr \/ sink'.assr = FALSE
           /\ stage' < stage => on' = {}
           /\ UNCHANGED <<trained, lost>>
<1>0. TypeSink /\ TypeControl /\ TypeRest /\ InvStage BY DEF Inv, Types
<1>1. CASE Undo
  BY <1>0, <1>1, UndoSets DEF Stop, Start, Goto, Return
<1>2. CASE ~Undo
  <2>1. stage = 0 /\ UNCHANGED <<stage, assr, on, sink>> BY <1>2 DEF Stop, Start
  <2>. QED BY <1>0, <2>1 DEF Stop, Start, Goto, Return, InvStage
<1>. QED BY <1>1, <1>2

\* A picture is up only when nobody runs dpout_video_start.
LEMMA PictureIsIdle == Inv /\ stage = 3 => pc = "idle"
BY DEF Inv, InvStage

\* The stage is where the start is.
LEMMA StageStep == Inv /\ [Next]_vars => InvStage'
<1> SUFFICES ASSUME Inv, [Next]_vars PROVE InvStage'
  OBVIOUS
<1>0. InvStage /\ TypeControl BY DEF Inv, Types
<1>1. CASE Clocks
  BY <1>0, <1>1 DEF Clocks, Goto, Return, InvStage
<1>2. CASE Macro \/ Attach
  BY <1>0, <1>2 DEF Macro, Attach, Goto, Return, InvStage
<1>3. CASE Middle
  BY <1>0, <1>3, MiddleMoves DEF InvStage
<1>4. CASE Stop \/ \E probe \in Probes : Start(probe)
  BY <1>0, <1>4, EndsMove DEF InvStage
<1>5. CASE UNCHANGED vars
  BY <1>0, <1>5 DEF InvStage, vars
<1>. QED BY <1>1, <1>2, <1>3, <1>4, <1>5 DEF Next, Run, Prepare, Middle

\* The rate and the width in SOR1 and in its dividers are the link's.
LEMMA RateStep == Inv /\ [Next]_vars => InvRate'
<1> SUFFICES ASSUME Inv, [Next]_vars PROVE InvRate'
  OBVIOUS
<1>0. InvRate /\ InvStage /\ TypeSor /\ TypeSink /\ sor \in Sors /\ link \in Links
  BY DEF Inv, Types, TypeSor, TypeLink
<1>a. stage = 3 => pc = "idle" BY PictureIsIdle
<1>1. ASSUME NEW probe \in Probes, Start(probe) PROVE InvRate'
  <2>1. stage' = 0 /\ pc' \in {"idle", "clocks"} BY <1>1, EndsMove
  <2>2. pc' = "clocks" => link'.calc = <<link'.bw, link'.lanes>>
    <3> DEFINE asked == [NoLink EXCEPT !.lanes = sink.dpcd.max, !.bw = sink.dpcd.rate]
    <3>1. sink.dpcd.max \in 1 .. 2 /\ sink.dpcd.rate \in Rates BY <1>0, Records DEF TypeSink
    <3>2. asked \in Links BY <3>1, NoLinkType DEF Links
    <3>3. pc' = "clocks" => link' = LinkCalc(asked) /\ Fits(asked.bw, asked.lanes)
      BY <1>1 DEF Start, Goto, Return
    <3> HIDE DEF asked
    <3>4. Fits(asked.bw, asked.lanes) =>
             LinkCalc(asked).calc = <<LinkCalc(asked).bw, LinkCalc(asked).lanes>>
      BY <3>2, LinkStores
    <3>. QED BY <3>3, <3>4
  <2>. QED BY <2>1, <2>2 DEF InvRate, Configured
<1>2. CASE Stop
  BY <1>0, <1>2, EndsMove DEF Stop, InvRate, Configured
<1>3. CASE Clocks
  BY <1>0, <1>a, <1>3 DEF Clocks, InvRate, InvStage, Configured, Goto, Return, linkVars
<1>4. CASE Macro
  <2>1. UNCHANGED link /\ link.calc = <<link.bw, link.lanes>> /\ stage' = 2
    BY <1>0, <1>4 DEF Macro, linkVars, InvRate
  <2>2. \/ pc' = "idle"
        \/ pc' = "wake" /\ sor' = DpMode(LanesUp, link)
    BY <1>4 DEF Macro, Goto, Return
  <2>3. LET t == DpMode(LanesUp, link)
        IN  t.speed = link.bw /\ t.calc = link.calc /\ t.lanes = link.lanes
            /\ t.pads = PadsFor(link.bw)
    BY <1>0, PowerUpSets
  <2>. QED BY <2>1, <2>2, <2>3 DEF InvRate, Configured
<1>5. CASE BeginCr \/ CrGivesUp \/ BeginEq \/ EqEnd
  <2>1. PICK p \in Patterns : Pattern(p)
    BY <1>5 DEF BeginCr, CrGivesUp, BeginEq, EqEnd, Patterns
  <2>2. Configured /\ UNCHANGED link
    BY <1>5 DEF BeginCr, CrGivesUp, BeginEq, EqEnd, Configured
  <2>. QED BY <1>0, <2>1, <2>2, PatternSets DEF InvRate
<1>6. CASE SetRate \/ SetWidth
  <2>1. Configured /\ UNCHANGED link
    BY <1>6 DEF SetRate, SetWidth, Configured, linkVars
  <2>. QED BY <1>0, <1>6, <2>1, RateSets, WidthSets DEF InvRate
<1>7. CASE Margin
  <2>1. Configured /\ UNCHANGED sor BY <1>7 DEF Margin, Configured
  <2>2. link'.bw = link.bw /\ link'.lanes = link.lanes /\ link'.calc = link.calc
    BY <1>0, <1>7 DEF Margin, Links
  <2>. QED BY <1>0, <2>1, <2>2 DEF InvRate
<1>8. CASE FallBack
  <2>1. Configured /\ UNCHANGED stage /\ stage = 2
    BY <1>0, <1>8 DEF FallBack, Configured, InvStage
  <2>2. CASE pc' = "idle"
    BY <2>1, <2>2 DEF InvRate, Configured
  <2>3. CASE /\ link' \in Links /\ link'.lanes = link.lanes /\ link'.calc = <<link'.bw, link'.lanes>>
             /\ sor' = RateProds(DpMode(sor, link'), link'.bw)
    <3>1. /\ sor'.speed = link'.bw /\ sor'.calc = link'.calc /\ sor'.lanes = sor.lanes
          /\ sor'.pads = PadsFor(link'.bw)
      BY <1>0, <2>3, FallBackSets
    <3>. QED BY <1>0, <2>1, <2>3, <3>1 DEF InvRate
  <2>. QED BY <1>0, <1>8, <2>2, <2>3, FallBackWrites
<1>9. CASE Wake \/ CrTry \/ CrLook \/ CrAdjust \/ EqAdjust \/ EqDrive \/ EqLook \/ EqDoneLook \/ Attach
  <2>1. Configured /\ UNCHANGED <<link, sor>>
    BY <1>9 DEF Wake, CrTry, CrLook, CrAdjust, EqAdjust, EqDrive, EqLook, EqDoneLook, Attach,
                Configured, linkVars
  <2>. QED BY <1>0, <2>1 DEF InvRate
<1>10. CASE UNCHANGED vars
  BY <1>0, <1>10 DEF InvRate, Configured, vars, linkVars
<1>. QED BY <1>1, <1>2, <1>3, <1>4, <1>5, <1>6, <1>7, <1>8, <1>9, <1>10
         DEF Next, Run, Prepare, Train, ClockRecovery, Equalize

\* Past the rate and the width the sink has been told them.
LEMMA ToldStep == Inv /\ [Next]_vars => InvTold'
<1> SUFFICES ASSUME Inv, [Next]_vars PROVE InvTold'
  OBVIOUS
<1>0. /\ InvTold /\ InvStage /\ TypeSor /\ TypeSink /\ link \in Links
      /\ (stage = 3 => pc = "idle")
  BY PictureIsIdle DEF Inv, Types, TypeLink
<1>1. CASE Stop \/ \E probe \in Probes : Start(probe)
  <2>1. stage' = 0 /\ pc' \in {"idle", "clocks"} BY <1>1, EndsMove
  <2>. QED BY <2>1 DEF InvTold, Told
<1>2. CASE Clocks \/ Macro \/ Wake
  BY <1>0, <1>2 DEF Clocks, Macro, Wake, Goto, Return, InvTold, Told, InvStage
<1>3. CASE SetRate
  <2>1. UNCHANGED <<link, stage>> /\ pc = "rate" BY <1>3 DEF SetRate, linkVars
  <2>2. stage' # 3 BY <1>0, <2>1
  <2>. QED BY <1>0, <1>3, <2>1, <2>2, RateSets DEF InvTold, Told
<1>4. CASE SetWidth
  <2>1. UNCHANGED <<link, stage>> /\ pc = "width" BY <1>4 DEF SetWidth, linkVars
  <2>2. stage' # 3 /\ Told BY <1>0, <2>1 DEF Told
  <2>. QED BY <1>0, <1>4, <2>1, <2>2, WidthSets DEF InvTold, Told
<1>5. CASE BeginCr \/ CrGivesUp \/ BeginEq \/ EqEnd
  <2>1. PICK p \in Patterns : Pattern(p)
    BY <1>5 DEF BeginCr, CrGivesUp, BeginEq, EqEnd, Patterns
  <2>2. Told /\ pc # "width" /\ UNCHANGED link
    BY <1>5 DEF BeginCr, CrGivesUp, BeginEq, EqEnd, Told
  <2>. QED BY <1>0, <2>1, <2>2, PatternSets DEF InvTold
<1>6. CASE CrTry \/ EqDrive
  <2>1. Told /\ pc # "width" /\ UNCHANGED link /\ Drive
    BY <1>6 DEF CrTry, EqDrive, Told, linkVars
  <2>. QED BY <1>0, <2>1, DriveSets DEF InvTold
<1>7. CASE CrLook \/ CrAdjust \/ EqAdjust \/ EqLook \/ EqDoneLook \/ Attach
  <2>1. Told /\ pc # "width" /\ UNCHANGED <<link, sink>>
    BY <1>7 DEF CrLook, CrAdjust, EqAdjust, EqLook, EqDoneLook, Attach, Told, linkVars, auxVars
  <2>. QED BY <1>0, <2>1 DEF InvTold
<1>8. CASE Margin
  <2>1. Told /\ pc # "width" /\ UNCHANGED sink BY <1>8 DEF Margin, Told, auxVars
  <2>2. link'.bw = link.bw /\ link'.lanes = link.lanes BY <1>0, <1>8 DEF Margin, Links
  <2>. QED BY <1>0, <2>1, <2>2 DEF InvTold
<1>9. CASE FallBack
  BY <1>0, <1>9 DEF FallBack, Goto, Return, InvTold, Told, InvStage
<1>10. CASE UNCHANGED vars
  BY <1>0, <1>10 DEF InvTold, Told, vars, linkVars, auxVars
<1>. QED BY <1>1, <1>2, <1>3, <1>4, <1>5, <1>6, <1>7, <1>8, <1>9, <1>10
         DEF Next, Run, Prepare, Train, ClockRecovery, Equalize

\* The levels the sink was told last are those computed last, unless the
\* access was lost.
LEMMA DrivenStep == Inv /\ [Next]_vars => InvDriven'
<1> SUFFICES ASSUME Inv, [Next]_vars PROVE InvDriven'
  OBVIOUS
<1>0. /\ InvDriven /\ InvStage /\ TypeSor /\ TypeSink /\ (stage = 3 => pc = "idle")
  BY PictureIsIdle DEF Inv, Types
<1>1. CASE Stop \/ \E probe \in Probes : Start(probe)
  <2>1. stage' = 0 /\ pc' \in {"idle", "clocks"} BY <1>1, EndsMove
  <2>2. stage' # 3 BY <2>1
  <2>3. pc' \notin {"cr look", "cr done", "eq look", "eq done", "trained",
                    "eq failed", "margin", "attach"}
    BY <2>1, Zenon
  <2>. QED BY <2>2, <2>3, Zenon DEF InvDriven, Driven
<1>2. CASE Clocks \/ Macro \/ Wake \/ SetRate \/ SetWidth \/ BeginCr \/ CrAdjust \/ CrGivesUp
           \/ EqAdjust \/ FallBack
  <2>1. stage' # 3 /\ pc' \notin {"cr look", "cr done", "eq look", "eq done", "trained",
                                  "eq failed", "margin", "attach"}
    <3>1. CASE Clocks \/ Macro \/ Wake
      <4>1. stage' # 3 BY <1>0, <3>1 DEF Clocks, Macro, Wake, InvStage
      <4>2. pc' \in {"idle", "macro", "wake", "rate"}
        BY <3>1 DEF Clocks, Macro, Wake, Goto, Return
      <4>. QED BY <4>1, <4>2, Zenon
    <3>2. CASE SetRate \/ SetWidth \/ FallBack
      BY <1>0, <3>2 DEF SetRate, SetWidth, FallBack, Goto, Return, InvStage
    <3>3. CASE BeginCr \/ CrAdjust \/ CrGivesUp \/ EqAdjust
      BY <1>0, <3>3 DEF BeginCr, CrAdjust, CrGivesUp, EqAdjust, Goto, InvStage
    <3>. QED BY <1>2, <3>1, <3>2, <3>3
  <2>. QED BY <2>1 DEF InvDriven, Driven
<1>3. CASE CrTry \/ EqDrive
  <2>1. Drive /\ UNCHANGED <<vs, pe>> BY <1>3 DEF CrTry, EqDrive, linkVars
  <2>. QED BY <1>0, <2>1, DriveSets DEF InvDriven
<1>4. CASE BeginEq \/ EqEnd
  <2>1. PICK p \in Patterns : Pattern(p) BY <1>4 DEF BeginEq, EqEnd, Patterns
  <2>2. Driven /\ UNCHANGED <<vs, pe>> BY <1>4 DEF BeginEq, EqEnd, Driven
  <2>. QED BY <1>0, <2>1, <2>2, PatternSets DEF InvDriven
<1>5. CASE CrLook \/ EqLook \/ EqDoneLook \/ Margin \/ Attach
  <2>1. Driven /\ UNCHANGED <<vs, pe, sink, lost>>
    BY <1>5 DEF CrLook, EqLook, EqDoneLook, Margin, Attach, Driven, linkVars, auxVars
  <2>. QED BY <1>0, <2>1 DEF InvDriven
<1>6. CASE UNCHANGED vars
  BY <1>0, <1>6 DEF InvDriven, Driven, vars, linkVars, auxVars
<1>. QED BY <1>1, <1>2, <1>3, <1>4, <1>5, <1>6
         DEF Next, Run, Prepare, Train, ClockRecovery, Equalize

\* A training that ended well left no pattern, unless the access was lost.
LEMMA PatternStep == Inv /\ [Next]_vars => InvPattern'
<1> SUFFICES ASSUME Inv, [Next]_vars PROVE InvPattern'
  OBVIOUS
<1>0. InvPattern /\ InvStage /\ TypeSor /\ TypeSink /\ (stage = 3 => pc = "idle")
  BY PictureIsIdle DEF Inv, Types
<1>1. CASE Stop \/ \E probe \in Probes : Start(probe)
  <2>1. stage' = 0 /\ pc' \in {"idle", "clocks"} BY <1>1, EndsMove
  <2>. QED BY <2>1 DEF InvPattern, Passed
<1>2. CASE Prepare \/ SetRate \/ SetWidth \/ FallBack \/ ClockRecovery \/ BeginEq \/ EqAdjust
           \/ EqDrive \/ EqLook \/ EqDoneLook
  <2>1. CASE Prepare \/ SetRate \/ SetWidth \/ FallBack
    BY <1>0, <2>1 DEF Prepare, Clocks, Macro, Wake, SetRate, SetWidth, FallBack, Goto, Return,
                      InvStage, InvPattern, Passed
  <2>2. CASE ClockRecovery
    BY <1>0, <2>2 DEF ClockRecovery, BeginCr, CrTry, CrLook, CrAdjust, CrGivesUp, Goto,
                      InvStage, InvPattern, Passed
  <2>3. CASE BeginEq \/ EqAdjust \/ EqDrive \/ EqLook \/ EqDoneLook
    BY <1>0, <2>3 DEF BeginEq, EqAdjust, EqDrive, EqLook, EqDoneLook, Goto,
                      InvStage, InvPattern, Passed
  <2>. QED BY <1>2, <2>1, <2>2, <2>3
<1>3. CASE EqEnd
  <2>1. Pattern("none") BY <1>3 DEF EqEnd
  <2>. QED BY <1>0, <2>1, PatternSets DEF InvPattern
<1>4. CASE Margin \/ Attach
  <2>1. Passed /\ UNCHANGED <<sink, sor, lost>> BY <1>4 DEF Margin, Attach, Passed, auxVars
  <2>. QED BY <1>0, <2>1 DEF InvPattern
<1>5. CASE UNCHANGED vars
  BY <1>0, <1>5 DEF InvPattern, Passed, vars, auxVars
<1>. QED BY <1>1, <1>2, <1>3, <1>4, <1>5 DEF Next, Run, Train, Equalize

\* The scrambler is the one the sink was told, unless the access was lost; a
\* sink without the alternate one is never told of it.
LEMMA ScramblerStep == Inv /\ [Next]_vars => InvScrambler'
<1> SUFFICES ASSUME Inv, [Next]_vars PROVE InvScrambler'
  OBVIOUS
<1>0. /\ InvScrambler /\ InvStage /\ TypeSor /\ TypeSink /\ sink.dpcd.canAssr \in BOOLEAN
      /\ stage = 3 => pc = "idle"
  BY PictureIsIdle, Records DEF Inv, Types, TypeSink
<1>1. CASE Stop \/ \E probe \in Probes : Start(probe)
  <2>1. /\ stage' = 0 /\ pc' \in {"idle", "clocks"}
        /\ sink'.dpcd = sink.dpcd
        /\ assr' = assr \/ assr' = FALSE
        /\ sink'.assr = sink.assr \/ sink'.assr = FALSE
    BY <1>1, EndsMove
  <2>. QED BY <1>0, <2>1 DEF InvScrambler, Configured
<1>2. CASE Clocks \/ Macro
  BY <1>0, <1>2 DEF Clocks, Macro, Goto, Return, InvStage, InvScrambler, Configured, auxVars
<1>3. CASE Wake
  <2>1. sink'.dpcd = sink.dpcd BY <1>0, <1>3, WakeSets
  <2>2. CASE sink.dpcd.canAssr = FALSE
    BY <1>0, <1>3, <2>1, <2>2, WakeSets DEF InvScrambler
  <2>3. CASE sink.dpcd.canAssr = TRUE
    BY <1>0, <1>3, <2>1, <2>3, WakeSets DEF InvScrambler
  <2>. QED BY <1>0, <2>2, <2>3
<1>4. CASE SetRate \/ SetWidth
  <2>1. Configured /\ pc # "wake" /\ UNCHANGED <<assr, lost>>
    BY <1>4 DEF SetRate, SetWidth, Configured
  <2>. QED BY <1>0, <1>4, <2>1, RateSets, WidthSets DEF InvScrambler
<1>5. CASE BeginCr \/ CrGivesUp \/ BeginEq \/ EqEnd
  <2>1. PICK p \in Patterns : Pattern(p)
    BY <1>5 DEF BeginCr, CrGivesUp, BeginEq, EqEnd, Patterns
  <2>2. Configured /\ pc # "wake" /\ UNCHANGED assr
    BY <1>5 DEF BeginCr, CrGivesUp, BeginEq, EqEnd, Configured
  <2>. QED BY <1>0, <2>1, <2>2, PatternSets DEF InvScrambler
<1>6. CASE CrTry \/ EqDrive
  <2>1. Configured /\ pc # "wake" /\ UNCHANGED assr /\ Drive
    BY <1>6 DEF CrTry, EqDrive, Configured
  <2>. QED BY <1>0, <2>1, DriveSets DEF InvScrambler
<1>7. CASE CrLook \/ CrAdjust \/ EqAdjust \/ EqLook \/ EqDoneLook \/ Margin \/ FallBack \/ Attach
  <2>1. Configured /\ pc # "wake" /\ UNCHANGED <<assr, sink, lost>>
    BY <1>7 DEF CrLook, CrAdjust, EqAdjust, EqLook, EqDoneLook, Margin, FallBack, Attach,
                Configured, auxVars
  <2>. QED BY <1>0, <2>1 DEF InvScrambler
<1>8. CASE UNCHANGED vars
  BY <1>0, <1>8 DEF InvScrambler, Configured, vars, auxVars
<1>. QED BY <1>1, <1>2, <1>3, <1>4, <1>5, <1>6, <1>7, <1>8
         DEF Next, Run, Prepare, Train, ClockRecovery, Equalize

\* A look during equalization: what is heard is what st holds, and a read that
\* is lost changes neither.
LEMMA HeardStep ==
    ASSUME ReadStatus, pc # "cr look", UNCHANGED link,
           trained = "no" => NotEqualized
    PROVE  trained' = "no" => NotEqualized'
<1>1. PICK s \in Statuses, o \in Outcomes :
        /\ \/ o = "ok" /\ st' = s
           \/ o # "ok" /\ st # Unread /\ st' = st
           \/ o # "ok" /\ st = Unread /\ st' \in Statuses
        /\ trained' = IF o # "ok" \/ pc = "cr look" THEN trained
                      ELSE IF s.align /\ \A i \in Used : s.lane[i] = "eq" THEN "yes" ELSE "no"
  BY DEF ReadStatus
<1>2. CASE o = "ok"
  <2>1. DOMAIN s = {"lane", "align"} BY DEF Statuses
  <2>2. DOMAIN Unread = {"unread"} BY DEF Unread
  <2>3. s # Unread BY <2>1, <2>2
  <2>4. st' = s /\ (trained' = "no" => ~(s.align /\ \A i \in Used : s.lane[i] = "eq"))
    BY <1>1, <1>2
  <2>5. Used' = Used BY DEF Used
  <2>6. EqDone(st)' <=> (s.align /\ \A i \in Used : s.lane[i] = "eq")
    BY <2>4, <2>5 DEF EqDone
  <2>. QED BY <2>3, <2>4, <2>6 DEF NotEqualized
<1>3. CASE o # "ok"
  <2>1. trained' = trained BY <1>1, <1>3
  <2>2. trained = "no" => st # Unread /\ st' = st BY <1>1, <1>3 DEF NotEqualized
  <2>3. UNCHANGED st => (EqDone(st)' <=> EqDone(st)) BY DEF EqDone, Used
  <2>. QED BY <2>1, <2>2, <2>3 DEF NotEqualized
<1>. QED BY <1>2, <1>3

\* Training ends well only where the last answer heard was that every lane is
\* equalized, or where none was heard.
LEMMA TrainedStep == Inv /\ [Next]_vars => InvTrained'
<1> SUFFICES ASSUME Inv, [Next]_vars PROVE InvTrained'
  OBVIOUS
<1>0. InvTrained /\ InvStage /\ (stage = 3 => pc = "idle")
  BY PictureIsIdle DEF Inv, Types
<1>1. CASE Stop \/ \E probe \in Probes : Start(probe)
  <2>1. stage' = 0 /\ pc' \in {"idle", "clocks"} BY <1>1, EndsMove
  <2>2. pc' # "trained" /\ pc' \notin Equalizing BY <2>1 DEF Equalizing
  <2>3. ~Passed' BY <2>1 DEF Passed
  <2>. QED BY <2>2, <2>3, Zenon DEF InvTrained, Equalizing
<1>2. CASE Prepare \/ SetRate \/ SetWidth \/ FallBack \/ ClockRecovery \/ BeginEq \/ EqAdjust
           \/ EqDrive
  <2>1. CASE Prepare \/ SetRate \/ SetWidth \/ FallBack
    <3>1. /\ pc' \in {"idle", "macro", "wake", "rate", "width", "begin", "failed"}
          /\ UNCHANGED stage \/ stage' \in {1, 2}
          /\ pc \in {"clocks", "macro", "wake", "rate", "width", "failed"}
      BY <2>1 DEF Prepare, Clocks, Macro, Wake, SetRate, SetWidth, FallBack, Goto, Return
    <3>2. ~Passed' /\ pc' # "trained" BY <1>0, <3>1 DEF Passed
    <3>3. pc' \notin Equalizing BY <3>1 DEF Equalizing
    <3>. QED BY <3>2, <3>3, Zenon DEF InvTrained, Equalizing
  <2>2. CASE ClockRecovery
    BY <1>0, <2>2 DEF ClockRecovery, BeginCr, CrTry, CrLook, CrAdjust, CrGivesUp, Goto,
                      InvStage, InvTrained, Passed, Equalizing
  <2>3. CASE BeginEq
    BY <1>0, <2>3 DEF BeginEq, Goto, InvStage, InvTrained, Passed, Equalizing
  <2>4. CASE EqAdjust \/ EqDrive
    <3>1. /\ pc \in Equalizing /\ pc' \in Equalizing
          /\ UNCHANGED <<stage, link, st, trained>>
      BY <2>4 DEF EqAdjust, EqDrive, Goto, Equalizing, linkVars, auxVars
    <3>2. ~Passed' BY <1>0, <2>4 DEF EqAdjust, EqDrive, Goto, InvStage, Passed
    <3>3. NotEqualized' <=> NotEqualized BY <3>1 DEF NotEqualized, EqDone, Used
    <3>. QED BY <1>0, <3>1, <3>2, <3>3 DEF InvTrained, Equalizing
  <2>. QED BY <1>2, <2>1, <2>2, <2>3, <2>4
<1>3. CASE EqLook \/ EqDoneLook
  <2>1. ReadStatus /\ pc \in Equalizing /\ pc # "cr look" /\ UNCHANGED <<stage, link>>
    BY <1>3 DEF EqLook, EqDoneLook, Equalizing
  <2>2. trained' = "no" => NotEqualized'
    BY <1>0, <2>1, HeardStep DEF InvTrained
  <2>3. EqDone(st)' <=> EqDone(st') BY <2>1 DEF EqDone, Used
  <2>5. NotEqualized' => ~EqDone(st') BY <2>3 DEF NotEqualized
  <2>4. ~Passed' /\ (pc' = "trained" => EqDone(st'))
    BY <1>0, <1>3 DEF EqLook, EqDoneLook, Goto, InvStage, Passed
  <2>. QED BY <2>2, <2>4, <2>5 DEF InvTrained
<1>4. CASE EqEnd
  BY <1>0, <1>4 DEF EqEnd, Goto, InvStage, InvTrained, Passed, Equalizing
<1>5. CASE Margin \/ Attach
  <2>1. /\ Passed /\ UNCHANGED trained /\ pc' \notin Equalizing
    BY <1>5 DEF Margin, Attach, Passed, auxVars, Goto, Return, Equalizing
  <2>. QED BY <1>0, <2>1, Zenon DEF InvTrained, Equalizing
<1>6. CASE UNCHANGED vars
  <2>1. NotEqualized' <=> NotEqualized
    BY <1>6 DEF vars, linkVars, NotEqualized, EqDone, Used
  <2>. QED BY <1>0, <1>6, <2>1 DEF InvTrained, Passed, vars, auxVars, linkVars
<1>. QED BY <1>1, <1>2, <1>3, <1>4, <1>5, <1>6 DEF Next, Run, Train, Equalize

\* A lane is driven within the tables and not below the floor.
LEMMA RangeStep == Inv /\ [Next]_vars => LevelsInRange'
<1> SUFFICES ASSUME Inv, [Next]_vars PROVE LevelsInRange'
  OBVIOUS
<1>0. LevelsInRange /\ TypeLink /\ TypeLevels BY DEF Inv, Types
<1> DEFINE Driving == {"cr", "cr look", "cr done", "eq look", "eq drive", "eq done", "trained",
                       "margin", "attach"}
           Sound == \A i \in Used : vs[i] + pe[i] <= 3 /\ vs[i] >= link.floor
<1>1. CASE pc' \notin Driving
  BY <1>1 DEF LevelsInRange
<1>2. CASE BeginCr
  <2>1. link.floor \in 0 .. 2 /\ Used \subseteq Lane BY <1>0, Records DEF TypeLink, Used, Lane
  <2>2. /\ vs' = [i \in Lane |-> link.floor] /\ pe' = [i \in Lane |-> 0] /\ UNCHANGED link
    BY <1>2 DEF BeginCr, NoLevels
  <2>3. \A i \in Lane : vs'[i] = link.floor /\ pe'[i] = 0 BY <2>2
  <2>4. \A i \in Used : vs'[i] + pe'[i] <= 3 /\ vs'[i] >= link.floor BY <2>1, <2>3
  <2>5. Used' = Used BY <2>2 DEF Used
  <2>. QED BY <2>2, <2>4, <2>5 DEF LevelsInRange
<1>3. CASE CrAdjust \/ EqAdjust
  <2>1. Adjust /\ UNCHANGED link BY <1>3 DEF CrAdjust, EqAdjust
  <2>2. \A i \in Used : vs'[i] + pe'[i] <= 3 /\ vs'[i] >= link.floor
    BY <1>0, <2>1, AdjustedLevels
  <2>3. Used' = Used BY <2>1 DEF Used
  <2>. QED BY <2>1, <2>2, <2>3 DEF LevelsInRange
<1>4. CASE pc \in Driving /\ UNCHANGED <<link, vs, pe>>
  <2>1. Used' = Used BY <1>4 DEF Used
  <2>. QED BY <1>0, <1>4, <2>1 DEF LevelsInRange
<1>5. Prepare \/ Stop \/ (\E probe \in Probes : Start(probe)) \/ SetRate \/ SetWidth
      \/ FallBack \/ CrGivesUp => pc' \notin Driving
  BY DEF Prepare, Clocks, Macro, Wake, Stop, Start, SetRate, SetWidth, FallBack, CrGivesUp,
         Goto, Return
<1>6. CrTry \/ CrLook \/ BeginEq \/ EqDrive \/ EqLook \/ EqDoneLook
      => pc \in Driving /\ UNCHANGED <<link, vs, pe>>
  BY DEF CrTry, CrLook, BeginEq, EqDrive, EqLook, EqDoneLook, linkVars
<1>7. EqEnd \/ Margin \/ Attach
      => pc' \notin Driving \/ (pc \in Driving /\ UNCHANGED <<link, vs, pe>>)
  BY DEF EqEnd, Margin, Attach, Goto, Return, linkVars
<1>8. CASE UNCHANGED vars
  BY <1>1, <1>4, <1>8 DEF vars, linkVars
<1>. QED BY <1>1, <1>2, <1>3, <1>4, <1>5, <1>6, <1>7, <1>8
         DEF Next, Run, Train, ClockRecovery, Equalize

-----------------------------------------------------------------------------
(* The theorems.                                                           *)

\* The parts of the types make the type invariant.
LEMMA TypesAreOK == Types => TypeOK
<1> SUFFICES ASSUME Types PROVE TypeOK
  OBVIOUS
<1>1. tries \in 0 .. (IF MaxCr > MaxEq THEN MaxCr ELSE MaxEq) /\ same \in 0 .. MaxSame
  <2>1. Limits BY DEF Types, Counts
  <2>. QED BY <2>1, TriesAssumption DEF Limits
<1>2. st \in Statuses \cup {Unread} BY DEF Types, TypeStatus
<1>3. sink \in SinkStates /\ link \in Links /\ sor \in Sors BY DEF Types, TypeSink, TypeLink, TypeSor
<1>. QED BY <1>1, <1>2, <1>3 DEF Types, TypeControl, TypeLevels, TypeRest, TypeOK,
                                 SinkStates, Links, Sors, Pads, Powered

\* Nothing runs at first, and nobody has been told anything.
LEMMA InitInv == Init => Inv
<1> SUFFICES ASSUME Init PROVE Inv
  OBVIOUS
<1>1. TypeControl /\ TypeStatus /\ TypeRest
  <2>1. ret \in 0 .. 11 /\ stage \in 0 .. 3 BY DEF Init
  <2>2. TypeControl BY <2>1 DEF Init, TypeControl, Places
  <2>. QED BY <2>2 DEF Init, TypeStatus, TypeRest
<1>2. NoLevels \in [Lane -> Levels] BY DEF NoLevels, Levels
<1>3. TypeLevels BY <1>2 DEF Init, TypeLevels
<1>4. 0 \in 0 .. 2 /\ 1 \in 1 .. 2 /\ <<0, 0>> \in (Rates \cup {0}) \X (0 .. 2)
  <2>1. 0 \in 0 .. 2 /\ 1 \in 1 .. 2 OBVIOUS
  <2>. QED BY <2>1
<1>6. TypeLink /\ TypeSor BY NoLinkType DEF Init, TypeLink, TypeSor
<1>7. PICK s \in Sinks :
        sink = [dpcd |-> s, bw |-> 0, lanes |-> 0, vs |-> NoLevels, pe |-> NoLevels,
                pattern |-> "none", assr |-> FALSE]
  BY DEF Init
<1>8. TypeSink BY <1>2, <1>4, <1>7 DEF TypeSink, SinkStates, Patterns
<1>9. Counts
  <2>1. tries = 0 /\ same = 0 /\ pc = "idle" BY DEF Init
  <2>2. Limits BY <2>1, TriesAssumption DEF Limits
  <2>. QED BY <2>1, <2>2, Zenon DEF Counts
<1>10. Types BY <1>1, <1>3, <1>6, <1>8, <1>9 DEF Types
<1>11. InvStage BY DEF Init, InvStage
<1>12. ~Configured /\ ~Told /\ ~Driven /\ ~Passed
  <2>1. stage # 3 /\ pc = "idle" BY DEF Init
  <2>. QED BY <2>1, Zenon DEF Configured, Told, Driven, Passed
<1>13. InvScrambler BY <1>7, <1>12 DEF Init, InvScrambler
<1>14. InvRate /\ InvTold /\ InvDriven /\ InvPattern /\ InvTrained /\ LevelsInRange
  BY <1>12 DEF Init, InvRate, InvTold, InvDriven, InvPattern, InvTrained, LevelsInRange,
                Equalizing
<1>. QED BY <1>10, <1>11, <1>13, <1>14 DEF Inv

\* Every step keeps the invariant.
LEMMA StepInv == Inv /\ [Next]_vars => Inv'
<1> SUFFICES ASSUME Inv, [Next]_vars PROVE Inv'
  OBVIOUS
<1>1. Types' BY StepTypes DEF Inv
<1>. QED BY <1>1, StageStep, RateStep, ToldStep, DrivenStep, PatternStep, ScramblerStep,
            TrainedStep, RangeStep DEF Inv

\* The invariant always holds.
THEOREM Invariance == Spec => []Inv
BY InitInv, StepInv, PTL DEF Spec

\* Every variable keeps its type.
THEOREM TypeCorrect == Spec => []TypeOK
<1>1. Inv => TypeOK BY TypesAreOK DEF Inv
<1>. QED BY <1>1, Invariance, PTL

\* Whatever sinks ask for, a lane is driven within the tables.
THEOREM LevelsAreInRange == Spec => []LevelsInRange
<1>1. Inv => LevelsInRange BY DEF Inv
<1>. QED BY <1>1, Invariance, PTL

\* A picture runs over a link whose two ends were set alike.
THEOREM EndsAgree == Spec => []BothEndsAgree
<1>1. Inv => BothEndsAgree
  <2> SUFFICES ASSUME Inv, stage = 3 PROVE BothEndsAgree
    BY DEF BothEndsAgree
  <2>1. pc = "idle" BY PictureIsIdle
  <2>2. Configured /\ Told /\ Driven /\ Passed /\ pc # "wake" /\ pc # "width"
    BY <2>1 DEF Configured, Told, Driven, Passed
  <2>. QED BY <2>2 DEF Inv, InvRate, InvTold, InvDriven, InvPattern, InvScrambler, BothEndsAgree
<1>. QED BY <1>1, Invariance, PTL

\* A picture never comes up against what the sink last said of the link.
THEOREM PicturesAreTrained == Spec => []PictureIsTrained
<1>1. Inv => PictureIsTrained BY DEF Inv, InvTrained, Passed, PictureIsTrained
<1>. QED BY <1>1, Invariance, PTL

\* No training is tried twice.
THEOREM TrainingsDescend == Spec => RetrainsDescend
<1> DEFINE A == pc \notin {"rate", "wake"} /\ pc' = "rate" =>
                  \/ link'.bw < link.bw
                  \/ link'.bw = link.bw /\ link'.floor > link.floor
<1>1. ASSUME Inv, Next PROVE A
  <2> SUFFICES ASSUME pc \notin {"rate", "wake"}, pc' = "rate"
               PROVE  \/ link'.bw < link.bw
                      \/ link'.bw = link.bw /\ link'.floor > link.floor
    OBVIOUS
  <2>0. link \in Links /\ sor \in Sors BY <1>1 DEF Inv, Types, TypeLink, TypeSor
  <2>1. Margin \/ FallBack
    <3>1. Prepare \/ Attach \/ SetRate \/ SetWidth => pc' # "rate" \/ pc \in {"rate", "wake"}
      BY DEF Prepare, Clocks, Macro, Wake, Attach, SetRate, SetWidth, Goto, Return
    <3>2. ClockRecovery => pc' # "rate"
      BY DEF ClockRecovery, BeginCr, CrTry, CrLook, CrAdjust, CrGivesUp, Goto
    <3>3. Equalize => pc' # "rate"
      BY DEF Equalize, BeginEq, EqAdjust, EqDrive, EqLook, EqDoneLook, EqEnd, Goto
    <3>4. Stop \/ (\E probe \in Probes : Start(probe)) => pc' # "rate"
      BY DEF Stop, Start, Goto, Return
    <3>. QED BY <1>1, <3>1, <3>2, <3>3, <3>4 DEF Next, Run, Train
  <2>2. CASE Margin
    <3>1. link' = [link EXCEPT !.floor = @ + 1] BY <2>2 DEF Margin, Goto
    <3>2. link'.bw = link.bw /\ link'.floor = link.floor + 1 /\ link.floor \in 0 .. 2
      BY <2>0, <3>1 DEF Links
    <3>. QED BY <3>2
  <2>3. CASE FallBack
    <3>1. /\ link.bw # 6 /\ link.bw \in Rates
          /\ link'.bw = Lower(link.bw)
      BY <2>0, <2>3, FallBackWrites DEF Links
    <3>. QED BY <3>1 DEF Lower, Rates
  <2>. QED BY <2>1, <2>2, <2>3
<1>2. Inv /\ [Next]_vars => [A]_vars BY <1>1
<1>. QED BY <1>2, Invariance, PTL DEF Spec, RetrainsDescend

\* Stopping, and starting over, undo what the start reached from stage 1 on, and a
\* start that did not reach it leaves the two PLLs at most.
THEOREM StopsUndo == Spec => StopUndoes
<1> DEFINE A == stage' < stage => on' = {}
<1>1. ASSUME Inv, Next PROVE A
  <2>0. TypeControl /\ InvStage BY <1>1 DEF Inv, Types
  <2>1. CASE Stop \/ \E probe \in Probes : Start(probe)
    BY <1>1, <2>1, EndsMove
  <2>2. CASE Middle
    <3>1. stage' = stage /\ stage \in 0 .. 3 BY <2>0, <2>2, MiddleMoves DEF TypeControl
    <3>. QED BY <3>1
  <2>3. CASE Clocks \/ Macro \/ Attach
    <3>1. \/ stage' = stage
          \/ stage = 0 /\ stage' = 1
          \/ stage = 1 /\ stage' = 2
          \/ stage = 2 /\ stage' = 3
      BY <2>0, <2>3 DEF Clocks, Macro, Attach, InvStage
    <3>. QED BY <2>0, <3>1 DEF TypeControl
  <2>. QED BY <1>1, <2>1, <2>2, <2>3 DEF Next, Run, Prepare, Middle
<1>2. Inv /\ [Next]_vars => [A]_vars BY <1>1
<1>3. Inv => (stage = 0 => on \subseteq {"plldp", "plld2"}) BY DEF Inv, InvStage
<1>. QED BY <1>2, <1>3, Invariance, PTL DEF Spec, StopUndoes

=============================================================================
