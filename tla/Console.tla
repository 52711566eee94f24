------------------------------ MODULE Console ------------------------------
(***************************************************************************)
(* The RCM payload once a hardware test is chosen: the boot sweep, then    *)
(* the pager (main.c ipl_main, core.c).  One processor runs everything;    *)
(* what is concurrent is the PC at the other end of UART_B, whose bytes    *)
(* arrive in the UART's receive FIFO while probes run.                     *)
(*                                                                         *)
(* Two readers share those bytes.  uart_poll_reboot, called from every     *)
(* status_set and every polled wait, drains the FIFO looking for 'R' and   *)
(* pushes the rest back; uart_getc, called by the pager, takes pushed-back *)
(* bytes first.  The push-back FIFO is the ring of module ByteRing, used   *)
(* here through what that module promises: a queue of PushbackN bytes.     *)
(*                                                                         *)
(* A byte carries the role the PC sent it with: `cmd` says whether the PC  *)
(* meant it as a pager key or as part of a group name.  The code never     *)
(* reads it; the properties do.                                            *)
(***************************************************************************)
EXTENDS Integers, Sequences, FiniteSets

CONSTANTS
    NPages,     \* N_PAGES: page 0 is the verdict
    Enabled,    \* the data pages g_run_mask selects
    PageName,   \* g_pages[i].name, a sequence of bytes
    WifiPages,  \* the two pages 'w' runs again
    PushbackN,  \* UART_PUSHBACK_N
    NameMax,    \* sizeof(gname) - 1
    StorageUp,  \* the SD card and the eMMC came up
    Lines,      \* what the PC sends: keys, and 'G' lines
    Buttons,    \* the buttons the operator presses
    Polite,     \* TRUE: the PC starts a line only when the console is idle
    HostStalls, \* TRUE: the PC may pause 200 ms inside a line
    MaxSent,    \* bound: bytes the PC sends
    MaxPolls    \* bound: status steps inside one probe

NoByte == [c |-> "none", cmd |-> TRUE]
Pages == 0 .. NPages - 1
DataPages == 1 .. NPages - 1
Chars == UNION {{l[i] : i \in 1 .. Len(l)} : l \in Lines}
ByteSet == [c : Chars, cmd : BOOLEAN]

ASSUME PagesAssumption ==
    /\ NPages \in Nat \ {0} /\ Enabled \subseteq DataPages
    /\ WifiPages \subseteq Pages
ASSUME BoundsAssumption ==
    /\ PushbackN \in Nat \ {0} /\ NameMax \in Nat \ {0}
    /\ MaxSent \in Nat /\ MaxPolls \in Nat
ASSUME LinesAssumption == \A l \in Lines : l \in Seq(Chars) /\ l # <<>>

VARIABLES
    rx,        \* bytes in the UART's receive FIFO
    pb,        \* bytes pushed back, oldest first
    line,      \* what is left of the line the PC is sending
    sent,      \* bytes sent so far
    pc,        \* where the console is
    ret,       \* where uart_poll_reboot returns to
    job,       \* what the pages being run are for
    at,        \* the page loop's index
    cur,       \* the page whose probe runs
    polls,     \* status steps left to the probe that runs
    page,      \* the page on the LCD
    delta,     \* the navigation batch
    gname,     \* the group name read so far
    prev,      \* _log_uart_only as saved by 'G' and 'w'
    uartOnly,  \* _log_uart_only
    status,    \* g_show_status
    armed,     \* the capture sink is attached
    hasBuf,    \* g_report_body was allocated
    epoch,     \* sweeps started
    told,      \* what the last save_report logged
    dx,        \* the data pages whose findings the registry holds
    capture,   \* <<page, sweep>> pairs in the report buffer
    file,      \* the report on the SD card, as pairs too
    ran        \* the last byte run as a key

uartVars == <<rx, pb, line, sent>>
loopVars == <<ret, job, at, cur, polls>>
pagerVars == <<page, delta, gname, prev>>
sinkVars == <<uartOnly, status, armed, hasBuf>>
reportVars == <<epoch, dx, capture>>
sdVars == <<file, told>>
logVars == <<sinkVars, reportVars, sdVars>>
vars == <<uartVars, pc, loopVars, pagerVars, logVars, ran>>

page_enabled(i) == i = 0 \/ i \in Enabled
Sweeping == job \in {"boot", "all"}
Stopped == pc \in {"rebooting", "off"}

\* The pages the current loop runs.
Selected(i) ==
    CASE Sweeping        -> page_enabled(i)
      [] job = "render"  -> i = page
      [] job = "group"   -> PageName[i] = gname
      [] job = "wifi"    -> i \in WifiPages

\* A sweep that keeps the last one's findings, and one that appends its report.
BeginSweepNoReset(j) ==
    /\ job' = j /\ at' = 1 /\ pc' = "loop"
    /\ epoch' = epoch + 1
    /\ dx' = dx
    /\ uartOnly' = TRUE
    /\ armed' = hasBuf
    /\ capture' = IF hasBuf THEN {} ELSE capture

BeginSweepNoRearm(j) ==
    /\ job' = j /\ at' = 1 /\ pc' = "loop"
    /\ epoch' = epoch + 1
    /\ dx' = {}
    /\ uartOnly' = TRUE
    /\ armed' = hasBuf
    /\ capture' = capture

\* run_probe_mask empties the registry; log_capture_arm empties the buffer.
BeginSweep(j) ==
    /\ job' = j /\ at' = 1 /\ pc' = "loop"
    /\ epoch' = epoch + 1
    /\ dx' = {}
    /\ uartOnly' = TRUE
    /\ armed' = hasBuf
    /\ capture' = IF hasBuf THEN {} ELSE capture

BeginPages(j) == job' = j /\ at' = 0 /\ pc' = "loop"

-----------------------------------------------------------------------------
(* uart_getc and uart_ungetc.                                              *)

Waiting == pb \o rx

\* The byte uart_getc returns, NoByte for -1, and what it leaves.
Got == IF pb # <<>> THEN Head(pb) ELSE IF rx # <<>> THEN Head(rx) ELSE NoByte

uart_getc ==
    /\ pb' = IF pb # <<>> THEN Tail(pb) ELSE pb
    /\ rx' = IF pb = <<>> /\ rx # <<>> THEN Tail(rx) ELSE rx

\* uart_ungetc: dropped when the FIFO is full.
Pushed(q, b) == IF Len(q) < PushbackN THEN Append(q, b) ELSE q

-----------------------------------------------------------------------------
(* The sweep and the page loops: run_probe_mask, render_page, 'G', 'w'.    *)

Init ==
    /\ rx = <<>> /\ pb = <<>> /\ line = <<>> /\ sent = 0
    /\ hasBuf \in BOOLEAN
    /\ pc = "loop" /\ job = "boot" /\ at = 1 /\ ret = "body" /\ cur = 0
    /\ polls = 0 /\ page = 0 /\ delta = 0 /\ gname = <<>> /\ prev = FALSE
    /\ uartOnly = TRUE /\ status = TRUE /\ armed = hasBuf
    /\ epoch = 1 /\ dx = {} /\ capture = {}
    /\ file = {} /\ told = "nothing"
    /\ ran = NoByte

RunPage ==
    /\ pc = "loop" /\ at < NPages /\ Selected(at)
    /\ cur' = at /\ at' = at + 1
    /\ polls' = MaxPolls
    /\ pc' = IF Sweeping THEN "poll" ELSE "body"
    /\ ret' = "body"
    /\ UNCHANGED <<uartVars, job, pagerVars, logVars, ran>>

SkipPage ==
    /\ pc = "loop" /\ at < NPages /\ ~Selected(at)
    /\ at' = at + 1
    /\ UNCHANGED <<uartVars, pc, ret, job, cur, polls, pagerVars, logVars, ran>>

\* The verdict reads what the data pages deposited, so it runs last.
RunVerdict ==
    /\ pc = "loop" /\ Sweeping /\ at = NPages
    /\ cur' = 0 /\ at' = NPages + 1
    /\ polls' = MaxPolls
    /\ pc' = "poll" /\ ret' = "body"
    /\ UNCHANGED <<uartVars, job, pagerVars, logVars, ran>>

\* status_set("done - rendering pager")
CloseSweep ==
    /\ pc = "loop" /\ Sweeping /\ at = NPages + 1
    /\ pc' = "poll" /\ ret' = "finish"
    /\ UNCHANGED <<uartVars, job, at, cur, polls, pagerVars, logVars, ran>>

\* One byte of the drain: 'R' reboots there and then, the rest goes back.
PollByte ==
    /\ pc = "poll" /\ rx # <<>>
    /\ rx' = Tail(rx)
    /\ IF Head(rx).c = "R"
         THEN pc' = "rebooting" /\ ran' = Head(rx) /\ UNCHANGED pb
         ELSE pb' = Pushed(pb, Head(rx)) /\ UNCHANGED <<pc, ran>>
    /\ UNCHANGED <<line, sent, loopVars, pagerVars, logVars>>

PollEnd ==
    /\ pc = "poll" /\ rx = <<>>
    /\ pc' = ret
    /\ UNCHANGED <<uartVars, loopVars, pagerVars, logVars, ran>>

\* A status step or a polled wait inside a probe.
ProbeStep ==
    /\ pc = "body" /\ polls > 0
    /\ polls' = polls - 1
    /\ pc' = "poll" /\ ret' = "body"
    /\ UNCHANGED <<uartVars, job, at, cur, pagerVars, logVars, ran>>

ProbeEnd ==
    /\ pc = "body"
    /\ pc' = "loop"
    /\ dx' = IF cur = 0 THEN dx ELSE dx \cup {cur}
    /\ capture' = IF armed THEN capture \cup {<<cur, epoch>>} ELSE capture
    /\ UNCHANGED <<uartVars, loopVars, pagerVars, sinkVars, epoch, sdVars, ran>>

\* save_report.  The file is opened with FA_CREATE_ALWAYS: a write that
\* fails leaves what was written of it, and says so.
save_report ==
    IF ~(StorageUp /\ hasBuf)
      THEN told' = "not ready" /\ UNCHANGED file
      ELSE \/ told' = "saved" /\ file' = capture
           \/ told' = "failed" /\ file' \in {{}, {p \in capture : p[1] = 0}}

\* The buffer is saved at the end of boot only when both cards came up.
FinishBoot ==
    /\ pc = "finish" /\ job = "boot"
    /\ uartOnly' = FALSE /\ status' = FALSE /\ armed' = FALSE
    /\ IF StorageUp THEN save_report ELSE UNCHANGED sdVars
    /\ page' = 0
    /\ BeginPages("render")
    /\ UNCHANGED <<uartVars, ret, cur, polls, delta, gname, prev, hasBuf,
                   reportVars, ran>>

\* A refresh-all that leaves the capture sink attached.
FinishAllArmed ==
    /\ pc = "finish" /\ job = "all"
    /\ uartOnly' = FALSE
    /\ BeginPages("render")
    /\ UNCHANGED <<uartVars, ret, cur, polls, pagerVars, status, armed, hasBuf,
                   reportVars, sdVars, ran>>

FinishAll ==
    /\ pc = "finish" /\ job = "all"
    /\ uartOnly' = FALSE /\ armed' = FALSE
    /\ BeginPages("render")
    /\ UNCHANGED <<uartVars, ret, cur, polls, pagerVars, status, hasBuf,
                   reportVars, sdVars, ran>>

FinishPages ==
    /\ pc = "loop" /\ ~Sweeping /\ at = NPages
    /\ pc' = "idle"
    /\ uartOnly' = IF job \in {"group", "wifi"} THEN prev ELSE uartOnly
    /\ UNCHANGED <<uartVars, loopVars, pagerVars, status, armed, hasBuf,
                   reportVars, sdVars, ran>>

-----------------------------------------------------------------------------
(* A turn of the pager loop: the byte uart_getc returned, and btn, what    *)
(* btn_read did.  Navigation is looked at first, and takes the turn.       *)

Forward(btn) == Got.c = "n" \/ btn = "up"
Nav(btn) == Got.c \in {"n", "p"} \/ btn \in {"up", "down"}

Turn(btn) ==
    /\ pc = "idle"
    /\ uart_getc
    /\ UNCHANGED <<line, sent, ret, cur, polls, page, status, hasBuf>>

Key(btn, c) ==
    /\ Turn(btn) /\ ~Nav(btn) /\ Got.c = c
    /\ ran' = Got

Navigate(btn) ==
    /\ Turn(btn) /\ Nav(btn)
    /\ delta' = IF Forward(btn) THEN 1 ELSE -1
    /\ pc' = "batch"
    /\ ran' = IF Got.c \in {"n", "p"} THEN Got ELSE ran
    /\ UNCHANGED <<job, at, gname, prev, uartOnly, armed, reportVars, sdVars>>

Refresh(btn) ==
    /\ Key(btn, "r")
    /\ BeginPages("render")
    /\ UNCHANGED <<delta, gname, prev, uartOnly, armed, reportVars, sdVars>>

Wifi(btn) ==
    /\ Key(btn, "w")
    /\ BeginPages("wifi")
    /\ prev' = uartOnly /\ uartOnly' = TRUE
    /\ UNCHANGED <<delta, gname, armed, reportVars, sdVars>>

RefreshAll(btn) ==
    /\ Key(btn, "a")
    /\ BeginSweep("all")
    /\ UNCHANGED <<delta, gname, prev, sdVars>>

Save(btn) ==
    /\ Key(btn, "s")
    /\ save_report
    /\ UNCHANGED <<pc, job, at, delta, gname, prev, uartOnly, armed, reportVars>>

Reboot(btn) ==
    /\ Key(btn, "R")
    /\ pc' = "rebooting"
    /\ UNCHANGED <<job, at, delta, gname, prev, uartOnly, armed, reportVars, sdVars>>

Keys == {"G", "r", "w", "a", "s", "R"}

Quit(btn) ==
    /\ Turn(btn) /\ ~Nav(btn) /\ Got.c \notin Keys
    /\ Got.c = "q" \/ btn = "power"
    /\ pc' = "off"
    /\ ran' = IF Got.c = "q" THEN Got ELSE ran
    /\ UNCHANGED <<job, at, delta, gname, prev, uartOnly, armed, reportVars, sdVars>>

\* Nothing to do, or a byte that is no key.
Rest(btn) ==
    /\ Turn(btn) /\ ~Nav(btn) /\ Got.c \notin Keys \cup {"q"}
    /\ btn # "power"
    /\ UNCHANGED <<pc, job, at, delta, gname, prev, uartOnly, armed, reportVars, sdVars, ran>>

\* _page_step: the next enabled page, around the ends.
PageStep(p, dir) ==
    LET Ahead(k) == (p + dir * k) % NPages
    IN  Ahead(CHOOSE k \in 1 .. NPages :
                /\ page_enabled(Ahead(k))
                /\ \A j \in 1 .. k - 1 : ~page_enabled(Ahead(j)))

\* Queued navigation keys are folded into one move.
BatchNav ==
    /\ pc = "batch" /\ uart_getc /\ Got.c \in {"n", "p"}
    /\ delta' = IF Got.c = "n" THEN delta + 1 ELSE delta - 1
    /\ ran' = Got
    /\ UNCHANGED <<line, sent, pc, loopVars, page, gname, prev, logVars>>

Stepped[p \in Pages, d \in -(MaxSent + 1) .. MaxSent + 1] ==
    IF d = 0 THEN p
    ELSE IF d > 0 THEN Stepped[PageStep(p, 1), d - 1]
    ELSE Stepped[PageStep(p, -1), d + 1]

\* The key that ends the batch is lost.
HandBackLost == uart_getc

\* Nothing more, or another key: that is handed back by uart_ungetc, at the end
\* of what was pushed back.
HandBack ==
    IF pb # <<>> THEN pb' = Pushed(Tail(pb), Got) /\ rx' = rx
    ELSE pb' = Pushed(pb, Got) /\ rx' = Tail(rx)

BatchEnd ==
    /\ pc = "batch" /\ Got.c \notin {"n", "p"}
    /\ IF Got = NoByte THEN UNCHANGED <<rx, pb>> ELSE HandBack
    /\ page' = Stepped[page, delta] /\ delta' = 0
    /\ BeginPages("render")
    /\ UNCHANGED <<line, sent, ret, cur, polls, gname, prev, logVars, ran>>

-----------------------------------------------------------------------------
(* 'G': the group name, up to a newline, a full buffer or 200 ms.          *)

Group(btn) ==
    /\ Turn(btn) /\ ~Nav(btn) /\ Got.c = "G"
    /\ ran' = Got
    /\ pc' = "name" /\ gname' = <<>>
    /\ UNCHANGED <<job, at, delta, prev, uartOnly, armed, reportVars, sdVars>>

EndName ==
    IF gname = <<>>
      THEN pc' = "idle" /\ UNCHANGED <<job, at, prev, uartOnly>>
      ELSE BeginPages("group") /\ prev' = uartOnly /\ uartOnly' = TRUE

NameFrame == UNCHANGED <<line, sent, ret, cur, polls, page, delta, status, armed,
                         hasBuf, reportVars, sdVars, ran>>

NameByte ==
    /\ pc = "name" /\ uart_getc /\ Got.c \notin {"nl", "none"}
    /\ gname' = Append(gname, Got.c)
    /\ pc' = IF Len(gname) + 1 = NameMax THEN "rest" ELSE "name"
    /\ UNCHANGED <<job, at, prev, uartOnly>>
    /\ NameFrame

\* An over-long name: the rest of the line is thrown away.
RestByte ==
    /\ pc = "rest" /\ uart_getc /\ Got.c \notin {"nl", "none"}
    /\ UNCHANGED <<pc, job, at, gname, prev, uartOnly>>
    /\ NameFrame

NameNewline ==
    /\ pc \in {"name", "rest"} /\ uart_getc /\ Got.c = "nl"
    /\ EndName
    /\ UNCHANGED gname
    /\ NameFrame

\* 200 ms went by with nothing waiting: the PC sent no more, or paused.
NameTimeout ==
    /\ pc \in {"name", "rest"} /\ Waiting = <<>>
    /\ line = <<>> \/ HostStalls
    /\ EndName
    /\ UNCHANGED <<rx, pb, gname>>
    /\ NameFrame

-----------------------------------------------------------------------------
(* The PC.                                                                 *)

HostLine(l) ==
    /\ ~Stopped /\ line = <<>> /\ sent + Len(l) <= MaxSent
    /\ Polite => pc = "idle" /\ Waiting = <<>>
    /\ line' = [i \in 1 .. Len(l) |-> [c |-> l[i], cmd |-> i = 1]]
    /\ sent' = sent + Len(l)
    /\ UNCHANGED <<rx, pb, pc, loopVars, pagerVars, logVars, ran>>

HostByte ==
    /\ ~Stopped /\ line # <<>>
    /\ rx' = Append(rx, Head(line))
    /\ line' = Tail(line)
    /\ UNCHANGED <<pb, sent, pc, loopVars, pagerVars, logVars, ran>>

Halted == Stopped /\ UNCHANGED vars

PageLoop == RunPage \/ SkipPage \/ RunVerdict \/ CloseSweep
            \/ FinishBoot \/ FinishAll \/ FinishPages
Probe == ProbeStep \/ ProbeEnd
Poll == PollByte \/ PollEnd
PagerTurn ==
    \E btn \in {"none"} \cup Buttons :
        \/ Navigate(btn) \/ Refresh(btn) \/ Wifi(btn) \/ Group(btn)
        \/ RefreshAll(btn) \/ Save(btn) \/ Reboot(btn) \/ Quit(btn)
        \/ Rest(btn)
Batch == BatchNav \/ BatchEnd
GroupName == NameByte \/ RestByte \/ NameNewline \/ NameTimeout

Console == PageLoop \/ Probe \/ Poll \/ PagerTurn \/ Batch \/ GroupName
Host == (\E l \in Lines : HostLine(l)) \/ HostByte

Next == Console \/ Host \/ Halted

Spec == Init /\ [][Next]_vars

\* Probes end, and the processor does not stop between two steps of the loop.
FairSpec == Spec /\ WF_vars(Console) /\ WF_vars(HostByte)

-----------------------------------------------------------------------------
TypeOK ==
    /\ rx \in Seq(ByteSet) /\ pb \in Seq(ByteSet) /\ Len(pb) <= PushbackN
    /\ line \in Seq(ByteSet) /\ sent \in 0 .. MaxSent
    /\ pc \in {"loop", "poll", "body", "finish", "idle", "batch", "name", "rest",
               "rebooting", "off"}
    /\ job \in {"boot", "all", "render", "group", "wifi"}
    /\ ret \in {"body", "finish"}
    /\ at \in 0 .. NPages + 1 /\ cur \in Pages /\ polls \in 0 .. MaxPolls
    /\ page \in Pages /\ delta \in Int /\ gname \in Seq(Chars)
    /\ prev \in BOOLEAN /\ uartOnly \in BOOLEAN /\ status \in BOOLEAN
    /\ armed \in BOOLEAN /\ hasBuf \in BOOLEAN
    /\ epoch \in Nat \ {0} /\ dx \subseteq DataPages
    /\ capture \subseteq (Pages \X Nat) /\ file \subseteq (Pages \X Nat)
    /\ told \in {"nothing", "not ready", "saved", "failed"}
    /\ ran \in {NoByte} \cup ByteSet

\* The verdict of a sweep rolls up what every selected data page deposited in
\* this sweep and nothing else: not what a group refresh left behind before it,
\* of a page the selection leaves out (core.c: reset between sweeps "so a
\* refresh-all doesn't see stale findings"; the verdict runs last).
VerdictSeesTheSweep ==
    Sweeping /\ pc = "body" /\ cur = 0 => dx = Enabled

\* Where a probe's lines go depends on why it runs: the LCD only when the pager
\* renders, the report buffer only, and always, in a sweep.  Whatever keys came
\* before, and however 'G' and 'w' nest their saved flag, a probe finds the sinks
\* so, and the pager finds the LCD back and the buffer detached.
SinksFollowTheJob ==
    /\ pc = "body" => /\ uartOnly <=> job # "render"
                      /\ armed <=> Sweeping /\ hasBuf
    /\ pc = "idle" => ~uartOnly /\ ~status /\ ~armed

\* A save writes one whole sweep, the latest one, with no line of an earlier
\* sweep and none of the refreshes since; a write that fails says so (main.c:
\* "a later 's' saves this sweep rather than the boot-time one").
WholeSweep(e) == ({0} \cup Enabled) \X {e}
SaveIsTheLatestSweep ==
    [][file' # file => told' = "failed" \/ (told' = "saved" /\ file' = WholeSweep(epoch))]_vars

\* The bytes of a group name are never run as keys (README: G<name>\n refreshes
\* just the named group).
NamesAreNotKeys == ran.cmd

\* Once the PC's 'R' key is in the FIFO the console reboots, unless it is
\* switched off first (core.c: a host "needs to be able to reclaim the console
\* at ANY point").
Asked == \E i \in 1 .. Len(rx) : rx[i].c = "R" /\ rx[i].cmd
RebootHonoured == Asked ~> Stopped
=============================================================================
