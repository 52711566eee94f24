------------------------------- MODULE Report -------------------------------
(***************************************************************************)
(* The report of a check on its way to the SD card: the lines captured     *)
(* while the probes print (log.c), in a buffer that may fill, and the file *)
(* save_report writes, verdict first (report.c).  A line is one unit, and  *)
(* so is the mark of a buffer that was full.                               *)
(***************************************************************************)
EXTENDS Integers, Sequences, SequencesExt

CONSTANT Cap   \* units in the capture buffer

ASSUME CapAssumption == Cap \in Nat \ {0}

VARIABLES body,   \* g_report_body: its lines, and whether they end in the mark
          disk    \* the SD card: what is ready, who mounted it, and the file

Mark == <<"mark", "">>
Banner == <<"banner", "">>
HeadOf(page) == <<"head", page>>
LineOf(page) == <<"line", page>>

NoBody == [text |-> <<>>, armed |-> FALSE, full |-> FALSE]
Armed == [NoBody EXCEPT !.armed = TRUE]
Disarmed(b) == [b EXCEPT !.armed = FALSE]

\* Mutant: a full buffer drops lines silently.
AppendSilent(b, line) ==
    IF ~b.armed \/ b.full THEN b
    ELSE IF Len(b.text) + 1 >= Cap THEN [b EXCEPT !.full = TRUE]
    ELSE [b EXCEPT !.text = Append(@, line)]

\* Mutant: the mark is planted past the room there is.
AppendOverrun(b, line) ==
    IF ~b.armed \/ b.full THEN b
    ELSE IF Len(b.text) >= Cap THEN [b EXCEPT !.text = Append(@, Mark), !.full = TRUE]
    ELSE [b EXCEPT !.text = Append(@, line)]

\* _log_capture_append: room is kept for the mark, planted once.
Appended(b, line) ==
    IF ~b.armed \/ b.full THEN b
    ELSE IF Len(b.text) + 1 >= Cap THEN [b EXCEPT !.text = Append(@, Mark), !.full = TRUE]
    ELSE [b EXCEPT !.text = Append(@, line)]
\* A page: its heading, and what it prints.
Section(b, page) == Appended(Appended(b, HeadOf(page)), LineOf(page))

(* ---- the card ---- *)

\* bound: a volume is mounted, as it is from the start-up on, which looks for
\* keys on the card.  remembered: s_mounted.  ret: what save_report returned
\* last, 0 when it saved (1 until there was a save).
DiskInit(ok) == [sd |-> ok, emmc |-> TRUE, bound |-> ok, remembered |-> FALSE,
                 file |-> <<>>, ret |-> 1]

\* The verdict, the last section, goes first.
VerdictAt(text) == LET heads == {i \in 1..Len(text) : text[i] = HeadOf("Diagnostics")}
               IN  IF heads = {} THEN 0 ELSE CHOOSE i \in heads : \A j \in heads : i <= j
Sorted(text) == LET i == VerdictAt(text)
                IN  IF i = 0 THEN text
                    ELSE SubSeq(text, i, Len(text)) \o SubSeq(text, 1, i - 1)

\* Mutant: a short write is a success.
WroteAnything(want, got) == Len(got) > 0

\* A full card or a failing write is not a success.
WroteAll(want, got) == got = want

\* save_report: a volume mounted before is taken to be mounted still.  What got
\* onto the card may be less than what was to be written.
Saved(d, b, got) ==
    IF ~d.sd \/ ~d.emmc THEN [d EXCEPT !.ret = 1]
    ELSE IF b = NoBody THEN [d EXCEPT !.ret = 3]
    ELSE IF d.remembered /\ ~d.bound THEN [d EXCEPT !.ret = 4]
    ELSE [d EXCEPT !.bound = TRUE, !.remembered = TRUE, !.file = got,
                   !.ret = IF WroteAll(Sorted(b.text), got) THEN 0 ELSE 5]

\* sd_mount, for a screenshot.
Mounted(d) == IF d.sd THEN [d EXCEPT !.bound = TRUE] ELSE d

\* A slip: a volume mounted before is taken to be mounted still.
CardLookedAtOnce(d, ok) == LET up == d.sd \/ ok
                           IN  [d EXCEPT !.sd = up, !.bound = @ \/ (up /\ ~d.remembered)]

\* probe_storage and probe_serial, the first of the Storage pages: a card that is
\* not up is tried again, and one that is up is mounted afresh for its keys.
CardLookedAt(d, ok) == LET up == d.sd \/ ok IN [d EXCEPT !.sd = up, !.bound = @ \/ up]

\* A RAM test that could not be loaded: a card that was read was put to rest
\* (sd_end), and in every case it is brought up again, but not mounted.
CardCycled(d, ended, ok) == [d EXCEPT !.bound = @ /\ ~ended, !.sd = ok]

\* A file that says what was found, the verdict first, or that it was cut.
Honest(text) == \/ text # <<>> /\ text[1] = HeadOf("Diagnostics")
                \/ \E i \in 1..Len(text) : text[i] = Mark
=============================================================================
