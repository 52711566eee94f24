----------------------------- MODULE HealthRun -----------------------------
(***************************************************************************)
(* The GUI's health check (gui/gui_run.c): which pages run, the findings   *)
(* they leave (dx.c), the verdict over them (verdict.c), the report, and   *)
(* what the results screen makes of it all (gui/gui_results.c).            *)
(***************************************************************************)
EXTENDS Report, GuiClock, FiniteSets

CONSTANTS Pages,       \* the sequence of pages after the Diagnostics page
          GroupOf,     \* each page's group
          CardPages,   \* those that bring the card up and mount it
          Keys,        \* the findings each page leaves
          Outcomes,    \* and what each may be: of Severities, or none (bounds)
          Rows,        \* the verdict's rows: [keys, groups, all]
          Categories,  \* the results' categories: sets of names of rows
          Masks        \* what the user ticks: sets of groups

AllGroups == {GroupOf[p] : p \in DOMAIN GroupOf}
AllKeys == UNION {Keys[p] : p \in DOMAIN Keys}

ASSUME HealthRunAssumption ==
    /\ {Pages[i] : i \in DOMAIN Pages} = DOMAIN GroupOf /\ DOMAIN Keys = DOMAIN GroupOf
    /\ \A p \in DOMAIN GroupOf : Outcomes[p] \subseteq {"pass", "soft", "warn", "fail", "none"}
    /\ \A r \in DOMAIN Rows : Rows[r].keys \subseteq AllKeys /\ Rows[r].groups \subseteq AllGroups
    /\ Masks \subseteq SUBSET AllGroups /\ {} \notin Masks
    /\ IsFiniteSet(DOMAIN Rows) /\ IsFiniteSet(AllKeys) /\ Pages \in Seq(DOMAIN GroupOf)
    /\ UNION Categories = DOMAIN Rows /\ CardPages \subseteq DOMAIN GroupOf

VARIABLES sel,       \* s_mask of gui_run.c, and g_run_mask
          sweep,     \* where the check is, and how many pages have started
          findings,  \* the registry
          verdict    \* the last line of the Diagnostics page

checkVars == <<body, disk, clk, sel, sweep, findings, verdict>>

Severities == {"pass", "soft", "warn", "fail"}
NoFinding == "none"
NoVerdict == [warn |-> 0, fail |-> 0, known |-> FALSE]

CheckInit(chip, card) ==
    /\ body = NoBody /\ disk = DiskInit(card) /\ clk = ClockInit(chip)
    /\ sel = [run |-> AllGroups, ran |-> {}]
    /\ sweep = [at |-> 0, started |-> 0]
    /\ findings = [k \in AllKeys |-> NoFinding] /\ verdict = NoVerdict

Running == sweep.at > 0
PageEnabled(page, mask) == GroupOf[page] \in mask
Total(mask) == 1 + Cardinality({i \in DOMAIN Pages : PageEnabled(Pages[i], mask)})

\* The first page to run from the i-th on; past the last one, the Diagnostics page.
NextPage(i, mask) ==
    LET left == {j \in i..Len(Pages) : PageEnabled(Pages[j], mask)}
    IN  IF left = {} THEN Len(Pages) + 1 ELSE CHOOSE j \in left : \A k \in left : j <= k

(* ---- the choice ---- *)

\* _act_check (gui_home.c): the whole check, whatever was picked before.
PickAll == sel' = [sel EXCEPT !.run = AllGroups]

\* _act_run (gui_custom.c); it remembers what was ticked.
PickSome(mask) == sel' = [sel EXCEPT !.run = mask]

(* ---- the sweep ---- *)

\* dx_reset
ResetFindings == [k \in AllKeys |-> NoFinding]

\* dx_set, for what a page records.
DxSet(f, keys, s) == [k \in AllKeys |-> IF k \in keys THEN s ELSE f[k]]

\* status_set: a page starts, the bar moves on.
StatusSet(next) == [at |-> next, started |-> sweep.started + 1]

\* gui_run, to its first page: the payload's clocks, a fresh buffer, no findings.
RunStarts ==
    /\ sel' = [sel EXCEPT !.ran = sel.run]
    /\ sweep' = [at |-> NextPage(1, sel.run), started |-> 0]
    /\ clk' = ClockFast(clk, FALSE)
    /\ body' = Appended(Armed, Banner)
    /\ findings' = ResetFindings /\ verdict' = NoVerdict
    /\ UNCHANGED disk

\* run_probe_mask, a page: what it finds is s for each of its keys, or it sets
\* none of them.
RunPage ==
    /\ Running /\ sweep.at <= Len(Pages)
    /\ LET page == Pages[sweep.at] IN
         /\ body' = Section(body, page)
         /\ \E s \in Outcomes[page] : findings' = DxSet(findings, Keys[page], s)
         /\ IF page \in CardPages THEN \E ok \in BOOLEAN : disk' = CardLookedAt(disk, ok)
                                  ELSE UNCHANGED disk
    /\ sweep' = StatusSet(NextPage(sweep.at + 1, sel.ran))
    /\ UNCHANGED <<clk, sel, verdict>>

\* Whether a row was covered; _row_ran decides it by the same rule.
RowRan(r, mask) == LET picked == Rows[r].groups \cap mask
                   IN  IF Rows[r].all THEN picked = Rows[r].groups ELSE picked # {}
Counted(severities) ==
    Cardinality({rk \in (DOMAIN Rows) \X AllKeys :
                   /\ RowRan(rk[1], sel.ran) /\ rk[2] \in Rows[rk[1]].keys
                   /\ findings[rk[2]] \in severities})

\* probe_verdict, the Diagnostics page.
RunVerdict ==
    /\ sweep.at = Len(Pages) + 1
    /\ verdict' = [warn |-> Counted({"warn", "soft"}), fail |-> Counted({"fail"}), known |-> TRUE]
    /\ body' = Appended(Section(body, "Diagnostics"), Banner)
    /\ sweep' = StatusSet(sweep.at + 1)
    /\ UNCHANGED <<disk, clk, sel, findings>>

\* The rest of gui_run: the buffer let go, the report saved, as much of it as
\* gets onto the card, and the GUI's clocks again.
RunSaves ==
    /\ sweep.at = Len(Pages) + 2
    /\ body' = Disarmed(body)
    /\ LET want == Sorted(body.text) IN
         \E got \in {want, SubSeq(want, 1, 1), <<>>} : disk' = Saved(disk, body', got)
    /\ clk' = ClockFast(clk, TRUE)
    /\ sweep' = [sweep EXCEPT !.at = 0, !.started = Total(sel.ran)]
    /\ UNCHANGED <<sel, findings, verdict>>

(* ---- the results ---- *)

\* The states of a check and of a category, the worst last.
Order == <<"untested", "ok", "soft", "partial", "warn", "fail">>
Rank(st) == CHOOSE i \in DOMAIN Order : Order[i] = st
FindingState(k) == CASE findings[k] = NoFinding -> "untested" [] findings[k] = "pass" -> "ok"
                     [] findings[k] = "soft" -> "soft" [] findings[k] = "warn" -> "warn"
                     [] findings[k] = "fail" -> "fail"

\* Mutant: the findings of rows that were only partly covered count.
CatStateOfAll(c) ==
    LET states == {FindingState(k) : k \in UNION {Rows[r].keys : r \in c}} \cup {"untested"}
    IN  CHOOSE st \in states : \A other \in states : Rank(other) <= Rank(st)

\* _cat_walk: the worst of the rows that ran; passed as far as it went is not
\* the same as passed.
CatState(c) ==
    LET ran == {r \in c : RowRan(r, sel.ran)}
        states == {FindingState(k) : k \in UNION {Rows[r].keys : r \in ran}} \cup {"untested"}
        worst == CHOOSE st \in states : \A other \in states : Rank(other) <= Rank(st)
    IN  IF ran # c /\ worst \in {"ok", "soft"} THEN "partial" ELSE worst

\* gui_results: what it says of the console.
Headline == IF \E c \in Categories : CatState(c) = "fail" THEN "Problems found"
            ELSE IF \E c \in Categories : CatState(c) = "warn" THEN "Mostly healthy"
            ELSE "All good"

\* gui_report_ready: a page was captured, and no check runs.
ReportReady == verdict.known /\ ~Running
=============================================================================
