-------------------------------- MODULE MCGui --------------------------------
(***************************************************************************)
(* Small tours of the GUI for TLC.                                         *)
(***************************************************************************)
EXTENDS Gui

Tour(parts, seated, moving, m, losing, l) ==
    [parts |-> {"home"} \cup parts, seated |-> seated, moving |-> moving, moves |-> m,
     losing |-> losing, losses |-> l, chips |-> {"none"}, cards |-> {TRUE}, ports |-> {}]

LossTour    == Tour({"joycon", "ir"}, {"R"}, {}, 0, {"R"}, 1)
CameraTour  == Tour({"joycon", "ir"}, {"R"}, {"R"}, 1, {}, 0)
MotionTour  == Tour({"joycon", "motion"}, {"R"}, {"R"}, 2, {}, 0)
RumbleTour  == Tour({"joycon", "rumble"}, Sides, Sides, 3, {}, 0)
ConsoleTour == [Tour({"custom", "joycon", "motion"}, {}, {"L"}, 2, {}, 0) EXCEPT
                    !.ports = {"UART-B", "UART-C", "USB"}]
CheckTour   == [Tour({"custom", "run", "results", "ram", "shot"}, {}, {}, 0, {}, 0) EXCEPT
                    !.chips = {"none", "erista"}, !.cards = BOOLEAN]
AwayTour    == Tour({"run", "results", "joycon", "ir"}, {"L"}, {"L"}, 1, {}, 0)
HandsTour   == Tour({"touch", "screen"}, {}, {}, 0, {}, 0)
MCTours == {LossTour, CameraTour, MotionTour, RumbleTour, ConsoleTour, CheckTour, AwayTour, HandsTour}

MCFrags == <<2, 2>>
MCChips == {"none", "mariko", "erista"}

MCPages == <<"power", "storage", "wireless", "memory">>
MCGroupOf == [p \in {"power", "storage", "wireless", "memory"} |-> p]
MCKeys == [power |-> {"pmic_otp", "charger_pg"}, storage |-> {"pkg1"},
           wireless |-> {"cpu_complex"}, memory |-> {"dram_sym"}]
MCOutcomes == [power |-> {"pass", "fail"}, storage |-> {"pass", "fail"},
               wireless |-> {"pass", "soft", "fail"}, memory |-> {"pass", "warn", "none"}]
MCCardPages == {"storage"}
MCRows == [boot    |-> [keys |-> {"pmic_otp", "pkg1"}, groups |-> {"power", "storage"}, all |-> TRUE],
           charger |-> [keys |-> {"charger_pg"}, groups |-> {"power"}, all |-> FALSE],
           cpu     |-> [keys |-> {"cpu_complex"}, groups |-> {"wireless"}, all |-> FALSE],
           memory  |-> [keys |-> {"dram_sym"}, groups |-> {"memory"}, all |-> FALSE]]
MCCategories == {{"charger"}, {"boot"}, {"cpu", "memory"}}
MCMasks == {{"power"}, {"storage", "wireless"}}
=============================================================================
