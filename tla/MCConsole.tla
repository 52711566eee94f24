---------------------------- MODULE MCConsole ----------------------------
(* Bounded instances of Console for TLC.  Page 0 is the verdict, page 1    *)
(* selected, page 2 not; page 2's name holds an 'R', as "Raw state" does.  *)
EXTENDS Console, TLC

Names == 0 :> <<"D">> @@ 1 :> <<"S">> @@ 2 :> <<"R">>

\* The sweeps, what they leave for the verdict and in the report.
SweepLines == {<<"n">>, <<"r">>, <<"w">>, <<"a">>, <<"s">>, <<"R">>,
               <<"G", "R", "nl">>, <<"G", "R", "R", "nl">>}

\* Every key, a name as long as the buffer, one longer, and none.
KeyLines == {<<k>> : k \in {"n", "p", "r", "w", "a", "s", "R", "q", "z"}}
AllLines == KeyLines \cup {<<"G", "R", "nl">>, <<"G", "R", "R", "nl">>, <<"G", "nl">>}

\* Reboot requests among keys that keep the console busy.
RebootLines == {<<"a">>, <<"R">>, <<"z">>, <<"n">>, <<"G", "S", "nl">>}
=============================================================================
