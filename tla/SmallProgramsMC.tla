---------------------------- MODULE SmallProgramsMC ----------------------------
(* Small instances of the programs around powersensordaemon that share no    *)
(* state: its autosample child, sample_sensors, usocket and serial.  One of  *)
(* them runs, the others stay as they are.                                   *)
EXTENDS Autosample, SampleSensors, Terminal

VARIABLE running

(* Two devices, one asked for each second, one every other. *)
MCDelay == <<1, 2>>

(* A movement, a temperature, one without a value, a line that fills the    *)
(* buffer to the last byte, and one that does not fit.                      *)
MCServerLines ==
  { <<"m", "v", "\n">>, <<"t", "1", "\n">>, <<"t", "\n">>, <<"x", "x", "x", "\n">>,
    <<"x", "x", "x", "x", "\n">> }

MCInit ==
  /\ Init /\ SampleInit /\ TerminalInit
  /\ \/ running = "autosample" /\ listening /\ prog = "serial" /\ named /\ ~refuses
     \/ running = "sample_sensors" /\ prog = "serial" /\ named /\ ~refuses
     \/ running = "terminal" /\ listening

InAutosample(A) == running = "autosample" /\ A /\ UNCHANGED <<sampleVars, terminalVars, running>>
InSampling(A) == running = "sample_sensors" /\ A /\ UNCHANGED <<vars, terminalVars, running>>
InTerminal(A) == running = "terminal" /\ A /\ UNCHANGED <<vars, sampleVars, running>>

MCNext == InAutosample(Next) \/ InSampling(SampleNext) \/ InTerminal(TerminalNext)

(* The kernel runs the child and delivers its signals, and the daemon reads  *)
(* what the child writes.                                                    *)
MCSpec ==
  /\ MCInit /\ [][MCNext]_<<vars, sampleVars, terminalVars, running>>
  /\ WF_vars(InAutosample(ChildStep)) /\ WF_vars(InAutosample(Delivery))
  /\ WF_vars(InAutosample(Take))

(* Every variable of the three programs keeps its type: counters stay below  *)
(* their rates, buffers within their size, devices are not opened twice.     *)
TypesOK == TypeOK /\ SampleTypeOK /\ TerminalTypeOK

=============================================================================
