---------------------------- MODULE MCScheduler -----------------------------
(***************************************************************************)
(* An instance of Scheduler for TLC: a plain record, one with a window and *)
(* a condition to poll, one that is switched off and one that is not valid.*)
(***************************************************************************)
EXTENDS Scheduler

Plain == [every |-> 2, windows |-> {}, poll |-> 0,
          enabled |-> TRUE, valid |-> TRUE]
Windowed == [every |-> 3, windows |-> {[from |-> 1, to |-> 2, every |-> 1]},
             poll |-> 1, enabled |-> TRUE, valid |-> TRUE]
Off == [Plain EXCEPT !.enabled = FALSE]
Broken == [Plain EXCEPT !.valid = FALSE]

MCRecords == {Plain, Windowed, Off, Broken}
=============================================================================
