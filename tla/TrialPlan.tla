----------------------------- MODULE TrialPlan -----------------------------
(***************************************************************************)
(* What an experiment runs and in what order (bench/experiments.py).  An   *)
(* arm is a place in the declared lineup; places count from 1 here.        *)
(***************************************************************************)
EXTENDS Naturals, Sequences

\* Which arm goes first in a cell: by its coordinates only.
rotation_for(size, task_index, repeat_index) ==
  IF size = 0 THEN 0 ELSE (task_index + repeat_index) % size

\* The lineup from that arm on, in the declared order.
rotate(size, rotation) ==
  [i \in 1..size |-> ((i - 1 + rotation) % size) + 1]

\* Every cell, all repeats of one task before the next task.
plan_trials(tasks, lineup, repeats) ==
  [k \in 1..(Len(tasks) * repeats) |->
     LET task_index   == (k - 1) \div repeats
         repeat_index == (k - 1) % repeats
     IN  [task   |-> tasks[task_index + 1],
          repeat |-> repeat_index,
          order  |-> rotate(Len(lineup),
                            rotation_for(Len(lineup), task_index, repeat_index))]]
=============================================================================
